--------------------------- MODULE LiveViewProofs ---------------------------
(***************************************************************************)
(* Proofs about LogRing, for every capacity and any number of lines, and   *)
(* about the live view built on it, for every number of stream clients.    *)
(***************************************************************************)
EXTENDS LiveView, TLAPS

----------------------------------------------------------------------------
(* The ring *)

\* What the ring's correctness rests on, as one inductive invariant.
RingInv == RingTypeOK /\ LinesAccounted /\ NoStrandedLines

\* The empty ring satisfies the invariant.
LEMMA RingInitInv == RingInit => RingInv
<1> SUFFICES ASSUME RingInit PROVE RingInv
    OBVIOUS
<1>1. buf = <<>> /\ Len(buf) = 0 /\ Cap \in Nat
      BY RingConstants DEF RingInit
<1>2. RingTypeOK
  <2>1. notify \in BOOLEAN
        BY Zenon DEF RingInit
  <2>2. buf \in Seq(Nat) /\ Len(buf) <= Cap
        BY <1>1
  <2>3. /\ dropped \in Nat /\ written \in Nat /\ sent \in Nat
        /\ wpc \in {"append", "notify"} /\ fpc \in {"wait", "drain", "push"}
        BY DEF RingInit
  <2> QED BY <2>1, <2>2, <2>3 DEF RingTypeOK
<1>3. LinesAccounted
      BY <1>1 DEF RingInit, LinesAccounted
<1>4. NoStrandedLines
      BY <1>1 DEF NoStrandedLines
<1> QED BY <1>2, <1>3, <1>4 DEF RingInv

\* Every step of the writer and of flushRing preserves it.
LEMMA RingStepInv == RingInv /\ [RingNext]_ringVars => RingInv'
<1> SUFFICES ASSUME RingInv, [RingNext]_ringVars PROVE RingInv'
    OBVIOUS
<1> USE RingConstants DEF RingInv, RingTypeOK
<1>1. CASE WriteAppend
  <2>1. CASE Len(buf) >= Cap
    <3>1. /\ Len(buf) = Cap /\ Cap \in Nat \ {0}
          /\ buf' = Append(Tail(buf), written + 1) /\ dropped' = dropped + 1
          BY <1>1, <2>1 DEF WriteAppend
    <3>2. /\ Tail(buf) \in Seq(Nat) /\ Len(Tail(buf)) = Cap - 1
          /\ \A i \in 1..Cap - 1 : Tail(buf)[i] = buf[i + 1]
          BY <3>1
    <3>3. /\ buf' \in Seq(Nat) /\ Len(buf') = Cap /\ buf'[Cap] = written + 1
          /\ \A i \in 1..Cap - 1 : buf'[i] = buf[i + 1]
          BY <3>1, <3>2
    <3>4. written' = written + 1 /\ sent' = sent
          BY <1>1 DEF WriteAppend
    <3>5. written = sent + dropped + Cap /\ \A i \in 1..Cap : buf[i] = sent + dropped + i
          BY <3>1 DEF LinesAccounted
    <3>6. \A i \in 1..Cap : buf'[i] = sent + (dropped + 1) + i
      <4> TAKE i \in 1..Cap
      <4>1. CASE i = Cap
            BY <4>1, <3>1, <3>3, <3>5
      <4>2. CASE i \in 1..Cap - 1
            BY <4>2, <3>1, <3>3, <3>5
      <4> QED BY <4>1, <4>2, <3>1
    <3>7. LinesAccounted'
          BY <3>1, <3>3, <3>4, <3>5, <3>6 DEF LinesAccounted
    <3> QED BY <1>1, <3>1, <3>3, <3>7 DEF WriteAppend, NoStrandedLines
  <2>2. CASE ~(Len(buf) >= Cap)
    <3>1. buf' = Append(buf, written + 1) /\ dropped' = dropped
          BY <1>1, <2>2 DEF WriteAppend
    <3>2. /\ buf' \in Seq(Nat) /\ Len(buf') = Len(buf) + 1 /\ buf'[Len(buf) + 1] = written + 1
          /\ \A i \in 1..Len(buf) : buf'[i] = buf[i]
          BY <3>1
    <3>3. LinesAccounted'
          BY <1>1, <3>1, <3>2 DEF WriteAppend, LinesAccounted
    <3> QED BY <1>1, <2>2, <3>1, <3>2, <3>3 DEF WriteAppend, NoStrandedLines
  <2> QED BY <2>1, <2>2
<1>2. CASE WriteNotify
      BY <1>2 DEF WriteNotify, LinesAccounted, NoStrandedLines
<1>3. CASE FlushWake
      BY <1>3 DEF FlushWake, LinesAccounted, NoStrandedLines
<1>4. CASE FlushDrain
      BY <1>4 DEF FlushDrain, LinesAccounted, NoStrandedLines
<1>5. CASE FlushDone
      BY <1>5 DEF FlushDone, LinesAccounted, NoStrandedLines
<1>6. CASE UNCHANGED ringVars
      BY <1>6 DEF ringVars, LinesAccounted, NoStrandedLines
<1> QED BY <1>1, <1>2, <1>3, <1>4, <1>5, <1>6 DEF RingNext

\* The ring satisfies its invariant in every state.
LEMMA RingInvariance == RingSpec => []RingInv
BY RingInitInv, RingStepInv, PTL DEF RingSpec

\* LogRing's fields keep their types and the buffer never exceeds its capacity.
THEOREM RingTypeCorrect == RingSpec => []RingTypeOK
BY RingInvariance, PTL DEF RingInv

\* Every line is sent, buffered in order, or counted as dropped, oldest first.
THEOREM RingAccountsForLines == RingSpec => []LinesAccounted
BY RingInvariance, PTL DEF RingInv

\* No line is left in the ring without a notification, a writer or a drain to come.
THEOREM RingStrandsNoLine == RingSpec => []NoStrandedLines
BY RingInvariance, PTL DEF RingInv

----------------------------------------------------------------------------
(* The live view *)

Lamps    == {"red", "yellow", "green", "idle", "none"}
States   == [v : Nat, fact : Facts, lamp : Lamps]
Messages == [kind : {"state", "log"}, st : States]

ViewTypeOK ==
    /\ core \in {"up", "stopped", "crashed"}
    /\ fact \in Facts /\ file \in [fact : Facts, age : Int]
    /\ loop \in [pc : {"tick", "store", "cast"}, st : States, due : BOOLEAN]
    /\ srv \in States
    /\ con \in [Browsers -> {"off", "hello", "on"}]
    /\ first \in [Browsers -> States] /\ view \in [Browsers -> States]
    /\ ch \in [Browsers -> Seq(Messages)]
    /\ asked \in [Browsers -> [pc : {"sent", "back", "shown", "done"}, st : States]]
    /\ missed \in [Browsers -> BOOLEAN]

\* What is stored is what is being told, and is no newer than the loop's State.
PushInv ==
    /\ srv.v <= loop.st.v /\ (srv.v = loop.st.v => srv = loop.st)
    /\ loop.pc = "cast" => srv = loop.st

\* What a page has, gets first and has in its channel is ever newer, up to
\* what is stored, while it does not show the answer to its request; and the
\* answer is what was stored.
Ordered(b) ==
    /\ view[b].v <= srv.v
    /\ asked[b].pc = "back" => asked[b].st.v <= srv.v /\ (asked[b].st.v = srv.v => asked[b].st = srv)
    /\ con[b] = "hello" => /\ first[b].v <= srv.v
                           /\ asked[b].pc # "shown" => view[b].v <= first[b].v
    /\ \A i \in 1..Len(ch[b]) : ch[b][i].kind = "state" =>
         /\ ch[b][i].st.v <= srv.v /\ (asked[b].pc # "shown" => view[b].v <= ch[b][i].st.v)
         /\ con[b] = "hello" => first[b].v <= ch[b][i].st.v
         /\ \A j \in 1..i : ch[b][j].kind = "state" => ch[b][j].st.v <= ch[b][i].st.v

ViewInv == ViewTypeOK /\ PushInv /\ NothingMissedOnConnect /\ \A b \in Browsers : Ordered(b)

\* The State before the first push is one.
LEMMA NoStateType == NoState \in States
<1>1. (CHOOSE f \in Facts : TRUE) \in Facts
      BY ViewConstants
<1> QED BY <1>1 DEF NoState, States, Lamps

\* A new State is at least as new as the last one.
LEMMA NewStateFacts ==
  ASSUME ViewTypeOK
  PROVE  /\ NewState(Lamp) \in States /\ loop.st.v <= NewState(Lamp).v
         /\ NewState(Lamp).v = loop.st.v => NewState(Lamp) = loop.st
<1>1. Lamp \in Lamps
      BY DEF Lamp, BuildState, EvalSignal, Lamps
<1>2. loop.st \in States /\ file.fact \in Facts
      BY DEF ViewTypeOK
<1> QED BY <1>1, <1>2 DEF NewState, States

\* A message is appended to the channel of a registered browser, or dropped.
LEMMA BroadcastFacts ==
  ASSUME ViewTypeOK, NEW m \in Messages, Broadcast(m)
  PROVE  /\ ch' \in [Browsers -> Seq(Messages)] /\ missed' \in [Browsers -> BOOLEAN]
         /\ \A b \in Browsers :
              /\ \/ ch'[b] = ch[b] /\ (m.kind = "state" /\ con[b] # "off" => missed'[b])
                 \/ con[b] # "off" /\ ch'[b] = Append(ch[b], m)
              /\ m.kind # "state" => missed'[b] = missed[b]
<1>1. \A b \in Browsers : ch[b] \in Seq(Messages) /\ Append(ch[b], m) \in Seq(Messages)
      BY DEF ViewTypeOK
<1>2. ch' \in [Browsers -> Seq(Messages)]
      BY <1>1 DEF Broadcast
<1>3. missed' \in [Browsers -> BOOLEAN]
  <2>1. \A b \in Browsers : missed[b] \in BOOLEAN /\ (con[b] # "off" /\ Len(ch[b]) >= SubCap) \in BOOLEAN
        BY Zenon DEF ViewTypeOK
  <2> QED BY <2>1, Zenon DEF Broadcast
<1>4. ASSUME NEW b \in Browsers
      PROVE  \/ ch'[b] = ch[b] /\ (m.kind = "state" /\ con[b] # "off" => missed'[b])
             \/ con[b] # "off" /\ ch'[b] = Append(ch[b], m)
  <2>1. Len(ch[b]) \in Nat /\ SubCap \in Nat
        BY <1>1, ViewConstants
  <2>2. CASE con[b] # "off" /\ Len(ch[b]) < SubCap
        BY <2>2 DEF Broadcast
  <2>3. CASE ~(con[b] # "off" /\ Len(ch[b]) < SubCap)
    <3>1. ch'[b] = ch[b]
          BY <2>3 DEF Broadcast
    <3>2. con[b] # "off" => Len(ch[b]) >= SubCap
          BY <2>1, <2>3
    <3>3. m.kind = "state" /\ con[b] # "off" => missed'[b]
          BY <3>2 DEF Broadcast
    <3> QED BY <3>1, <3>3
  <2> QED BY <2>2, <2>3
<1>5. \A b \in Browsers : m.kind # "state" => missed'[b] = missed[b]
      BY DEF Broadcast
<1> QED BY <1>2, <1>3, <1>4, <1>5

\* The steps of the core, the clock and the ring touch neither page nor server.
LEMMA QuietSteps ==
  ASSUME ViewTypeOK, FactChanges \/ CoreEnds \/ CoreStarts \/ WriteStatus \/ Elapse \/ ClockBack \/ RingStep
  PROVE  /\ UNCHANGED <<srv, con, first, ch, asked, view, missed>>
         /\ loop'.pc = loop.pc /\ loop'.st = loop.st
         /\ ViewTypeOK'
<1>1. UNCHANGED <<srv, con, first, ch, asked, view, missed>>
      BY DEF FactChanges, CoreEnds, CoreStarts, WriteStatus, Elapse, ClockBack, RingStep, CoreKeeps, hubVars
<1>2. loop' = loop \/ loop' = [loop EXCEPT !.due = TRUE]
      BY DEF FactChanges, CoreEnds, CoreStarts, WriteStatus, Elapse, ClockBack, RingStep, CoreKeeps
<1>3. /\ loop'.pc = loop.pc /\ loop'.st = loop.st
      /\ loop' \in [pc : {"tick", "store", "cast"}, st : States, due : BOOLEAN]
      BY <1>2 DEF ViewTypeOK
<1>4. core' \in {"up", "stopped", "crashed"} /\ fact' \in Facts /\ file' \in [fact : Facts, age : Int]
  <2> USE DEF ViewTypeOK
  <2>1. CASE FactChanges \/ CoreEnds \/ CoreStarts \/ WriteStatus
        BY <2>1 DEF FactChanges, CoreEnds, CoreStarts, WriteStatus
  <2>2. CASE Elapse
    <3> DEFINE older == IF file.age > StaleAfter THEN file.age ELSE file.age + 1
    <3>1. file' = [file EXCEPT !.age = older] /\ core' = core /\ fact' = fact
          BY <2>2 DEF Elapse
    <3>2. file.age \in Int /\ older \in Int
          OBVIOUS
    <3> HIDE DEF older
    <3> QED BY <3>1, <3>2
  <2>3. CASE ClockBack
    <3>1. file' = [file EXCEPT !.age = @ - 1] /\ core' = core /\ fact' = fact
          BY <2>3 DEF ClockBack
    <3>2. file.age \in Int /\ file.age - 1 \in Int
          OBVIOUS
    <3> QED BY <3>1, <3>2
  <2>4. CASE RingStep
        BY <2>4 DEF RingStep, coreVars
  <2> QED BY <2>1, <2>2, <2>3, <2>4
<1> QED BY <1>1, <1>3, <1>4 DEF ViewTypeOK

\* What a page will show, and the order, do not depend on anything but its own.
LEMMA PageFrame ==
  ASSUME NEW b \in Browsers, con'[b] = con[b], first'[b] = first[b], ch'[b] = ch[b], view'[b] = view[b],
         asked'[b] = asked[b]
  PROVE  /\ srv' = srv => (WillShow(b, srv)' <=> WillShow(b, srv))
         /\ srv' = srv /\ Ordered(b) => Ordered(b)'
BY DEF WillShow, Ordered

\* A State appended to the channel is what the page will show.
LEMMA StateAppended ==
  ASSUME ViewTypeOK, NEW b \in Browsers, srv' = srv, Ordered(b),
         con'[b] = con[b], first'[b] = first[b], view'[b] = view[b], asked'[b] = asked[b],
         ch'[b] = Append(ch[b], Message("state", srv))
  PROVE  WillShow(b, srv)' /\ Ordered(b)'
<1> DEFINE n == Len(ch[b])
           m == Message("state", srv)
<1>1. /\ ch[b] \in Seq(Messages) /\ n \in Nat /\ m.kind = "state" /\ m.st = srv /\ m \in Messages
      /\ srv.v \in Nat
  <2>1. ch[b] \in Seq(Messages) /\ srv \in States
        BY DEF ViewTypeOK
  <2>2. n \in Nat /\ srv.v \in Nat
        BY <2>1 DEF States
  <2>3. m.kind = "state" /\ m.st = srv /\ m \in Messages
        BY <2>1 DEF Message, Messages
  <2> QED BY <2>1, <2>2, <2>3
<1>2. /\ Len(ch'[b]) = n + 1 /\ ch'[b][n + 1] = m /\ \A i \in 1..n : ch'[b][i] = ch[b][i]
      BY <1>1
<1> HIDE DEF m, n
<1>3. WillShow(b, srv)'
  <2>1. \A i \in 1..(n + 1) : (n + 1 <= i) => i = n + 1
        BY <1>1
  <2>2. n + 1 \in 1..(n + 1) /\ ch'[b][n + 1].kind = "state" /\ ch'[b][n + 1].st = srv
        BY <1>1, <1>2
  <2> QED BY <1>2, <2>1, <2>2 DEF WillShow
<1>4. ASSUME NEW i \in 1..(n + 1), ch'[b][i].kind = "state"
      PROVE  /\ ch'[b][i].st.v <= srv'.v /\ (asked'[b].pc # "shown" => view'[b].v <= ch'[b][i].st.v)
             /\ con'[b] = "hello" => first'[b].v <= ch'[b][i].st.v
             /\ \A j \in 1..i : ch'[b][j].kind = "state" => ch'[b][j].st.v <= ch'[b][i].st.v
  <2>1. CASE i \in 1..n
    <3>1. \A j \in 1..i : j \in 1..n
          BY <1>1, <2>1
    <3> QED BY <1>2, <1>4, <2>1, <3>1 DEF Ordered, n
  <2>2. CASE i = n + 1
    <3>1. \A j \in 1..i : j \in 1..n \/ j = i
          BY <1>1, <2>2
    <3>2. view[b].v <= srv.v /\ (con[b] = "hello" => first[b].v <= srv.v)
          BY DEF Ordered
    <3>3. \A j \in 1..n : ch[b][j].kind = "state" => ch[b][j].st.v <= srv.v
          BY DEF Ordered, n
    <3>4. ch'[b][i].st = srv /\ srv.v <= srv.v
          BY <1>1, <1>2, <2>2
    <3>5. \A j \in 1..i : ch'[b][j].kind = "state" => ch'[b][j].st.v <= ch'[b][i].st.v
          BY <1>2, <3>1, <3>3, <3>4
    <3>6. view'[b].v <= ch'[b][i].st.v /\ ch'[b][i].st.v <= srv'.v
          BY <3>2, <3>4
    <3>7. con'[b] = "hello" => first'[b].v <= ch'[b][i].st.v
          BY <3>2, <3>4
    <3> QED BY <3>5, <3>6, <3>7
  <2>3. i \in 1..n \/ i = n + 1
    <3>1. n \in Nat
          BY <1>1
    <3> QED BY <3>1
  <2> QED BY <2>1, <2>2, <2>3
<1>5. Ordered(b)'
      BY <1>2, <1>4 DEF Ordered
<1> QED BY <1>3, <1>5

\* A log line appended to the channel changes nothing of that.
LEMMA LineAppended ==
  ASSUME ViewTypeOK, NEW b \in Browsers, srv' = srv, Ordered(b),
         con'[b] = con[b], first'[b] = first[b], view'[b] = view[b], asked'[b] = asked[b],
         ch'[b] = Append(ch[b], Message("log", NoState))
  PROVE  (WillShow(b, srv) => WillShow(b, srv)') /\ Ordered(b)'
<1> DEFINE n == Len(ch[b])
           m == Message("log", NoState)
<1>1. ch[b] \in Seq(Messages) /\ n \in Nat /\ m.kind = "log"
      BY DEF ViewTypeOK, Message
<1>2. /\ Len(ch'[b]) = n + 1 /\ ch'[b][n + 1] = m /\ \A i \in 1..n : ch'[b][i] = ch[b][i]
      BY <1>1, NoStateType DEF Messages, Message
<1> HIDE DEF m
<1>3. {i \in 1..(n + 1) : ch'[b][i].kind = "state"} = {i \in 1..n : ch[b][i].kind = "state"}
  <2>1. \A i \in 1..(n + 1) : i \in 1..n \/ i = n + 1
        BY <1>1
  <2>2. \A i \in 1..n : i \in 1..(n + 1)
        BY <1>1
  <2> QED BY <1>1, <1>2, <2>1, <2>2
<1>4. WillShow(b, srv) => WillShow(b, srv)'
      BY <1>2, <1>3 DEF WillShow
<1>5. Ordered(b)'
  <2>1. \A i \in 1..(n + 1) : ch'[b][i].kind = "state" => i \in 1..n /\ ch[b][i].kind = "state"
        BY <1>3
  <2>2. \A i \in 1..n : \A j \in 1..i : j \in 1..n
        BY <1>1
  <2> QED BY <1>1, <1>2, <2>1, <2>2 DEF Ordered
<1> QED BY <1>4, <1>5

\* Reading the first message brings the page nearer to what it will show.
LEMMA MessageRead ==
  ASSUME ViewTypeOK, NEW b \in Browsers, Deliver(b), Ordered(b)
  PROVE  /\ WillShow(b, srv) => WillShow(b, srv)'
         /\ Ordered(b)' /\ BackByAnswer(b)
<1> DEFINE n == Len(ch[b])
<1>1. /\ ch[b] \in Seq(Messages) /\ n \in Nat \ {0} /\ con[b] = "on" /\ con' = con /\ srv' = srv
      BY DEF ViewTypeOK, Deliver, ConKeeps
<1>2. ch'[b] = Tail(ch[b]) /\ Len(ch'[b]) = n - 1 /\ \A i \in 1..(n - 1) : ch'[b][i] = ch[b][i + 1]
      BY <1>1 DEF Deliver, ViewTypeOK
<1>3. /\ view'[b] = IF ch[b][1].kind = "state" THEN ch[b][1].st ELSE view[b]
      /\ asked'[b].st = asked[b].st
      /\ asked'[b].pc = IF ch[b][1].kind = "state" /\ asked[b].pc = "shown" THEN "done" ELSE asked[b].pc
  <2>1. CASE ch[b][1].kind = "state"
        BY <1>1, <2>1 DEF Deliver, Show, ViewTypeOK
  <2>2. CASE ch[b][1].kind # "state"
        BY <1>1, <2>2 DEF Deliver, ViewTypeOK
  <2> QED BY <2>1, <2>2
<1>4. 1 \in 1..n /\ (\A i \in 1..(n - 1) : i + 1 \in 1..n) /\ (\A i \in 2..n : i - 1 \in 1..(n - 1) /\ (i - 1) + 1 = i)
      BY <1>1
<1>5. BackByAnswer(b) /\ view'[b].v <= srv.v
  <2>1. view[b].v \in Nat /\ view[b].v <= srv.v
        BY DEF ViewTypeOK, States, Ordered
  <2>2. CASE ch[b][1].kind = "state"
    <3>1. ch[b][1] \in Messages
          BY <1>1, <1>4
    <3>2. ch[b][1].st.v \in Nat
          BY <3>1 DEF Messages, States
    <3>3. /\ ch[b][1].st.v <= srv.v
          /\ asked[b].pc # "shown" => view[b].v <= ch[b][1].st.v
          BY <1>1, <1>4, <2>2 DEF Ordered
    <3> QED BY <1>3, <2>1, <2>2, <3>2, <3>3 DEF BackByAnswer
  <2>3. CASE ch[b][1].kind # "state"
        BY <1>3, <2>1, <2>3 DEF BackByAnswer
  <2> QED BY <2>2, <2>3
<1>6. ASSUME WillShow(b, srv) PROVE WillShow(b, srv)'
  <2> DEFINE old == {i \in 1..n : ch[b][i].kind = "state"}
             new == {i \in 1..(n - 1) : ch'[b][i].kind = "state"}
  <2>1. \A i \in 1..(n - 1) : i \in new <=> i + 1 \in old
        BY <1>2, <1>4
  <2>2. (\A i \in old : (\A j \in old : j <= i) => ch[b][i].st = srv) /\ (old = {} => srv = view[b])
        BY <1>1, <1>6 DEF WillShow
  <2>3. ASSUME NEW i \in new, \A j \in new : j <= i PROVE ch'[b][i].st = srv
    <3>1. i + 1 \in old /\ i \in 1..(n - 1)
          BY <2>1, <2>3
    <3>2. \A j \in old : j <= i + 1
      <4> TAKE j \in old
      <4>1. CASE j = 1
            BY <1>1, <3>1, <4>1
      <4>2. CASE j \in 2..n
        <5>1. j - 1 \in new
              BY <1>4, <2>1, <4>2
        <5> QED BY <1>1, <2>3, <3>1, <4>2, <5>1
      <4> QED BY <1>1, <4>1, <4>2
    <3> QED BY <1>2, <2>2, <3>1, <3>2
  <2>4. ASSUME new = {} PROVE srv = view'[b]
    <3>1. \A j \in old : j = 1
      <4> TAKE j \in old
      <4>1. CASE j \in 2..n
            BY <1>4, <2>1, <2>4, <4>1
      <4> QED BY <1>1, <4>1
    <3>2. CASE ch[b][1].kind = "state"
      <4>1. 1 \in old
            BY <1>4, <3>2
      <4>2. \A j \in old : j <= 1
            BY <3>1
      <4>3. ch[b][1].st = srv
            BY <2>2, <4>1, <4>2
      <4> QED BY <1>3, <3>2, <4>3
    <3>3. CASE ch[b][1].kind # "state"
      <4>1. old = {}
            BY <3>1, <3>3
      <4> QED BY <1>3, <2>2, <3>3, <4>1
    <3> QED BY <3>2, <3>3
  <2> QED BY <1>1, <1>2, <2>3, <2>4 DEF WillShow
<1>7. ASSUME NEW i \in 1..(n - 1), ch'[b][i].kind = "state"
      PROVE  /\ ch'[b][i].st.v <= srv'.v /\ (asked'[b].pc # "shown" => view'[b].v <= ch'[b][i].st.v)
             /\ \A j \in 1..i : ch'[b][j].kind = "state" => ch'[b][j].st.v <= ch'[b][i].st.v
  <2>1. i + 1 \in 1..n /\ ch'[b][i] = ch[b][i + 1] /\ 1 \in 1..(i + 1)
        BY <1>1, <1>2, <1>4
  <2>2. /\ ch[b][i + 1].st.v <= srv.v /\ (asked[b].pc # "shown" => view[b].v <= ch[b][i + 1].st.v)
        /\ \A j \in 1..(i + 1) : ch[b][j].kind = "state" => ch[b][j].st.v <= ch[b][i + 1].st.v
        BY <1>7, <2>1 DEF Ordered
  <2>3. asked'[b].pc # "shown" => view'[b].v <= ch'[b][i].st.v
        BY <1>3, <2>1, <2>2
  <2>4. \A j \in 1..i : j + 1 \in 1..(i + 1) /\ j \in 1..(n - 1)
        BY <1>1
  <2> QED BY <1>1, <1>2, <2>1, <2>2, <2>3, <2>4
<1>8. Ordered(b)'
      BY <1>1, <1>2, <1>3, <1>5, <1>7 DEF Ordered
<1> QED BY <1>5, <1>6, <1>8

\* The steps of stateLoop and of the connections leave everything in its domain.
LEMMA ViewTypeStep == ViewTypeOK /\ ViewNext => ViewTypeOK'
<1> SUFFICES ASSUME ViewTypeOK, ViewNext PROVE ViewTypeOK'
    OBVIOUS
<1>1. CASE FactChanges \/ CoreEnds \/ CoreStarts \/ WriteStatus \/ Elapse \/ ClockBack \/ RingStep
      BY <1>1, QuietSteps
<1>2. CASE Tick
      BY <1>2, NewStateFacts DEF Tick, TickWith, LoopKeeps, coreVars, hubVars, ViewTypeOK
<1>3. CASE Store
      BY <1>3 DEF Store, LoopKeeps, coreVars, hubVars, ViewTypeOK
<1>4. CASE Cast
  <2>1. Message("state", loop.st) \in Messages
        BY DEF ViewTypeOK, Message, Messages
  <2>2. ch' \in [Browsers -> Seq(Messages)] /\ missed' \in [Browsers -> BOOLEAN]
        BY <1>4, <2>1, BroadcastFacts DEF Cast
  <2>3. loop' \in [pc : {"tick", "store", "cast"}, st : States, due : BOOLEAN]
        BY <1>4 DEF Cast, ViewTypeOK
  <2> QED BY <1>4, <2>2, <2>3 DEF Cast, LoopKeeps, coreVars, ViewTypeOK
<1>5. CASE PushLog
  <2>1. Message("log", NoState) \in Messages
        BY NoStateType DEF Message, Messages
  <2>2. ch' \in [Browsers -> Seq(Messages)] /\ missed' \in [Browsers -> BOOLEAN]
        BY <1>5, <2>1, BroadcastFacts DEF PushLog
  <2> QED BY <1>5, <2>2 DEF PushLog, coreVars, ViewTypeOK
<1>a. ASSUME NEW b \in Browsers, NEW st \in States, Show(b, st)
      PROVE  /\ view' \in [Browsers -> States]
             /\ asked' \in [Browsers -> [pc : {"sent", "back", "shown", "done"}, st : States]]
      BY <1>a DEF Show, ViewTypeOK
<1>6. ASSUME NEW b \in Browsers, Connect(b) \/ Hello(b) \/ Disconnect(b) PROVE ViewTypeOK'
  <2>1. <<>> \in Seq(Messages) /\ FALSE \in BOOLEAN
        OBVIOUS
  <2>2. missed' \in [Browsers -> BOOLEAN]
    <3>1. missed' = missed \/ missed' = [missed EXCEPT ![b] = FALSE]
          BY <1>6, Zenon DEF Connect, Hello, Disconnect
    <3> QED BY <3>1, Zenon DEF ViewTypeOK
  <2>3. con' \in [Browsers -> {"off", "hello", "on"}]
        BY <1>6 DEF Connect, Hello, Disconnect, ViewTypeOK
  <2>4. ch' \in [Browsers -> Seq(Messages)]
    <3>1. ch' = ch \/ ch' = [ch EXCEPT ![b] = <<>>]
          BY <1>6 DEF Connect, Hello, Disconnect
    <3> QED BY <2>1, <3>1 DEF ViewTypeOK
  <2>6. /\ first' \in [Browsers -> States] /\ view' \in [Browsers -> States]
        /\ asked' \in [Browsers -> [pc : {"sent", "back", "shown", "done"}, st : States]]
    <3>1. /\ first' = [first EXCEPT ![b] = srv] \/ first' = [first EXCEPT ![b] = NoState]
          /\ UNCHANGED <<view, asked>> \/ Show(b, first[b])
          BY <1>6 DEF Connect, Hello, Disconnect
    <3>2. first \in [Browsers -> States] /\ first[b] \in States /\ srv \in States
          BY DEF ViewTypeOK
    <3>3. first' \in [Browsers -> States]
          BY <3>1, <3>2, NoStateType
    <3>4. CASE UNCHANGED <<view, asked>>
          BY <3>3, <3>4 DEF ViewTypeOK
    <3>5. CASE Show(b, first[b])
          BY <1>a, <3>2, <3>3, <3>5
    <3> QED BY <3>1, <3>4, <3>5
  <2>5. UNCHANGED <<core, fact, file, loop, srv>>
        BY <1>6 DEF Connect, Hello, Disconnect, ConKeeps, coreVars
  <2> QED BY <2>2, <2>3, <2>4, <2>5, <2>6 DEF ViewTypeOK
<1>7. ASSUME NEW b \in Browsers, Deliver(b) PROVE ViewTypeOK'
  <2>1. ch[b] \in Seq(Messages) /\ ch[b] # <<>>
        BY <1>7 DEF Deliver, ViewTypeOK
  <2>2. Tail(ch[b]) \in Seq(Messages) /\ Head(ch[b]) \in Messages
        BY <2>1
  <2>3. Head(ch[b]).st \in States
        BY <2>2 DEF Messages
  <2>4. ch' \in [Browsers -> Seq(Messages)]
        BY <1>7, <2>2 DEF Deliver, ViewTypeOK
  <2>6. /\ view' \in [Browsers -> States]
        /\ asked' \in [Browsers -> [pc : {"sent", "back", "shown", "done"}, st : States]]
    <3>1. UNCHANGED <<view, asked>> \/ Show(b, Head(ch[b]).st)
          BY <1>7 DEF Deliver
    <3>2. CASE UNCHANGED <<view, asked>>
          BY <3>2 DEF ViewTypeOK
    <3>3. CASE Show(b, Head(ch[b]).st)
          BY <1>a, <2>3, <3>3
    <3> QED BY <3>1, <3>2, <3>3
  <2>5. UNCHANGED <<con, first, missed, core, fact, file, loop, srv>>
        BY <1>7 DEF Deliver, ConKeeps, coreVars
  <2> QED BY <2>4, <2>5, <2>6 DEF ViewTypeOK
<1>8. ASSUME NEW b \in Browsers, HandleState(b) \/ ShowAnswer(b) PROVE ViewTypeOK'
  <2>1. UNCHANGED <<con, first, ch, core, fact, file, loop, srv>>
        BY <1>8 DEF HandleState, ShowAnswer, ConKeeps, coreVars
  <2>2. srv \in States /\ asked[b].st \in States
        BY DEF ViewTypeOK
  <2>3. asked' \in [Browsers -> [pc : {"sent", "back", "shown", "done"}, st : States]]
    <3> DEFINE Asked == [pc : {"sent", "back", "shown", "done"}, st : States]
    <3>1. [pc |-> "back", st |-> srv] \in Asked /\ [pc |-> "shown", st |-> NoState] \in Asked
          BY <2>2, NoStateType
    <3>2. asked \in [Browsers -> Asked]
          BY DEF ViewTypeOK
    <3>3. \E a \in Asked : asked' = [asked EXCEPT ![b] = a]
          BY <1>8, <3>1 DEF HandleState, ShowAnswer
    <3> HIDE DEF Asked
    <3>4. asked' \in [Browsers -> Asked]
          BY <3>2, <3>3
    <3> QED BY <3>4 DEF Asked
  <2>4. view' \in [Browsers -> States]
        BY <1>8, <2>2 DEF HandleState, ShowAnswer, ViewTypeOK
  <2>5. missed' \in [Browsers -> BOOLEAN]
    <3>1. missed' = missed \/ missed' = [missed EXCEPT ![b] = missed[b] \/ asked[b].st.v < view[b].v]
          BY <1>8, Zenon DEF HandleState, ShowAnswer
    <3>2. (missed[b] \/ asked[b].st.v < view[b].v) \in BOOLEAN
          BY Zenon
    <3> QED BY <3>1, <3>2, Zenon DEF ViewTypeOK
  <2> QED BY <2>1, <2>3, <2>4, <2>5 DEF ViewTypeOK
<1> QED BY <1>1, <1>2, <1>3, <1>4, <1>5, <1>6, <1>7, <1>8 DEF ViewNext

\* Every step keeps the order of States and what the pages will show, and no
\* page goes back but by the answer to its request.
LEMMA ViewStep ==
  ASSUME ViewInv, ViewNext
  PROVE  /\ PushInv' /\ NothingMissedOnConnect'
         /\ \A b \in Browsers : Ordered(b)' /\ BackByAnswer(b)
<1>t. ViewTypeOK /\ PushInv /\ NothingMissedOnConnect /\ \A b \in Browsers : Ordered(b)
      BY DEF ViewInv
<1>v. /\ srv.v \in Nat /\ loop.st.v \in Nat
      /\ \A b \in Browsers : view[b].v \in Nat /\ (view'[b] = view[b] => BackByAnswer(b))
  <2>1. srv.v \in Nat /\ loop.st.v \in Nat /\ \A b \in Browsers : view[b].v \in Nat
        BY <1>t DEF ViewTypeOK, States
  <2> QED BY <2>1 DEF BackByAnswer
<1>1. CASE FactChanges \/ CoreEnds \/ CoreStarts \/ WriteStatus \/ Elapse \/ ClockBack \/ RingStep
  <2>1. UNCHANGED <<srv, con, first, ch, asked, view, missed>> /\ loop'.pc = loop.pc /\ loop'.st = loop.st
        BY <1>1, <1>t, QuietSteps
  <2> QED BY <1>t, <1>v, <2>1, PageFrame DEF PushInv, NothingMissedOnConnect
<1>2. CASE Tick
  <2>1. UNCHANGED <<srv, con, first, ch, asked, view, missed>> /\ loop.pc = "tick"
        BY <1>2 DEF Tick, TickWith, hubVars
  <2>2. /\ loop'.pc = "store" /\ loop.st.v <= loop'.st.v /\ loop'.st.v \in Nat
        /\ loop'.st.v = loop.st.v => loop'.st = loop.st
        BY <1>2, <1>t, NewStateFacts DEF Tick, TickWith, States
  <2>3. PushInv'
        BY <1>t, <1>v, <2>1, <2>2 DEF PushInv
  <2> QED BY <1>t, <1>v, <2>1, <2>3, PageFrame DEF NothingMissedOnConnect
<1>3. CASE Store
  <2>1. /\ UNCHANGED <<con, first, ch, asked, view, missed>>
        /\ srv' = loop.st /\ srv.v <= srv'.v /\ (srv.v = srv'.v => srv = srv')
        BY <1>3, <1>t DEF Store, hubVars, PushInv
  <2>2. loop'.pc = "cast" /\ loop'.st = loop.st
        BY <1>3, <1>t DEF Store, ViewTypeOK
  <2>3. PushInv' /\ NothingMissedOnConnect'
        BY <1>v, <2>1, <2>2 DEF PushInv, NothingMissedOnConnect
  <2>4. ASSUME NEW b \in Browsers PROVE Ordered(b)'
    <3>1. \A i \in 1..Len(ch[b]) : ch[b][i] \in Messages
          BY <1>t DEF ViewTypeOK
    <3>2. \A i \in 1..Len(ch[b]) : ch[b][i].st.v \in Nat
          BY <3>1 DEF Messages, States
    <3>3. first[b].v \in Nat /\ view[b].v \in Nat /\ srv'.v \in Nat /\ asked[b].st.v \in Nat
          BY <1>t, <1>v, <2>1 DEF ViewTypeOK, States
    <3>4. \A x \in Nat : x <= srv.v => x <= srv'.v
          BY <1>v, <2>1, <3>3
    <3>5. Ordered(b)
          BY <1>t
    <3>6. asked[b].pc = "back" => asked[b].st.v <= srv'.v /\ (asked[b].st.v = srv'.v => asked[b].st = srv')
          BY <1>v, <2>1, <3>3, <3>5 DEF Ordered
    <3> QED BY <2>1, <3>2, <3>3, <3>4, <3>5, <3>6 DEF Ordered
  <2> QED BY <1>v, <2>1, <2>3, <2>4
<1>4. CASE Cast
  <2>1. UNCHANGED <<srv, con, first, asked, view>> /\ loop.pc = "cast" /\ srv = loop.st
        BY <1>4, <1>t DEF Cast, PushInv
  <2>2. loop'.pc = "tick" /\ loop'.st = loop.st
        BY <1>4, <1>t DEF Cast, ViewTypeOK
  <2>3. Broadcast(Message("state", srv)) /\ Message("state", srv).kind = "state" /\ Message("state", srv) \in Messages
        BY <1>4, <1>t, <2>1 DEF Cast, Message, Messages, ViewTypeOK
  <2>4. ASSUME NEW b \in Browsers
        PROVE  Ordered(b)' /\ (con'[b] # "off" /\ ~missed'[b] => WillShow(b, srv)')
    <3>1. \/ ch'[b] = ch[b] /\ (con[b] # "off" => missed'[b])
          \/ ch'[b] = Append(ch[b], Message("state", srv))
          BY <1>t, <2>3, BroadcastFacts
    <3>2. CASE ch'[b] = ch[b] /\ (con[b] # "off" => missed'[b])
          BY <1>t, <2>1, <3>2, PageFrame
    <3>3. CASE ch'[b] = Append(ch[b], Message("state", srv))
          BY <1>t, <2>1, <3>3, StateAppended
    <3> QED BY <3>1, <3>2, <3>3
  <2> QED BY <1>t, <1>v, <2>1, <2>2, <2>4 DEF PushInv, NothingMissedOnConnect
<1>5. CASE PushLog
  <2>1. UNCHANGED <<srv, con, first, asked, view, loop>>
        BY <1>5 DEF PushLog
  <2>2. Broadcast(Message("log", NoState)) /\ Message("log", NoState).kind = "log" /\ Message("log", NoState) \in Messages
        BY <1>5, NoStateType DEF PushLog, Message, Messages
  <2>3. ASSUME NEW b \in Browsers
        PROVE  Ordered(b)' /\ missed'[b] = missed[b] /\ (WillShow(b, srv) => WillShow(b, srv)')
    <3>1. /\ ch'[b] = ch[b] \/ ch'[b] = Append(ch[b], Message("log", NoState))
          /\ missed'[b] = missed[b]
          BY <1>t, <2>2, BroadcastFacts
    <3>2. CASE ch'[b] = ch[b]
          BY <1>t, <2>1, <3>1, <3>2, PageFrame
    <3>3. CASE ch'[b] = Append(ch[b], Message("log", NoState))
          BY <1>t, <2>1, <3>1, <3>3, LineAppended
    <3> QED BY <3>1, <3>2, <3>3
  <2> QED BY <1>t, <1>v, <2>1, <2>3 DEF PushInv, NothingMissedOnConnect
<1>6. ASSUME NEW q \in Browsers,
             Connect(q) \/ Hello(q) \/ Deliver(q) \/ Disconnect(q) \/ HandleState(q) \/ ShowAnswer(q)
      PROVE  /\ PushInv' /\ NothingMissedOnConnect'
             /\ \A b \in Browsers : Ordered(b)' /\ BackByAnswer(b)
  <2>1. UNCHANGED <<srv, loop>>
        BY <1>6 DEF Connect, Hello, Deliver, Disconnect, HandleState, ShowAnswer, ConKeeps
  <2>2. \A b \in Browsers \ {q} : /\ con'[b] = con[b] /\ first'[b] = first[b] /\ ch'[b] = ch[b]
                                  /\ view'[b] = view[b] /\ asked'[b] = asked[b] /\ missed'[b] = missed[b]
    <3>1. CASE Connect(q) \/ Disconnect(q)
          BY <1>t, <3>1 DEF Connect, Disconnect, ViewTypeOK
    <3>2. CASE Hello(q)
          BY <1>t, <3>2 DEF Hello, Show, ViewTypeOK
    <3>3. CASE Deliver(q)
          BY <1>t, <3>3 DEF Deliver, Show, ViewTypeOK
    <3>4. CASE HandleState(q) \/ ShowAnswer(q)
          BY <1>t, <3>4 DEF HandleState, ShowAnswer, ViewTypeOK
    <3> QED BY <1>6, <3>1, <3>2, <3>3, <3>4
  <2>3. /\ Ordered(q)' /\ BackByAnswer(q)
        /\ con'[q] # "off" /\ ~missed'[q] /\ loop.pc # "cast" => WillShow(q, srv)'
    <3>o. Ordered(q) /\ (con[q] # "off" /\ ~missed[q] /\ loop.pc # "cast" => WillShow(q, srv))
          BY <1>t DEF NothingMissedOnConnect
    <3>1. CASE Connect(q)
      <4>1. /\ con'[q] = "hello" /\ first'[q] = srv /\ ch'[q] = <<>> /\ view'[q] = view[q]
            /\ asked'[q] = asked[q]
            BY <1>t, <3>1 DEF Connect, ViewTypeOK
      <4>2. Len(ch'[q]) = 0 /\ 1..0 = {} /\ srv.v <= srv.v
            BY <1>v, <4>1
      <4>3. view[q].v <= srv.v
            BY <3>o DEF Ordered
      <4>4. Ordered(q)'
            BY <2>1, <3>o, <4>1, <4>2, <4>3 DEF Ordered
      <4>5. WillShow(q, srv)'
            BY <2>1, <4>1, <4>2 DEF WillShow
      <4> QED BY <1>v, <4>1, <4>4, <4>5
    <3>2. CASE Hello(q)
      <4>1. /\ con[q] = "hello" /\ con'[q] = "on" /\ view'[q] = first[q] /\ ch'[q] = ch[q] /\ missed'[q] = missed[q]
            /\ asked'[q].st = asked[q].st
            /\ asked'[q].pc = IF asked[q].pc = "shown" THEN "done" ELSE asked[q].pc
            BY <1>t, <3>2 DEF Hello, Show, ViewTypeOK
      <4>4. first[q].v \in Nat /\ view[q].v \in Nat
            BY <1>t DEF ViewTypeOK, States
      <4>2. Ordered(q)' /\ BackByAnswer(q)
            BY <2>1, <3>o, <4>1, <4>4 DEF Ordered, BackByAnswer
      <4>3. WillShow(q, srv) => WillShow(q, srv)'
            BY <2>1, <4>1 DEF WillShow
      <4> QED BY <3>o, <4>1, <4>2, <4>3
    <3>3. CASE Deliver(q)
      <4>1. con'[q] = con[q] /\ missed'[q] = missed[q]
            BY <3>3 DEF Deliver
      <4> QED BY <1>t, <3>o, <3>3, <4>1, MessageRead
    <3>4. CASE Disconnect(q)
      <4>1. con'[q] = "off" /\ ch'[q] = <<>> /\ view'[q] = view[q] /\ asked'[q] = asked[q]
            BY <1>t, <3>4 DEF Disconnect, ViewTypeOK
      <4>2. Len(ch'[q]) = 0 /\ 1..0 = {}
            BY <4>1
      <4>3. Ordered(q)'
            BY <2>1, <3>o, <4>1, <4>2 DEF Ordered
      <4> QED BY <1>v, <4>1, <4>3
    <3>5. CASE HandleState(q)
      <4>1. /\ con'[q] = con[q] /\ first'[q] = first[q] /\ ch'[q] = ch[q] /\ view'[q] = view[q]
            /\ missed'[q] = missed[q] /\ asked[q].pc = "sent"
            /\ asked'[q].pc = "back" /\ asked'[q].st = srv
            BY <1>t, <3>5 DEF HandleState, ViewTypeOK
      <4>2. srv.v <= srv.v
            BY <1>v
      <4>3. Ordered(q)'
            BY <2>1, <3>o, <4>1, <4>2 DEF Ordered
      <4>4. WillShow(q, srv) => WillShow(q, srv)'
            BY <2>1, <4>1 DEF WillShow
      <4> QED BY <1>v, <3>o, <4>1, <4>3, <4>4
    <3>6. CASE ShowAnswer(q)
      <4>1. /\ con'[q] = con[q] /\ first'[q] = first[q] /\ ch'[q] = ch[q] /\ view'[q] = asked[q].st
            /\ asked[q].pc = "back" /\ asked'[q].pc = "shown"
            BY <1>t, <3>6 DEF ShowAnswer, ViewTypeOK
      <4>2. ~missed'[q] => ~missed[q] /\ ~(asked[q].st.v < view[q].v)
            BY <1>t, <3>6, Zenon DEF ShowAnswer, ViewTypeOK
      <4>3. Ordered(q)' /\ BackByAnswer(q)
            BY <2>1, <3>o, <4>1 DEF Ordered, BackByAnswer
      <4>4. ASSUME con'[q] # "off", ~missed'[q], loop.pc # "cast" PROVE WillShow(q, srv)'
        <5>1. WillShow(q, srv) /\ ~(asked[q].st.v < view[q].v)
              BY <3>o, <4>1, <4>2, <4>4
        <5>2. view[q] = srv => view'[q] = srv
          <6>1. asked[q].st.v <= srv.v /\ asked[q].st.v \in Nat
                BY <1>t, <3>o, <4>1 DEF Ordered, ViewTypeOK, States
          <6> QED BY <1>v, <3>o, <4>1, <5>1, <6>1 DEF Ordered
        <5> QED BY <2>1, <4>1, <5>1, <5>2 DEF WillShow
      <4> QED BY <4>3, <4>4
    <3> QED BY <1>6, <3>1, <3>2, <3>3, <3>4, <3>5, <3>6
  <2>4. ASSUME NEW b \in Browsers \ {q}
        PROVE  /\ Ordered(b)' /\ BackByAnswer(b)
               /\ con'[b] # "off" /\ ~missed'[b] /\ loop.pc # "cast" => WillShow(b, srv)'
        BY <1>t, <1>v, <2>1, <2>2, PageFrame DEF NothingMissedOnConnect
  <2>5. NothingMissedOnConnect'
        BY <2>1, <2>3, <2>4 DEF NothingMissedOnConnect
  <2> QED BY <1>t, <2>1, <2>3, <2>4, <2>5 DEF PushInv
<1> QED BY <1>1, <1>2, <1>3, <1>4, <1>5, <1>6 DEF ViewNext

\* The live view starts in order.
LEMMA ViewInitInv == ViewInit => ViewInv
<1> SUFFICES ASSUME ViewInit PROVE ViewInv
    OBVIOUS
<1>1. /\ srv = NoState /\ loop.st = NoState /\ loop.pc = "tick" /\ NoState.v = 0
      /\ \A b \in Browsers : /\ con[b] = "off" /\ ch[b] = <<>> /\ Len(ch[b]) = 0 /\ view[b] = NoState
                             /\ asked[b].pc = "sent"
      BY DEF ViewInit, NoState
<1>2. ViewTypeOK
  <2>1. missed \in [Browsers -> BOOLEAN]
        BY Zenon DEF ViewInit
  <2>2. loop \in [pc : {"tick", "store", "cast"}, st : States, due : BOOLEAN]
        BY NoStateType DEF ViewInit
  <2>3. <<>> \in Seq(Messages)
        OBVIOUS
  <2>4. ch \in [Browsers -> Seq(Messages)]
        BY <2>3 DEF ViewInit
  <2>5. file \in [fact : Facts, age : Int]
        BY ViewConstants DEF ViewInit
  <2> QED BY <2>1, <2>2, <2>4, <2>5, NoStateType DEF ViewInit, ViewTypeOK
<1>3. PushInv /\ NothingMissedOnConnect
      BY <1>1 DEF PushInv, NothingMissedOnConnect
<1>4. \A b \in Browsers : Ordered(b)
      BY <1>1 DEF Ordered
<1> QED BY <1>2, <1>3, <1>4 DEF ViewInv

\* The invariant of the live view, for every number of browsers and lines.
LEMMA ViewInvariance == ViewSpec => []ViewInv
<1>1. ViewInv /\ UNCHANGED viewVars => ViewInv'
  <2> SUFFICES ASSUME ViewInv, UNCHANGED viewVars PROVE ViewInv'
      OBVIOUS
  <2>1. UNCHANGED <<core, fact, file, loop, srv, con, first, ch, asked, view, missed>>
        BY DEF viewVars, coreVars, hubVars
  <2> QED BY <2>1 DEF ViewInv, ViewTypeOK, PushInv, NothingMissedOnConnect, Ordered, WillShow
<1>2. ViewInv /\ [ViewNext]_viewVars => ViewInv'
      BY <1>1, ViewTypeStep, ViewStep DEF ViewInv
<1> QED BY <1>2, ViewInitInv, PTL DEF ViewSpec

\* A page that connects while a State is being pushed gets it, from the stored
\* State or from its channel (handleEvents, PushState, broadcast).
THEOREM ConnectMissesNothing == ViewSpec => []NothingMissedOnConnect
BY ViewInvariance, PTL DEF ViewInv

\* No event takes a page back to an older State, over any losses and renewals of
\* its connection; only the answer to its request at load can, coming or going.
THEOREM EventsNeverGoBack == ViewSpec => EventsKeepOrder
<1>1. ViewInv /\ [ViewNext]_viewVars => [\A b \in Browsers : BackByAnswer(b)]_viewVars
      BY ViewStep
<1> QED BY <1>1, ViewInvariance, PTL DEF ViewSpec, EventsKeepOrder

\* With the core, the state loop and the browsers around it, no line is left in
\* the ring either: what they do to the ring is what RingNext allows.
THEOREM ViewStrandsNoLine == ViewSpec => []NoStrandedLines
<1>1. [ViewNext]_viewVars => [RingNext]_ringVars
  <2>1. ViewNext => RingNext \/ UNCHANGED ringVars
        BY DEF ViewNext, FactChanges, CoreEnds, CoreStarts, WriteStatus, Elapse, ClockBack, CoreKeeps,
           Tick, TickWith, Store, Cast, LoopKeeps, RingStep, RingNext, PushLog,
           Connect, Hello, Deliver, Disconnect, HandleState, ShowAnswer, ConKeeps
  <2>2. UNCHANGED viewVars => UNCHANGED ringVars
        BY DEF viewVars
  <2> QED BY <2>1, <2>2
<1>2. ViewInit => RingInit
      BY DEF ViewInit
<1>3. ViewSpec => RingSpec
      BY <1>1, <1>2, PTL DEF ViewSpec, RingSpec
<1> QED BY <1>3, RingStrandsNoLine, PTL

=============================================================================
