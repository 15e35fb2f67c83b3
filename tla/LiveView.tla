------------------------------ MODULE LiveView ------------------------------
(***************************************************************************)
(* How the core's condition reaches the browsers of the GUI.  The core     *)
(* writes status.json (app.go), guiApp.stateLoop reads it, computes the    *)
(* lamp (state.go, guiApp.augment) and pushes it (server.go), flushRing    *)
(* pushes the log lines of the ring, and every browser has an SSE          *)
(* connection with a bounded channel that drops what does not fit.  When   *)
(* it is loaded a page also asks once for the State, beside the            *)
(* connection, and shows the answer whenever it comes (app.js).  Time      *)
(* passes in units of the five seconds of the two heartbeats.              *)
(***************************************************************************)
EXTENDS LogRing, Integers, FiniteSets

CONSTANTS Browsers,
          SubCap,      \* capacity of a browser's channel, 256 in the code
          StaleAfter,  \* units after which a report is too old, 3 in the code
          Facts,       \* conditions of the core that status.json may report
          Budgets      \* bound: how often the core changes, starts or ends (flips), the
                       \* wall clock is set back (back), a connection is lost (losses), a
                       \* page's request is answered (asks), and how many lines are logged

ASSUME ViewConstants ==
    /\ SubCap \in Nat \ {0} /\ StaleAfter \in Nat /\ Facts # {}
    /\ Budgets \subseteq [flips : Nat, back : Nat, losses : Nat, asks : Nat, lines : 0..MaxLines]

VARIABLES core,    \* "up", "stopped" or "crashed"
          fact,    \* the core's condition: gates, telemetry, queue
          file,    \* status.json: the condition it reports and its age
          mode,    \* guiApp.mode
          loop,    \* stateLoop: pc, the State in hand, last key and heartbeat
          srv,     \* Server.state
          con,     \* browser -> its SSE connection: "off", "hello", "on"
          first,   \* browser -> the State handleEvents took when it registered
          ch,      \* browser -> its channel
          asked,   \* browser -> its request for the State at load: "sent", "back" with the
                   \* answer, "shown" until the next State comes, or "done"
          view,    \* browser -> the State it shows
          out,     \* lines flushRing has drained and not yet pushed
          left,    \* what is left of the budget
          missed   \* ghost: browser -> since the last push its channel was full for a State,
                   \* or the answer has replaced a newer one

coreVars == <<core, fact, file, mode, left>>
hubVars == <<con, first, ch, asked, view, missed>>
viewVars == <<coreVars, loop, srv, hubVars, out, ringVars>>

-----------------------------------------------------------------------------
(* The lamp *)

\* The rules 1-6 of evalSignal: an error.
Red(f) == \/ f.sender # "RUNNING"
          \/ f.gates \cap {"SUSPENDED_TOKEN", "SUSPENDED_CONFIG", "SUSPENDED_REBIND"} # {}
          \/ f.down = "long" \/ f.skew = "off" \/ f.expiring

\* The rules 7-10: a warning.
Yellow(f) == \/ f.gates \cap {"PREFLIGHT_RETRY", "ACTIVE_WARNING"} # {}
             \/ f.down = "short" \/ f.backlog \/ f.skew = "unknown"

EvalSignal(f) == IF Red(f) THEN "red" ELSE IF Yellow(f) THEN "yellow" ELSE "green"

\* A lamp that does not look at the age of the report.
MutBuildState(r) == EvalSignal(r.fact)

\* BuildState: an old report is red whatever it says.
BuildState(r) == IF r.age > StaleAfter THEN "red" ELSE EvalSignal(r.fact)

\* augment: a hosting GUI knows for itself that its core is not running.
Lamp == IF mode = "hosting" /\ core # "up"
        THEN IF core = "crashed" THEN "red" ELSE "idle"
        ELSE BuildState(file)

\* Server.state before the first push.
NoState == [v |-> 0, fact |-> CHOOSE f \in Facts : TRUE, lamp |-> "none"]

Message(kind, st) == [kind |-> kind, st |-> st]

-----------------------------------------------------------------------------

ViewInit ==
    /\ RingInit
    /\ core \in {"up", "stopped"} /\ mode \in {"hosting", "observer"}
    /\ fact \in Facts /\ file = [fact |-> fact, age |-> StaleAfter + 1]
    /\ loop = [pc |-> "tick", st |-> NoState, due |-> TRUE]
    /\ srv = NoState
    /\ con = [b \in Browsers |-> "off"] /\ ch = [b \in Browsers |-> <<>>]
    /\ first = [b \in Browsers |-> NoState] /\ view = [b \in Browsers |-> NoState]
    /\ asked = [b \in Browsers |-> [pc |-> "sent", st |-> NoState]]
    /\ missed = [b \in Browsers |-> FALSE]
    /\ out = <<>> /\ left \in Budgets

-----------------------------------------------------------------------------
(* The core and the clock *)

Flip == left.flips > 0 /\ left' = [left EXCEPT !.flips = @ - 1]
CoreKeeps == UNCHANGED <<mode, loop, srv, hubVars, out, ringVars>>

\* A gate, a connection, the queue or the clock check changes.
FactChanges ==
    /\ core = "up" /\ Flip /\ fact' \in Facts \ {fact}
    /\ UNCHANGED <<core, file>> /\ CoreKeeps

\* A core that is stopped writes a last report; one that fails or is killed does not.
CoreEnds ==
    /\ core = "up" /\ Flip
    /\ \/ core' = "stopped" /\ file' = [fact |-> fact, age |-> 0]
       \/ core' = "crashed" /\ UNCHANGED file
    /\ UNCHANGED fact /\ CoreKeeps

CoreStarts ==
    /\ core # "up" /\ Flip /\ core' = "up"
    /\ UNCHANGED <<fact, file>> /\ CoreKeeps

\* writeStatus, on a gate's change or the heartbeat.
WriteStatus ==
    /\ core = "up" /\ file' = [fact |-> fact, age |-> 0]
    /\ UNCHANGED <<core, fact, left>> /\ CoreKeeps

\* Five seconds pass; a running core gets to write its report before it is too old.
Elapse ==
    /\ core = "up" => file.age < StaleAfter
    /\ file' = [file EXCEPT !.age = IF @ > StaleAfter THEN @ ELSE @ + 1]
    /\ loop' = [loop EXCEPT !.due = TRUE]
    /\ UNCHANGED <<core, fact, mode, left, srv, hubVars, out, ringVars>>

\* The wall clock is set back; the heartbeat's clock is monotonic.
ClockBack ==
    /\ left.back > 0 /\ left' = [left EXCEPT !.back = @ - 1]
    /\ file.age <= StaleAfter /\ file' = [file EXCEPT !.age = @ - 1]
    /\ UNCHANGED <<core, fact, mode, loop, srv, hubVars, out, ringVars>>

-----------------------------------------------------------------------------
(* stateLoop and the server *)

LoopKeeps == UNCHANGED <<coreVars, out, ringVars>>

\* A new State is a new version only if it differs from the last one pushed.
NewState(lamp) == [v |-> IF loop.st.lamp = lamp /\ loop.st.fact = file.fact THEN loop.st.v ELSE loop.st.v + 1,
               fact |-> file.fact, lamp |-> lamp]

TickWith(push) ==
    /\ loop.pc = "tick" /\ push
    /\ loop' = [pc |-> "store", st |-> NewState(Lamp), due |-> FALSE]
    /\ UNCHANGED <<srv, hubVars>> /\ LoopKeeps

\* A loop without the five-second repetition.
MutTick == TickWith(Lamp # loop.st.lamp)

\* A tick that pushes: another lamp, or five seconds since the last push.  A new UpdatedAt
\* also makes another key, but reports of one second share it; that push is one of these.
Tick == TickWith(Lamp # loop.st.lamp \/ loop.due)

\* Channels that are registered only after the first event.
MutBroadcast(m) ==
    /\ ch' = [b \in Browsers |-> IF con[b] = "on" /\ Len(ch[b]) < SubCap
                                 THEN Append(ch[b], m) ELSE ch[b]]
    /\ missed' = [b \in Browsers |-> IF m.kind = "state"
                                     THEN con[b] # "off" /\ Len(ch[b]) >= SubCap ELSE missed[b]]

\* broadcast: a full channel drops the message.
Broadcast(m) ==
    /\ ch' = [b \in Browsers |-> IF con[b] # "off" /\ Len(ch[b]) < SubCap
                                 THEN Append(ch[b], m) ELSE ch[b]]
    /\ missed' = [b \in Browsers |-> IF m.kind = "state"
                                     THEN con[b] # "off" /\ Len(ch[b]) >= SubCap ELSE missed[b]]

\* PushState that tells the browsers and does not store.
MutStore ==
    /\ loop.pc = "store" /\ loop' = [loop EXCEPT !.pc = "cast"]
    /\ Broadcast(Message("state", loop.st))
    /\ UNCHANGED <<srv, con, first, asked, view>> /\ LoopKeeps

\* PushState stores, and tells the browsers after it has let go of the lock.
Store ==
    /\ loop.pc = "store" /\ loop' = [loop EXCEPT !.pc = "cast"]
    /\ srv' = loop.st
    /\ UNCHANGED hubVars /\ LoopKeeps

Cast ==
    /\ loop.pc = "cast" /\ loop' = [loop EXCEPT !.pc = "tick"]
    /\ Broadcast(Message("state", loop.st))
    /\ UNCHANGED <<srv, con, first, asked, view>> /\ LoopKeeps

\* The hosted core logs, and flushRing pushes all it drained before it waits again.
RingStep ==
    /\ \/ WriteAppend /\ core = "up" /\ written < left.lines /\ UNCHANGED out
       \/ WriteNotify /\ UNCHANGED out
       \/ FlushWake /\ UNCHANGED out
       \/ FlushDrain /\ out' = buf
       \/ FlushDone /\ out = <<>> /\ UNCHANGED out
    /\ UNCHANGED <<coreVars, loop, srv, hubVars>>

PushLog ==
    /\ out # <<>> /\ out' = Tail(out)
    /\ Broadcast(Message("log", NoState))
    /\ UNCHANGED <<coreVars, loop, srv, con, first, asked, view, ringVars>>

-----------------------------------------------------------------------------
(* handleEvents and the browser *)

ConKeeps == UNCHANGED <<coreVars, loop, srv, out, ringVars>>

\* handleEvents registers the channel and takes the State under one lock.
Connect(b) ==
    /\ con[b] = "off"
    /\ con' = [con EXCEPT ![b] = "hello"] /\ first' = [first EXCEPT ![b] = srv]
    /\ ch' = [ch EXCEPT ![b] = <<>>] /\ missed' = [missed EXCEPT ![b] = FALSE]
    /\ UNCHANGED <<asked, view>> /\ ConKeeps

\* renderState of an event.
Show(b, st) ==
    /\ view' = [view EXCEPT ![b] = st]
    /\ asked' = [asked EXCEPT ![b].pc = IF @ = "shown" THEN "done" ELSE @]

\* The first event is the State taken.
Hello(b) ==
    /\ con[b] = "hello"
    /\ con' = [con EXCEPT ![b] = "on"] /\ Show(b, first[b])
    /\ first' = [first EXCEPT ![b] = NoState]
    /\ UNCHANGED <<ch, missed>> /\ ConKeeps

Deliver(b) ==
    /\ con[b] = "on" /\ ch[b] # <<>>
    /\ ch' = [ch EXCEPT ![b] = Tail(@)]
    /\ IF Head(ch[b]).kind = "state" THEN Show(b, Head(ch[b]).st) ELSE UNCHANGED <<view, asked>>
    /\ UNCHANGED <<con, first, missed>> /\ ConKeeps

\* The connection ends; app.js connects again after two seconds.
Disconnect(b) ==
    /\ con[b] # "off" /\ left.losses > 0 /\ left' = [left EXCEPT !.losses = @ - 1]
    /\ con' = [con EXCEPT ![b] = "off"] /\ ch' = [ch EXCEPT ![b] = <<>>]
    /\ missed' = [missed EXCEPT ![b] = FALSE] /\ first' = [first EXCEPT ![b] = NoState]
    /\ UNCHANGED <<core, fact, file, mode, asked, view, loop, srv, out, ringVars>>

\* handleState answers the request the page has sent when it was loaded.  If that fails
\* or the answer is lost app.js does not repeat it: nothing follows.
HandleState(b) ==
    /\ left.asks > 0 /\ left' = [left EXCEPT !.asks = @ - 1]
    /\ asked[b].pc = "sent" /\ asked' = [asked EXCEPT ![b] = [pc |-> "back", st |-> srv]]
    /\ UNCHANGED <<con, first, ch, view, missed, core, fact, file, mode, loop, srv, out, ringVars>>

\* The page shows the answer, whatever it shows by then.
ShowAnswer(b) ==
    /\ asked[b].pc = "back" /\ asked' = [asked EXCEPT ![b] = [pc |-> "shown", st |-> NoState]]
    /\ view' = [view EXCEPT ![b] = asked[b].st]
    /\ missed' = [missed EXCEPT ![b] = @ \/ asked[b].st.v < view[b].v]
    /\ UNCHANGED <<con, first, ch>> /\ ConKeeps

ViewNext ==
    \/ FactChanges \/ CoreEnds \/ CoreStarts \/ WriteStatus
    \/ Elapse \/ ClockBack
    \/ Tick \/ Store \/ Cast \/ RingStep \/ PushLog
    \/ \E b \in Browsers : \/ Connect(b) \/ Hello(b) \/ Deliver(b) \/ Disconnect(b)
                          \/ HandleState(b) \/ ShowAnswer(b)

\* Timers fire, goroutines run and a connected browser reads; nobody has to connect,
\* and the core need neither change nor start.
ViewFairness ==
    /\ WF_viewVars(WriteStatus) /\ WF_viewVars(Elapse)
    /\ WF_viewVars(Tick) /\ WF_viewVars(Store) /\ WF_viewVars(Cast)
    /\ WF_viewVars(RingStep) /\ WF_viewVars(PushLog)
    /\ \A b \in Browsers : WF_viewVars(Hello(b)) /\ WF_viewVars(Deliver(b))

ViewSpec == ViewInit /\ [][ViewNext]_viewVars /\ ViewFairness

-----------------------------------------------------------------------------
(* Properties *)

\* Browser b shows st once it has read all that is on its way to it: st is the
\* last State in its channel or, if there is none, what it gets first or has.
WillShow(b, st) ==
    LET states == {i \in 1..Len(ch[b]) : ch[b][i].kind = "state"} IN
    /\ \A i \in states : (\A j \in states : j <= i) => ch[b][i].st = st
    /\ states = {} => st = IF con[b] = "hello" THEN first[b] ELSE view[b]

(***************************************************************************)
(* A browser that connects while a State is being pushed gets it, from the *)
(* snapshot or from its channel: outside PushState, what is on its way to  *)
(* a connected browser ends with Server.state, unless its channel was full *)
(* or the answer to its request at load came late (handleEvents,           *)
(* PushState, broadcast, handleState).                                     *)
(***************************************************************************)
NothingMissedOnConnect ==
    \A b \in Browsers : con[b] # "off" /\ ~missed[b] /\ loop.pc # "cast" => WillShow(b, srv)

(***************************************************************************)
(* Events never take a page back to an older State, not even over a lost   *)
(* and renewed connection: PushState stores a State before any browser can *)
(* have it, and a connection starts with the stored one.  Only the answer  *)
(* to its one request at load does, once when it is shown, if events have  *)
(* overtaken it, and once when an event that it has overtaken replaces it  *)
(* (renderState, fetch of api/state).                                      *)
(***************************************************************************)
BackByAnswer(b) ==
    view'[b].v < view[b].v => asked[b].pc \in {"back", "shown"} /\ asked'[b].pc # asked[b].pc

EventsKeepOrder == [][\A b \in Browsers : BackByAnswer(b)]_viewVars

(***************************************************************************)
(* A page that stays connected comes to show the condition the core stays  *)
(* in, although a full channel drops States and two reports of one second  *)
(* have the same key (stateLoop, broadcast, writeStatus).                  *)
(***************************************************************************)
PageCatchesUp ==
    \A b \in Browsers, f \in Facts :
        <>[](core = "up" /\ fact = f /\ con[b] = "on") => <>[](view[b].fact = f)

(***************************************************************************)
(* When the core is gone for good a connected page does not stay green,    *)
(* whether the GUI hosts the core or only reads the report it left behind, *)
(* also when the wall clock was set back (BuildState, augment, stateLoop). *)
(***************************************************************************)
DeadCoreNotGreen ==
    \A b \in Browsers :
        <>[](core # "up" /\ con[b] = "on") => <>[](view[b].lamp # "green")
=============================================================================
