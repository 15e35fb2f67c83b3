---------------------------- MODULE ReaderProofs ----------------------------
(***************************************************************************)
(* Proofs about the two halves of a reader's connection: the frame decoder *)
(* (Framer), for any limit and any stream, and the session that reads its  *)
(* lines (ReaderSession), for any powers, capacities and numbers of faults *)
(* and requests.                                                           *)
(***************************************************************************)
EXTENDS ReaderSession, Framer, SequenceTheorems, TLAPS

(***************************************************************************)
(* The frame decoder.  Past is how far the frames given out reach, Gone    *)
(* how many bytes of the stream have left the buffer.                      *)
(***************************************************************************)
Past == IF out = <<>> THEN 0 ELSE out[Len(out)].end + 1
Gone == Len(stream) - Len(buf)

\* The buffer is the end of the stream.
BufIsTail ==
    /\ Gone \in Nat
    /\ \A i \in 1..Len(buf) : buf[i] = stream[Gone + i]

\* What left it belongs to a frame given out, or to one being dropped: MaxLine
\* bytes at least, and no CR among them whose LF has come or may still come.
GoneIsDropped ==
    /\ Past <= Gone
    /\ IF dropping THEN Gone - Past >= MaxLine ELSE Gone = Past
    /\ \A p \in (Past + 1)..Gone : stream[p] = "CR" => p < Len(stream) /\ stream[p + 1] # "LF"

NothingSkipped ==
    \A d \in Delimiters(stream) : d <= Past => \E k \in 1..Len(out) : out[k].end = d

EndsInOrder ==
    /\ \A k \in 2..Len(out) : out[k - 1].end < out[k].end
    /\ \A k \in 1..Len(out) : out[k].end \in Delimiters(stream)

Kept(line, frame) ==
    /\ line \in {frame, Oversize}
    /\ Len(frame) < MaxLine => line = frame
    /\ Len(frame) > MaxLine => line = Oversize

FramerInv ==
    /\ FramerTypeOK
    /\ BufIsTail
    /\ GoneIsDropped
    /\ ~pushing => Delimiters(buf) = {}
    /\ NothingSkipped
    /\ EndsInOrder
    /\ \A k \in 1..Len(out) : Kept(out[k].line, FrameOf(k))

\* The n bytes of s after its a-th.
LEMMA Stretch ==
    ASSUME NEW s \in Seq(Bytes), NEW a \in Nat, NEW n \in Nat, a + n <= Len(s)
    PROVE  /\ SubSeq(s, a + 1, a + n) \in Seq(Bytes)
           /\ Len(SubSeq(s, a + 1, a + n)) = n
           /\ \A j \in 1..n : SubSeq(s, a + 1, a + n)[j] = s[a + j]
<1> DEFINE u == SubSeq(s, a + 1, a + n)
<1>1. \A i \in (a + 1)..(a + n) : s[i] \in Bytes
  <2>1. \A i \in (a + 1)..(a + n) : i \in 1..Len(s)
        OBVIOUS
  <2> QED BY <2>1, ElementOfSeq
<1>2. a + 1 \in Int /\ a + n \in Int
      OBVIOUS
<1>3. /\ u \in Seq(Bytes)
      /\ Len(u) = IF a + 1 <= a + n THEN (a + n) - (a + 1) + 1 ELSE 0
      /\ \A i \in 1..((a + n) - (a + 1) + 1) : u[i] = s[(a + 1) + i - 1]
      BY <1>1, <1>2, SubSeqProperties
<1> HIDE DEF u
<1>4. (a + n) - (a + 1) + 1 = n /\ \A j \in 1..n : (a + 1) + j - 1 = a + j
      OBVIOUS
<1>5. Len(u) = n
      BY <1>3
<1>6. \A j \in 1..n : u[j] = s[a + j]
      BY <1>3, <1>4
<1> QED BY <1>3, <1>5, <1>6 DEF u

\* Two stretches of bytes that agree everywhere are the same frame.
LEMMA SameBytes ==
    ASSUME NEW s \in Seq(Bytes), NEW t \in Seq(Bytes), NEW a \in Nat, NEW b \in Nat, NEW n \in Nat,
           a + n <= Len(s), b + n <= Len(t),
           \A j \in 1..n : s[a + j] = t[b + j]
    PROVE  SubSeq(s, a + 1, a + n) = SubSeq(t, b + 1, b + n)
<1> DEFINE u == SubSeq(s, a + 1, a + n)
           v == SubSeq(t, b + 1, b + n)
<1>1. u \in Seq(Bytes) /\ Len(u) = n /\ \A j \in 1..n : u[j] = s[a + j]
      BY Stretch
<1>2. v \in Seq(Bytes) /\ Len(v) = n /\ \A j \in 1..n : v[j] = t[b + j]
      BY Stretch
<1> HIDE DEF u, v
<1>3. u = v
      BY <1>1, <1>2, SeqEqual
<1> QED BY <1>3 DEF u, v

\* A frame stays what it was when more bytes arrive.
LEMMA FrameUnmoved ==
    ASSUME NEW s \in Seq(Bytes), NEW t \in Seq(Bytes), NEW m \in Nat \ {0}, NEW e \in Nat,
           m <= e, e < Len(s)
    PROVE  SubSeq(s \o t, m, e - 1) = SubSeq(s, m, e - 1)
<1> DEFINE a == m - 1
           n == e - m
<1>1. a \in Nat /\ n \in Nat /\ a + n = e - 1 /\ a + 1 = m
      OBVIOUS
<1>2. s \o t \in Seq(Bytes) /\ Len(s \o t) = Len(s) + Len(t) /\ Len(s) \in Nat /\ Len(t) \in Nat
      OBVIOUS
<1>3. a + n <= Len(s) /\ a + n <= Len(s \o t)
      BY <1>1, <1>2
<1>4. \A j \in 1..n : a + j \in 1..Len(s)
      BY <1>2
<1>5. \A j \in 1..n : (s \o t)[a + j] = s[a + j]
      BY <1>4
<1> HIDE DEF a, n
<1>6. SubSeq(s \o t, a + 1, a + n) = SubSeq(s, a + 1, a + n)
      BY <1>1, <1>2, <1>3, <1>5, SameBytes
<1> QED BY <1>1, <1>6

\* CRLF pairs do not overlap.
LEMMA Apart ==
    ASSUME NEW s \in Seq(Bytes), NEW c \in Delimiters(s), NEW d \in Delimiters(s), c < d
    PROVE  c + 2 <= d
BY DEF Delimiters

\* Where the k-th frame lies in the stream.
LEMMA FrameBounds ==
    ASSUME FramerTypeOK, EndsInOrder, NEW k \in 1..Len(out)
    PROVE  /\ Start(k) \in Nat \ {0} /\ out[k].end \in Nat
           /\ Start(k) <= out[k].end /\ out[k].end < Len(stream)
<1>1. out[k].end \in 1..(Len(stream) - 1)
      BY DEF EndsInOrder, Delimiters
<1>2. Len(stream) \in Nat
      BY DEF FramerTypeOK
<1>3. CASE k = 1
      BY <1>1, <1>2, <1>3 DEF Start
<1>4. CASE k # 1
  <2>1. k \in 2..Len(out) /\ k - 1 \in 1..Len(out)
        BY <1>4 DEF FramerTypeOK
  <2>2. out[k - 1].end \in Delimiters(stream) /\ out[k - 1].end < out[k].end
        BY <2>1 DEF EndsInOrder
  <2>3. out[k - 1].end + 2 <= out[k].end
        BY <2>2, Apart DEF FramerTypeOK, EndsInOrder
  <2>4. out[k - 1].end \in Nat
        BY <2>2 DEF Delimiters
  <2> QED BY <1>1, <1>2, <1>4, <2>3, <2>4 DEF Start
<1> QED BY <1>3, <1>4

LEMMA PastIsNat == FramerTypeOK => Past \in Nat
<1> SUFFICES ASSUME FramerTypeOK, out # <<>> PROVE Past \in Nat
    BY DEF Past
<1>1. Len(out) \in 1..Len(out)
      BY EmptySeq DEF FramerTypeOK
<1>2. out[Len(out)] \in Frame
      BY <1>1, ElementOfSeq DEF FramerTypeOK
<1> QED BY <1>2 DEF Past, Frame

LEMMA FramerInitInv == FramerInit => FramerInv
<1> SUFFICES ASSUME FramerInit PROVE FramerInv
    OBVIOUS
<1>1. FramerTypeOK
  <2>1. <<>> \in Seq(Bytes) /\ <<>> \in Seq(Frame)
        OBVIOUS
  <2> QED BY <2>1 DEF FramerInit, FramerTypeOK
<1>2. Past = 0 /\ Gone = 0 /\ Len(buf) = 0 /\ Len(stream) = 0 /\ Len(out) = 0
      BY DEF FramerInit, Past, Gone
<1>3. BufIsTail
      BY <1>2 DEF BufIsTail
<1>4. GoneIsDropped
      BY <1>2 DEF GoneIsDropped, FramerInit
<1>5. Delimiters(buf) = {} /\ Delimiters(stream) = {}
      BY <1>2 DEF Delimiters
<1> QED BY <1>1, <1>2, <1>3, <1>4, <1>5 DEF FramerInv, NothingSkipped, EndsInOrder

LEMMA PushInv ==
    ASSUME FramerInv, NEW chunk \in Chunks(MaxChunk), Push(chunk)
    PROVE  FramerInv'
<1>1. chunk \in Seq(Bytes) /\ Len(chunk) \in Nat
      BY FramerAssumption DEF Chunks
<1>2. /\ buf \in Seq(Bytes) /\ stream \in Seq(Bytes) /\ out \in Seq(Frame)
      /\ Len(buf) \in Nat /\ Len(stream) \in Nat /\ Len(out) \in Nat
      BY DEF FramerInv, FramerTypeOK
<1>3. /\ stream' \in Seq(Bytes) /\ Len(stream') = Len(stream) + Len(chunk)
      /\ \A p \in 1..Len(stream) : stream'[p] = stream[p]
      /\ \A p \in 1..Len(chunk) : stream'[Len(stream) + p] = chunk[p]
      BY <1>1, <1>2 DEF Push
<1>4. /\ buf' \in Seq(Bytes) /\ Len(buf') = Len(buf) + Len(chunk)
      /\ \A p \in 1..Len(buf) : buf'[p] = buf[p]
      /\ \A p \in 1..Len(chunk) : buf'[Len(buf) + p] = chunk[p]
      BY <1>1, <1>2 DEF Push
<1>5. out' = out /\ dropping' = dropping /\ pushing' = TRUE
      BY DEF Push
<1>6. Past' = Past /\ Gone' = Gone
      BY <1>1, <1>2, <1>3, <1>4, <1>5 DEF Past, Gone
<1>7. Gone \in Nat /\ Gone + Len(buf) = Len(stream)
      BY <1>2 DEF FramerInv, BufIsTail, Gone
<1>8. FramerTypeOK'
      BY <1>3, <1>4, <1>5 DEF FramerInv, FramerTypeOK
<1>9. BufIsTail'
  <2> SUFFICES ASSUME NEW i \in 1..Len(buf') PROVE buf'[i] = stream'[Gone + i]
      BY <1>6, <1>7 DEF BufIsTail
  <2>1. CASE i <= Len(buf)
    <3>1. i \in 1..Len(buf) /\ Gone + i \in 1..Len(stream)
          BY <1>2, <1>4, <1>7, <2>1
    <3> QED BY <1>3, <1>4, <3>1 DEF FramerInv, BufIsTail
  <2>2. CASE i > Len(buf)
    <3>1. PICK p \in 1..Len(chunk) : i = Len(buf) + p
      <4>1. i - Len(buf) \in 1..Len(chunk)
            BY <1>1, <1>2, <1>4, <2>2
      <4>2. i = Len(buf) + (i - Len(buf))
            BY <1>1, <1>2, <1>4
      <4> QED BY <4>1, <4>2
    <3>2. Gone + i = Len(stream) + p
      <4>1. Gone + (Len(buf) + p) = (Gone + Len(buf)) + p
            BY <1>1, <1>2, <1>7
      <4> QED BY <1>7, <3>1, <4>1
    <3> QED BY <1>3, <1>4, <3>1, <3>2
  <2> QED BY <1>1, <1>2, <1>4, <2>1, <2>2
<1>10. \A p \in (Past + 1)..Gone : p \in 1..Len(stream)
  <2>1. Past \in Nat
        BY PastIsNat DEF FramerInv
  <2> QED BY <1>2, <1>7, <2>1
<1>11. GoneIsDropped'
  <2> SUFFICES ASSUME NEW p \in (Past + 1)..Gone, stream'[p] = "CR"
               PROVE  p < Len(stream') /\ stream'[p + 1] # "LF"
      BY <1>5, <1>6 DEF FramerInv, GoneIsDropped
  <2>1. p \in 1..Len(stream) /\ stream[p] = "CR"
        BY <1>3, <1>10
  <2>2. p < Len(stream) /\ stream[p + 1] # "LF"
        BY <2>1 DEF FramerInv, GoneIsDropped
  <2>3. p + 1 \in 1..Len(stream)
        BY <1>2, <2>1, <2>2
  <2> QED BY <1>1, <1>2, <1>3, <2>1, <2>2, <2>3
<1>12. NothingSkipped'
  <2> SUFFICES ASSUME NEW d \in Delimiters(stream'), d <= Past
               PROVE  \E k \in 1..Len(out) : out[k].end = d
      BY <1>5, <1>6 DEF NothingSkipped
  <2>1. d \in 1..(Len(stream') - 1) /\ stream'[d] = "CR" /\ stream'[d + 1] = "LF"
        BY DEF Delimiters
  <2>2. out # <<>> /\ Past = out[Len(out)].end + 1
        BY <1>2, <2>1 DEF Past
  <2>3. Len(out) \in 1..Len(out)
        BY <1>2, <2>2, EmptySeq
  <2>4. out[Len(out)].end \in 1..(Len(stream) - 1)
        BY <2>3 DEF FramerInv, EndsInOrder, Delimiters
  <2>5. d \in 1..Len(stream) /\ Past \in 1..Len(stream)
        BY <1>2, <2>1, <2>2, <2>4
  <2>6. CASE d = Past
    <3>1. stream[Past] = "LF"
          BY <2>2, <2>3 DEF FramerInv, EndsInOrder, Delimiters
    <3> QED BY <1>3, <2>1, <2>5, <2>6, <3>1
  <2>7. CASE d < Past
    <3>1. d + 1 \in 1..Len(stream) /\ d \in 1..(Len(stream) - 1)
          BY <1>2, <2>5, <2>7
    <3>2. d \in Delimiters(stream)
          BY <1>3, <2>1, <2>5, <3>1 DEF Delimiters
    <3> QED BY <3>2 DEF FramerInv, NothingSkipped
  <2> QED BY <2>5, <2>6, <2>7
<1>13. EndsInOrder'
  <2> SUFFICES ASSUME NEW k \in 1..Len(out) PROVE out[k].end \in Delimiters(stream')
      BY <1>5 DEF FramerInv, EndsInOrder
  <2>1. /\ out[k].end \in 1..(Len(stream) - 1)
        /\ stream[out[k].end] = "CR" /\ stream[out[k].end + 1] = "LF"
        BY DEF FramerInv, EndsInOrder, Delimiters
  <2>2. /\ out[k].end \in 1..(Len(stream') - 1)
        /\ out[k].end \in 1..Len(stream) /\ out[k].end + 1 \in 1..Len(stream)
        BY <1>1, <1>2, <1>3, <2>1
  <2> QED BY <1>3, <2>1, <2>2 DEF Delimiters
<1>14. ASSUME NEW k \in 1..Len(out)
       PROVE  FrameOf(k)' = FrameOf(k)
  <2>1. /\ Start(k) \in Nat \ {0} /\ out[k].end \in Nat
        /\ Start(k) <= out[k].end /\ out[k].end < Len(stream)
        BY FrameBounds DEF FramerInv
  <2>2. stream' = stream \o chunk
        BY DEF Push
  <2>5. SubSeq(stream', Start(k), out[k].end - 1) = SubSeq(stream, Start(k), out[k].end - 1)
        BY <1>1, <1>2, <2>1, <2>2, FrameUnmoved
  <2>6. Start(k)' = Start(k)
        BY <1>5 DEF Start
  <2> QED BY <1>5, <2>5, <2>6 DEF FrameOf
<1> QED BY <1>5, <1>8, <1>9, <1>11, <1>12, <1>13, <1>14 DEF FramerInv, Kept

\* A CRLF of the stream beyond the frames given out is one of the buffer.
LEMMA InBuffer ==
    ASSUME FramerInv, NEW d \in Delimiters(stream), d > Past
    PROVE  d - Gone \in Delimiters(buf)
<1>1. /\ buf \in Seq(Bytes) /\ stream \in Seq(Bytes)
      /\ Len(buf) \in Nat /\ Len(stream) \in Nat
      BY DEF FramerInv, FramerTypeOK
<1>2. Past \in Nat
      BY PastIsNat DEF FramerInv
<1>3. Gone \in Nat /\ Gone + Len(buf) = Len(stream)
      BY <1>1 DEF FramerInv, BufIsTail, Gone
<1>4. d \in 1..(Len(stream) - 1) /\ stream[d] = "CR" /\ stream[d + 1] = "LF"
      BY DEF Delimiters
<1>5. ~(d \in (Past + 1)..Gone)
      BY <1>4 DEF FramerInv, GoneIsDropped
<1>6. d > Gone
      BY <1>1, <1>2, <1>3, <1>4, <1>5
<1> DEFINE i == d - Gone
<1>7. i \in 1..(Len(buf) - 1) /\ i \in 1..Len(buf) /\ i + 1 \in 1..Len(buf)
      BY <1>1, <1>3, <1>4, <1>6
<1>8. Gone + i = d /\ Gone + (i + 1) = d + 1
      BY <1>1, <1>3, <1>4
<1>9. i \in Int
      BY <1>1, <1>3, <1>4
<1> HIDE DEF i
<1>10. buf[i] = stream[Gone + i] /\ buf[i + 1] = stream[Gone + (i + 1)]
      BY <1>7 DEF FramerInv, BufIsTail
<1>11. i \in Delimiters(buf)
      BY <1>4, <1>7, <1>8, <1>10 DEF Delimiters
<1> QED BY <1>11 DEF i

LEMMA RoundInv ==
    ASSUME FramerInv, NEW i \in Delimiters(buf), Round(i)
    PROVE  FramerInv'
<1> DEFINE e == Gone + i
           b == SubSeq(buf, i + 2, Len(buf))
           f == SubSeq(buf, 1, i - 1)
<1>1. /\ buf \in Seq(Bytes) /\ stream \in Seq(Bytes) /\ out \in Seq(Frame)
      /\ Len(buf) \in Nat /\ Len(stream) \in Nat /\ Len(out) \in Nat
      BY DEF FramerInv, FramerTypeOK
<1>0. PICK n \in Nat : n = Len(out) + 1
      BY <1>1
<1>2. Gone \in Nat /\ Gone + Len(buf) = Len(stream)
      BY <1>1 DEF FramerInv, BufIsTail, Gone
<1>3. Past \in Nat /\ Past <= Gone
      BY PastIsNat DEF FramerInv, GoneIsDropped
<1>4. i \in 1..(Len(buf) - 1) /\ buf[i] = "CR" /\ buf[i + 1] = "LF"
      BY DEF Delimiters
<1>5. /\ e \in Nat /\ e \in 1..(Len(stream) - 1) /\ e > Gone
      /\ e + 1 = Gone + (i + 1)
      BY <1>1, <1>2, <1>4
<1>6. stream[e] = "CR" /\ stream[e + 1] = "LF"
  <2>1. i \in 1..Len(buf) /\ i + 1 \in 1..Len(buf)
        BY <1>1, <1>4
  <2>2. buf[i] = stream[Gone + i] /\ buf[i + 1] = stream[Gone + (i + 1)]
        BY <2>1 DEF FramerInv, BufIsTail
  <2> QED BY <1>4, <1>5, <2>2
<1>7. e \in Delimiters(stream)
      BY <1>5, <1>6 DEF Delimiters
<1>8. b \in Seq(Bytes) /\ Len(b) = Len(buf) - (i + 1) /\ \A j \in 1..Len(b) : b[j] = buf[(i + 1) + j]
  <2>1. i + 1 \in Nat /\ Len(buf) - (i + 1) \in Nat /\ (i + 1) + (Len(buf) - (i + 1)) = Len(buf)
        BY <1>1, <1>4
  <2>2. (i + 1) + 1 = i + 2
        BY <1>1, <1>4
  <2>3. (i + 1) + (Len(buf) - (i + 1)) <= Len(buf)
        BY <1>1, <2>1
  <2> DEFINE r == SubSeq(buf, (i + 1) + 1, (i + 1) + (Len(buf) - (i + 1)))
  <2>4. /\ r \in Seq(Bytes) /\ Len(r) = Len(buf) - (i + 1)
        /\ \A j \in 1..(Len(buf) - (i + 1)) : r[j] = buf[(i + 1) + j]
        BY <1>1, <2>1, <2>3, Stretch
  <2>5. r = b
        BY <2>1, <2>2
  <2> HIDE DEF r, b
  <2> QED BY <2>4, <2>5
<1>9. f \in Seq(Bytes) /\ Len(f) = i - 1 /\ i - 1 \in Nat
  <2>1. i - 1 \in Nat /\ 0 + (i - 1) = i - 1 /\ 0 + (i - 1) <= Len(buf)
        BY <1>1, <1>4
  <2>2. 0 \in Nat /\ 0 + 1 = 1
        OBVIOUS
  <2>3. /\ SubSeq(buf, 0 + 1, 0 + (i - 1)) \in Seq(Bytes)
        /\ Len(SubSeq(buf, 0 + 1, 0 + (i - 1))) = i - 1
        BY <1>1, <2>1, <2>2, Stretch
  <2> QED BY <2>1, <2>2, <2>3
<1>10. /\ out' = Append(out, [end |-> e, line |-> Verdict(f)])
       /\ buf' = b /\ dropping' = FALSE /\ stream' = stream /\ pushing' = pushing /\ pushing
       BY DEF Round, Gone
<1>11. \A d \in Delimiters(buf) : i <= d
       BY DEF Round
<1>12. Verdict(f) \in Seq(Bytes) \cup {Oversize}
       BY <1>9 DEF Verdict
<1> HIDE DEF e, b, f
<1>13. /\ out' \in Seq(Frame) /\ Len(out') = n /\ n \in Nat \ {0}
       /\ out'[n] = [end |-> e, line |-> Verdict(f)]
       /\ \A k \in 1..Len(out) : out'[k] = out[k]
  <2>1. [end |-> e, line |-> Verdict(f)] \in Frame
        BY <1>5, <1>12 DEF Frame
  <2> QED BY <1>0, <1>1, <1>10, <2>1, AppendProperties
<1>14. out'[n].end = e /\ out'[n].line = Verdict(f)
       BY <1>13
<1>15. Past' = e + 1
  <2>1. out' # <<>>
        BY <1>13, EmptySeq
  <2> QED BY <1>13, <1>14, <2>1 DEF Past
<1>16. Gone' = e + 1
  <2>1. Gone' = Len(stream) - (Len(buf) - (i + 1))
        BY <1>8, <1>10 DEF Gone
  <2> QED BY <1>1, <1>2, <1>4, <1>5, <2>1
<1>17. FramerTypeOK'
       BY <1>1, <1>8, <1>10, <1>13 DEF FramerInv, FramerTypeOK
<1>18. BufIsTail'
  <2> SUFFICES ASSUME NEW j \in 1..Len(b) PROVE b[j] = stream[(e + 1) + j]
      BY <1>5, <1>10, <1>16 DEF BufIsTail
  <2>1. j \in Nat /\ (i + 1) + j \in 1..Len(buf)
        BY <1>1, <1>4, <1>8
  <2>2. (e + 1) + j = Gone + ((i + 1) + j)
        BY <1>1, <1>2, <1>4, <1>5, <2>1
  <2>3. buf[(i + 1) + j] = stream[Gone + ((i + 1) + j)]
        BY <2>1 DEF FramerInv, BufIsTail
  <2> QED BY <1>8, <2>2, <2>3
<1>19. GoneIsDropped'
       BY <1>5, <1>10, <1>15, <1>16 DEF GoneIsDropped
<1>20. NothingSkipped'
  <2> SUFFICES ASSUME NEW d \in Delimiters(stream), d <= e + 1
               PROVE  \E k \in 1..n : out'[k].end = d
      BY <1>10, <1>13, <1>15 DEF NothingSkipped
  <2>1. d \in Nat /\ stream[d] = "CR"
        BY <1>1 DEF Delimiters
  <2>2. CASE d <= Past
    <3>1. PICK k \in 1..Len(out) : out[k].end = d
          BY <2>2 DEF FramerInv, NothingSkipped
    <3>2. k \in 1..n /\ out'[k] = out[k]
          BY <1>0, <1>1, <1>13
    <3> QED BY <3>1, <3>2
  <2>3. CASE d > Past
    <3>1. d - Gone \in Delimiters(buf)
          BY <2>3, InBuffer
    <3>2. i <= d - Gone
          BY <1>11, <3>1
    <3>3. e <= d
          BY <1>2, <1>4, <2>1, <3>2 DEF e
    <3>4. d # e + 1
          BY <1>6, <2>1
    <3>5. d = e
          BY <1>5, <2>1, <3>3, <3>4
    <3>6. n \in 1..n
          BY <1>13
    <3> QED BY <1>14, <3>5, <3>6
  <2> QED BY <1>3, <2>1, <2>2, <2>3
<1>21. EndsInOrder'
  <2>1. ASSUME NEW k \in 1..n PROVE out'[k].end \in Delimiters(stream)
    <3>1. k \in 1..Len(out) \/ k = n
          BY <1>0, <1>1
    <3> QED BY <1>7, <1>13, <1>14, <3>1 DEF FramerInv, EndsInOrder
  <2>2. ASSUME NEW k \in 2..n PROVE out'[k - 1].end < out'[k].end
    <3>1. CASE k = n
      <4>1. k - 1 = Len(out) /\ Len(out) \in 1..Len(out) /\ out # <<>>
            BY <1>0, <1>1, <3>1
      <4>2. out'[k - 1].end = out[Len(out)].end /\ Past = out[Len(out)].end + 1
            BY <1>13, <4>1 DEF Past
      <4>3. out[Len(out)].end \in Nat
            BY <4>1 DEF FramerInv, EndsInOrder, Delimiters
      <4> QED BY <1>2, <1>3, <1>5, <1>14, <3>1, <4>2, <4>3
    <3>2. CASE k # n
      <4>1. k \in 2..Len(out) /\ k \in 1..Len(out) /\ k - 1 \in 1..Len(out)
            BY <1>0, <1>1, <3>2
      <4> QED BY <1>13, <4>1 DEF FramerInv, EndsInOrder
    <3> QED BY <3>1, <3>2
  <2> QED BY <1>10, <1>13, <2>1, <2>2 DEF EndsInOrder
<1>22. ASSUME NEW k \in 1..Len(out) PROVE Kept(out'[k].line, FrameOf(k)')
  <2>1. k = 1 \/ k - 1 \in 1..Len(out)
        BY <1>1
  <2>2. Start(k)' = Start(k)
        BY <1>13, <2>1 DEF Start
  <2>3. FrameOf(k)' = FrameOf(k)
        BY <1>10, <1>13, <2>2 DEF FrameOf
  <2> QED BY <1>13, <2>3 DEF FramerInv
<1>23. Kept(out'[n].line, FrameOf(n)')
  <2>1. Start(n)' = Past + 1
    <3>1. CASE out = <<>>
      <4>1. n = 1
            BY <1>0, <3>1
      <4> QED BY <3>1, <4>1 DEF Start, Past
    <3>2. CASE out # <<>>
      <4>1. n # 1 /\ n - 1 = Len(out) /\ Len(out) \in 1..Len(out)
            BY <1>0, <1>1, <3>2, EmptySeq
      <4>2. out'[n - 1].end = out[Len(out)].end /\ out[Len(out)].end \in Nat
            BY <1>13, <4>1 DEF FramerInv, EndsInOrder, Delimiters
      <4> QED BY <3>2, <4>1, <4>2 DEF Start, Past
    <3> QED BY <3>1, <3>2
  <2>2. FrameOf(n)' = SubSeq(stream, Past + 1, e - 1)
        BY <1>10, <1>14, <2>1 DEF FrameOf
  <2> DEFINE m == (Gone - Past) + (i - 1)
             g == SubSeq(stream, Past + 1, Past + m)
  <2>3. m \in Nat /\ Past + m = e - 1 /\ Past + m <= Len(stream)
        BY <1>1, <1>2, <1>3, <1>4, <1>5, <1>9 DEF e
  <2>4. FrameOf(n)' = g
        BY <2>2, <2>3
  <2>5. Len(g) = m
    <3> HIDE DEF m
    <3> QED BY <1>1, <1>3, <2>3, Stretch
  <2>6. CASE dropping
    <3>1. Gone - Past >= MaxLine
          BY <2>6 DEF FramerInv, GoneIsDropped
    <3>2. ~(Len(g) < MaxLine)
      <4>1. MaxLine \in Nat
            BY FramerAssumption
      <4> HIDE DEF g
      <4> QED BY <1>2, <1>3, <1>4, <2>5, <3>1, <4>1
    <3>3. Verdict(f) = Oversize
          BY <2>6 DEF Verdict
    <3> QED BY <1>14, <2>4, <3>2, <3>3 DEF Kept
  <2>7. CASE ~dropping
    <3>1. Gone = Past
          BY <2>7 DEF FramerInv, GoneIsDropped
    <3>2. m = i - 1
          BY <1>2, <1>9, <3>1
    <3>3. g = f
      <4> DEFINE q == i - 1
      <4>1. q \in Nat /\ q <= Len(buf) /\ Gone + q <= Len(stream) /\ 0 + q = q
            BY <1>1, <1>2, <1>4
      <4>2. \A j \in 1..q : stream[Gone + j] = buf[0 + j]
        <5>1. \A j \in 1..q : j \in 1..Len(buf) /\ 0 + j = j
              BY <1>1, <1>4
        <5> QED BY <5>1 DEF FramerInv, BufIsTail
      <4>3. g = SubSeq(stream, Gone + 1, Gone + q) /\ f = SubSeq(buf, 0 + 1, 0 + q)
            BY <1>2, <3>1, <3>2, <4>1 DEF f
      <4> HIDE DEF q, g
      <4>4. SubSeq(stream, Gone + 1, Gone + q) = SubSeq(buf, 0 + 1, 0 + q)
            BY <1>1, <1>2, <4>1, <4>2, SameBytes
      <4> QED BY <4>3, <4>4
    <3>4. Verdict(f) = IF Len(f) > MaxLine THEN Oversize ELSE f
          BY <2>7 DEF Verdict
    <3>5. MaxLine \in Nat /\ Len(f) \in Nat
          BY <1>9, FramerAssumption
    <3> HIDE DEF g
    <3> QED BY <1>14, <2>4, <3>3, <3>4, <3>5 DEF Kept
  <2> QED BY <2>6, <2>7
<1>24. \A k \in 1..Len(out') : Kept(out'[k].line, FrameOf(k)')
  <2>1. \A k \in 1..n : k \in 1..Len(out) \/ k = n
        BY <1>0, <1>1
  <2> QED BY <1>13, <1>22, <1>23, <2>1
<1> QED BY <1>10, <1>17, <1>18, <1>19, <1>20, <1>21, <1>24 DEF FramerInv, Kept

LEMMA ReturnInv ==
    ASSUME FramerInv, Return
    PROVE  FramerInv'
<1>1. /\ buf \in Seq(Bytes) /\ stream \in Seq(Bytes) /\ out \in Seq(Frame)
      /\ Len(buf) \in Nat /\ Len(stream) \in Nat /\ Len(out) \in Nat /\ MaxLine \in Nat \ {0}
      BY FramerAssumption DEF FramerInv, FramerTypeOK
<1>2. Gone \in Nat /\ Gone + Len(buf) = Len(stream)
      BY <1>1 DEF FramerInv, BufIsTail, Gone
<1>3. Past \in Nat /\ Past <= Gone
      BY PastIsNat DEF FramerInv, GoneIsDropped
<1>4. out' = out /\ stream' = stream /\ pushing' = FALSE /\ Delimiters(buf) = {}
      /\ buf' = Cut(buf) /\ dropping' = (dropping \/ Len(buf) > MaxLine)
      BY DEF Return
<1>5. Past' = Past
      BY <1>4 DEF Past
<1>6. NothingSkipped' /\ EndsInOrder'
      BY <1>4, <1>5 DEF FramerInv, NothingSkipped, EndsInOrder
<1>7. \A k \in 1..Len(out') : Kept(out'[k].line, FrameOf(k)')
  <2>1. ASSUME NEW k PROVE Start(k)' = Start(k) /\ FrameOf(k)' = FrameOf(k)
        BY <1>4 DEF Start, FrameOf
  <2> QED BY <1>4, <2>1 DEF FramerInv
<1>8. CASE ~(Len(buf) > MaxLine)
  <2>1. buf' = buf /\ dropping' = dropping
    <3>1. dropping \in BOOLEAN
          BY DEF FramerInv, FramerTypeOK
    <3> QED BY <1>4, <1>8, <3>1 DEF Cut
  <2>2. Gone' = Gone
        BY <1>4, <2>1 DEF Gone
  <2>3. FramerTypeOK' /\ BufIsTail' /\ GoneIsDropped'
    <3>1. FramerTypeOK'
          BY <1>4, <2>1 DEF FramerInv, FramerTypeOK
    <3>2. BufIsTail'
          BY <1>4, <2>1, <2>2 DEF FramerInv, BufIsTail
    <3>3. GoneIsDropped'
          BY <1>4, <1>5, <2>1, <2>2 DEF FramerInv, GoneIsDropped
    <3> QED BY <3>1, <3>2, <3>3
  <2> QED BY <1>4, <1>6, <1>7, <2>1, <2>3 DEF FramerInv, Kept
<1>9. CASE Len(buf) > MaxLine
  <2>1. dropping' = TRUE
        BY <1>4, <1>9
  <2>2. buf' = IF buf[Len(buf)] = "CR" THEN <<"CR">> ELSE <<>>
        BY <1>4, <1>9 DEF Cut
  <2>3. buf[Len(buf)] = stream[Len(stream)]
    <3>1. Len(buf) \in 1..Len(buf)
          BY <1>1, <1>9
    <3> QED BY <1>2, <3>1 DEF FramerInv, BufIsTail
  <2>4. \/ /\ buf[Len(buf)] = "CR" /\ Len(buf') = 1 /\ buf'[1] = "CR"
           /\ Gone' = Len(stream) - 1
        \/ buf[Len(buf)] # "CR" /\ Len(buf') = 0 /\ Gone' = Len(stream)
    <3>1. CASE buf[Len(buf)] = "CR"
      <4>1. buf' = <<"CR">> /\ Len(<<"CR">>) = 1 /\ <<"CR">>[1] = "CR"
            BY <2>2, <3>1
      <4> QED BY <1>4, <3>1, <4>1 DEF Gone
    <3>2. CASE buf[Len(buf)] # "CR"
      <4>1. buf' = <<>> /\ Len(<<>>) = 0
            BY <2>2, <3>2
      <4> QED BY <1>1, <1>4, <3>2, <4>1 DEF Gone
    <3> QED BY <3>1, <3>2
  <2>5. FramerTypeOK'
    <3>1. <<"CR">> \in Seq(Bytes) /\ <<>> \in Seq(Bytes)
          BY DEF Bytes
    <3>2. buf' \in Seq(Bytes)
          BY <2>2, <3>1
    <3> QED BY <1>1, <1>4, <2>1, <3>2 DEF FramerTypeOK
  <2>6. BufIsTail'
    <3>1. Gone' \in Nat
          BY <1>1, <1>2, <1>9, <2>4
    <3>2. ASSUME NEW j \in 1..Len(buf') PROVE buf'[j] = stream[Gone' + j]
      <4>1. buf[Len(buf)] = "CR" /\ Gone' = Len(stream) - 1 /\ j = 1 /\ buf'[1] = "CR"
        <5>1. Len(buf') = 1 \/ Len(buf') = 0
              BY <2>4
        <5>2. j \in Int /\ 1 <= j /\ j <= Len(buf')
              BY <3>2, <5>1
        <5>3. Len(buf') = 1 /\ j = 1
              BY <5>1, <5>2
        <5> QED BY <2>4, <5>3
      <4>2. Gone' + j = Len(stream)
            BY <1>1, <4>1
      <4> QED BY <2>3, <4>1, <4>2
    <3> QED BY <1>4, <3>1, <3>2 DEF BufIsTail
  <2>7. Gone' - Past >= MaxLine /\ Past <= Gone'
        BY <1>1, <1>2, <1>3, <1>9, <2>4
  <2>8. ASSUME NEW p \in (Past + 1)..Gone', stream[p] = "CR"
        PROVE  p < Len(stream) /\ stream[p + 1] # "LF"
    <3>1. p \in Nat /\ p <= Len(stream)
          BY <1>1, <1>3, <2>4
    <3>2. p # Len(stream)
          BY <1>1, <2>3, <2>4, <2>8
    <3>3. p \in 1..(Len(stream) - 1)
          BY <1>1, <1>3, <3>1, <3>2
    <3>4. ASSUME stream[p + 1] = "LF" PROVE FALSE
      <4>1. p \in Delimiters(stream) /\ p > Past
            BY <1>3, <2>8, <3>3, <3>4 DEF Delimiters
      <4> QED BY <1>4, <4>1, InBuffer
    <3> QED BY <1>1, <3>3, <3>4
  <2>9. GoneIsDropped'
        BY <1>4, <1>5, <2>1, <2>7, <2>8 DEF GoneIsDropped
  <2>10. Delimiters(buf') = {}
    <3>1. Len(buf') = 1 \/ Len(buf') = 0
          BY <2>4
    <3>2. Len(buf') \in Nat
          BY <2>5 DEF FramerTypeOK
    <3>3. PICK m \in Nat : m = Len(buf')
          BY <3>2
    <3>4. m <= 1 /\ 1..(m - 1) = {}
          BY <3>1, <3>3
    <3> QED BY <3>3, <3>4 DEF Delimiters
  <2> QED BY <1>6, <1>7, <2>5, <2>6, <2>9, <2>10 DEF FramerInv, Kept
<1> QED BY <1>8, <1>9

LEMMA FramerInvariance == FramerSpec => []FramerInv
<1>1. FramerInv /\ [FramerNext]_framerVars => FramerInv'
  <2> SUFFICES ASSUME FramerInv, [FramerNext]_framerVars PROVE FramerInv'
      OBVIOUS
  <2>1. CASE FramerNext
        BY <2>1, PushInv, RoundInv, ReturnInv DEF FramerNext
  <2>2. CASE UNCHANGED framerVars
    <3>1. buf' = buf /\ dropping' = dropping /\ pushing' = pushing /\ out' = out /\ stream' = stream
          BY <2>2 DEF framerVars
    <3>2. \A k : Start(k)' = Start(k) /\ FrameOf(k)' = FrameOf(k)
          BY <3>1 DEF Start, FrameOf
    <3>3. Past' = Past /\ Gone' = Gone
          BY <3>1 DEF Past, Gone
    <3>4. FramerTypeOK' /\ BufIsTail' /\ GoneIsDropped' /\ NothingSkipped' /\ EndsInOrder'
          BY <3>1, <3>3 DEF FramerInv, FramerTypeOK, BufIsTail, GoneIsDropped, NothingSkipped, EndsInOrder
    <3> QED BY <3>1, <3>2, <3>4 DEF FramerInv, Kept
  <2> QED BY <2>1, <2>2
<1> QED BY <1>1, FramerInitInv, PTL DEF FramerSpec

(***************************************************************************)
(* For streams of any length cut anywhere, and any limit: exactly the      *)
(* frames between the CRLFs of the whole stream come out, in order, those  *)
(* below the limit whole and those above it dropped (Push).                *)
(***************************************************************************)
THEOREM FramesAreExact == FramerSpec => []FramesSurviveChunking
<1>1. FramerInv => FramesSurviveChunking
  <2> SUFFICES ASSUME FramerInv PROVE FramesSurviveChunking
      OBVIOUS
  <2>1. ASSUME ~pushing, NEW d \in Delimiters(stream)
        PROVE  \E k \in 1..Len(out) : out[k].end = d
    <3>1. d \in Nat /\ Past \in Nat
          BY PastIsNat DEF FramerInv, FramerTypeOK, Delimiters
    <3>2. ~(d > Past)
          BY <2>1, InBuffer DEF FramerInv
    <3> QED BY <3>1, <3>2 DEF FramerInv, NothingSkipped
  <2> QED BY <2>1 DEF FramesSurviveChunking, FramerInv, EndsInOrder, Kept
<1> QED BY <1>1, FramerInvariance, PTL

----------------------------------------------------------------------------
(***************************************************************************)
(* The session.                                                            *)
(***************************************************************************)

\* The lines the reader sent and the session has not taken yet.
Unread(w, ch) == Range(w) \cup UNION {Range(ch[i]) : i \in DOMAIN ch}

\* What may follow the answer to command a.
After(l, a) == l.kind = "tag" /\ (a = "f" => l.fresh)

\* In the order the session takes them, nothing but such lines follows an answer to a.
InOrder(w, ch, a) ==
    /\ \A i \in DOMAIN w : w[i].code = a => \A j \in DOMAIN w : j > i => After(w[j], a)
    /\ \A i \in DOMAIN ch : (\E l \in Range(ch[i]) : l.code = a) =>
         /\ \A j \in DOMAIN ch : j > i => \A l \in Range(ch[j]) : After(l, a)
         /\ \A l \in Range(w) : After(l, a)

Pending == Unread(wire, chunks)

Shaped(l) ==
    /\ l \in Line
    /\ (l.kind = "tag") <=> (l.code = "T")
    /\ (l.kind = "setting") <=> (l.code \in Settings)

Plans == {<<"v", "b", "p", "i", "f">>, <<"b", "p", "i", "f">>, <<"p", "i", "f">>, <<"i", "f">>,
          <<"f">>, <<"3", "p", "f">>, <<"p", "f">>}

Doing == {"issue", "await"}
Command == Head(ses.plan)

\* The answers that may still come, or wait to be taken.
Codes == (IF ses.pc = "drain" \/ (ses.pc \in Doing /\ Command = "v") THEN {"3"} ELSE {})
         \cup (IF ses.pc = "await" THEN {Command} ELSE {})

\* Between connections nothing is under way.
ConnInv ==
    /\ link = "closed" <=> ses.pc \in {"dial", "sleep", "end"}
    /\ link = "closed" => wire = <<>> /\ chunks = <<>>
    /\ link # "up" => dev.cmds = <<>>
    /\ ses.pc \in Doing => ses.plan \in Plans
    /\ ses.pc \in {"stop", "drain"} => ses.inInit
    /\ ses.pc = "inv" => ~ses.inInit

\* The commands the reader has not executed, and the answers not taken.
QueueInv ==
    /\ \A i \in DOMAIN dev.cmds : dev.cmds[i].power = ses.power
    /\ \/ dev.cmds = <<>>
       \/ Len(dev.cmds) = 1 /\ dev.cmds[1].name = "3" /\ (ses.pc = "drain" \/ (ses.pc = "issue" /\ Command = "v"))
       \/ Len(dev.cmds) = 1 /\ dev.cmds[1].name = Command /\ ses.pc = "await"
       \/ /\ Len(dev.cmds) = 2 /\ dev.cmds[1].name = "3" /\ dev.cmds[2].name = "v"
          /\ ses.pc = "await" /\ Command = "v"
    /\ \A l \in Pending : Shaped(l) /\ (l.kind = "tag" \/ l.code \in Codes)
    /\ ses.pc = "await" => InOrder(wire, chunks, Command)

Answer == ses.pc = "await" /\ \E l \in Pending : l.code = Command

\* What an answer says of the reader, while the connection lives.
DeviceInv ==
    /\ Answer => dev.cmds = <<>>
    /\ link = "up" =>
         /\ ses.pc = "inv" \/ (ses.pc \in Doing /\ Command \in {"i", "f"}) => dev.power = ses.power
         /\ Answer /\ Command = "p" => dev.power = ses.power
         /\ Answer /\ Command = "f" => dev.inv
         /\ ses.pc = "inv" => dev.inv
    /\ Answer /\ Command = "f" => dev.began

\* Unless a command was lost, the reader does not inventory once it has read Stop.
StoppedInv ==
    link = "up" /\ budget["mute"] = Budget["mute"] =>
      /\ ses.pc = "drain" /\ dev.cmds = <<>> => ~dev.inv
      /\ ses.pc \in Doing /\ Command \in Settings /\ (dev.cmds = <<>> \/ Head(dev.cmds).name # "3") => ~dev.inv
      /\ ses.pc = "await" /\ Command = "3" /\ dev.cmds = <<>> => ~dev.inv

\* From the first inventory on, every tag under way is of this connection.
FreshInv ==
    /\ ses.pc \in Doing \cup {"inv"} /\ ~ses.inInit => dev.began /\ \A l \in Pending : l.kind = "tag" => l.fresh
    /\ OnlyFreshTags

SessionInv ==
    /\ SessionTypeOK /\ budget["mute"] <= Budget["mute"]
    /\ ConnInv /\ QueueInv /\ DeviceInv /\ StoppedInv /\ FreshInv

-----------------------------------------------------------------------------
(* The stream of lines *)

\* A line the reader sends comes last.
LEMMA LineSent ==
  ASSUME NEW w \in Seq(Line), NEW ch \in Seq(Seq(Line)), NEW l \in Line, NEW a
  PROVE  /\ Append(w, l) \in Seq(Line)
         /\ Unread(Append(w, l), ch) = Unread(w, ch) \cup {l}
         /\ InOrder(w, ch, a) /\ (After(l, a) \/ \A m \in Unread(w, ch) : m.code # a)
              => InOrder(Append(w, l), ch, a)
<1>1. /\ Len(w) \in Nat /\ DOMAIN w = 1..Len(w) /\ Append(w, l) \in Seq(Line)
      /\ DOMAIN Append(w, l) = 1..(Len(w) + 1) /\ Append(w, l)[Len(w) + 1] = l
      /\ \A i \in 1..Len(w) : Append(w, l)[i] = w[i]
      OBVIOUS
<1>2. \A i \in 1..(Len(w) + 1) : i \in 1..Len(w) \/ i = Len(w) + 1
      BY <1>1
<1>3. Range(Append(w, l)) = Range(w) \cup {l}
  <2>1. ASSUME NEW x \in Range(Append(w, l)) PROVE x \in Range(w) \cup {l}
        BY <1>1, <1>2, <2>1 DEF Range
  <2>2. ASSUME NEW x \in Range(w) \cup {l} PROVE x \in Range(Append(w, l))
    <3>1. Len(w) + 1 \in 1..(Len(w) + 1) /\ \A i \in 1..Len(w) : i \in 1..(Len(w) + 1)
          BY <1>1
    <3> QED BY <1>1, <2>2, <3>1 DEF Range
  <2> QED BY <2>1, <2>2
<1>4. Unread(Append(w, l), ch) = Unread(w, ch) \cup {l}
      BY <1>3 DEF Unread
<1>5. ASSUME InOrder(w, ch, a), After(l, a) \/ \A m \in Unread(w, ch) : m.code # a
      PROVE  InOrder(Append(w, l), ch, a)
  <2> DEFINE v == Append(w, l)
  <2>1. ASSUME NEW i \in DOMAIN v, v[i].code = a, NEW j \in DOMAIN v, j > i PROVE After(v[j], a)
    <3>1. i \in 1..Len(w)
          BY <1>1, <1>2, <2>1
    <3>2. w[i] \in Unread(w, ch) /\ w[i].code = a
          BY <1>1, <2>1, <3>1 DEF Unread, Range
    <3>3. CASE j = Len(w) + 1
          BY <1>1, <1>5, <3>2, <3>3
    <3>4. CASE j \in 1..Len(w)
          BY <1>1, <1>5, <2>1, <3>1, <3>2, <3>4 DEF InOrder
    <3> QED BY <1>1, <1>2, <3>3, <3>4
  <2>2. ASSUME NEW i \in DOMAIN ch, \E m \in Range(ch[i]) : m.code = a
        PROVE  /\ \A j \in DOMAIN ch : j > i => \A m \in Range(ch[j]) : After(m, a)
               /\ \A m \in Range(v) : After(m, a)
    <3>1. /\ \A j \in DOMAIN ch : j > i => \A m \in Range(ch[j]) : After(m, a)
          /\ \A m \in Range(w) : After(m, a)
          BY <1>5, <2>2 DEF InOrder
    <3>2. After(l, a)
          BY <1>5, <2>2 DEF Unread
    <3> QED BY <1>3, <3>1, <3>2
  <2> QED BY <2>1, <2>2 DEF InOrder
<1> QED BY <1>1, <1>4, <1>5

\* Taking a chunk that holds an answer leaves only what may follow it.
LEMMA ChunkTaken ==
  ASSUME NEW w \in Seq(Line), NEW ch \in Seq(Seq(Line)), ch # <<>>, NEW a
  PROVE  /\ Tail(ch) \in Seq(Seq(Line)) /\ Len(Tail(ch)) <= Len(ch)
         /\ Unread(w, Tail(ch)) \subseteq Unread(w, ch) /\ Range(Head(ch)) \subseteq Unread(w, ch)
         /\ InOrder(w, ch, a) => InOrder(w, Tail(ch), a)
         /\ InOrder(w, ch, a) /\ (\E l \in Range(Head(ch)) : l.code = a)
              => \A l \in Unread(w, Tail(ch)) : After(l, a)
<1>1. /\ Len(ch) \in Nat \ {0} /\ DOMAIN ch = 1..Len(ch) /\ Tail(ch) \in Seq(Seq(Line))
      /\ Len(Tail(ch)) = Len(ch) - 1 /\ DOMAIN Tail(ch) = 1..(Len(ch) - 1) /\ Head(ch) = ch[1]
      /\ \A i \in 1..(Len(ch) - 1) : Tail(ch)[i] = ch[i + 1]
      OBVIOUS
<1>2. 1 \in DOMAIN ch /\ \A i \in DOMAIN Tail(ch) : i + 1 \in DOMAIN ch /\ i + 1 > 1 /\ Tail(ch)[i] = ch[i + 1]
      BY <1>1
<1>3. Unread(w, Tail(ch)) \subseteq Unread(w, ch) /\ Range(Head(ch)) \subseteq Unread(w, ch)
      BY <1>1, <1>2 DEF Unread
<1>4. ASSUME InOrder(w, ch, a) PROVE InOrder(w, Tail(ch), a)
  <2>1. \A i, j \in DOMAIN Tail(ch) : j > i => j + 1 > i + 1
        BY <1>1
  <2> QED BY <1>2, <1>4, <2>1 DEF InOrder
<1>5. ASSUME InOrder(w, ch, a), \E l \in Range(Head(ch)) : l.code = a
      PROVE  \A l \in Unread(w, Tail(ch)) : After(l, a)
  <2>1. /\ \A j \in DOMAIN ch : j > 1 => \A l \in Range(ch[j]) : After(l, a)
        /\ \A l \in Range(w) : After(l, a)
        BY <1>1, <1>2, <1>5 DEF InOrder
  <2> QED BY <1>2, <2>1 DEF Unread
<1>6. Len(Tail(ch)) <= Len(ch)
      BY <1>1
<1> QED BY <1>1, <1>3, <1>4, <1>5, <1>6

\* The pump keeps the lines and their order.
LEMMA LinesPumped ==
  ASSUME NEW w \in Seq(Line), NEW ch \in Seq(Seq(Line)), NEW n \in 1..Len(w), NEW a
  PROVE  LET v == SubSeq(w, n + 1, Len(w))  c == Append(ch, SubSeq(w, 1, n)) IN
         /\ v \in Seq(Line) /\ c \in Seq(Seq(Line)) /\ Len(c) = Len(ch) + 1
         /\ Unread(v, c) \subseteq Unread(w, ch)
         /\ InOrder(w, ch, a) => InOrder(v, c, a)
<1> DEFINE v == SubSeq(w, n + 1, Len(w))
           h == SubSeq(w, 1, n)
           c == Append(ch, h)
<1>1. Len(w) \in Nat /\ DOMAIN w = 1..Len(w) /\ n \in Nat /\ n <= Len(w) /\ Len(ch) \in Nat /\ DOMAIN ch = 1..Len(ch)
      OBVIOUS
<1>2. h \in Seq(Line) /\ DOMAIN h = 1..n /\ \A k \in 1..n : h[k] = w[k] /\ k \in DOMAIN w
      BY <1>1
<1>3. /\ v \in Seq(Line) /\ DOMAIN v = 1..(Len(w) - n)
      /\ \A k \in 1..(Len(w) - n) : v[k] = w[n + k] /\ n + k \in DOMAIN w
      BY <1>1
<1>4. /\ c \in Seq(Seq(Line)) /\ Len(c) = Len(ch) + 1 /\ DOMAIN c = 1..(Len(ch) + 1) /\ c[Len(ch) + 1] = h
      /\ \A i \in 1..Len(ch) : c[i] = ch[i]
      BY <1>1, <1>2
<1>5. \A i \in 1..(Len(ch) + 1) : i \in 1..Len(ch) \/ i = Len(ch) + 1
      BY <1>1
<1> HIDE DEF v, h, c
<1>6. Range(h) \subseteq Range(w) /\ Range(v) \subseteq Range(w)
      BY <1>2, <1>3 DEF Range
<1>7. Unread(v, c) \subseteq Unread(w, ch)
      BY <1>1, <1>4, <1>5, <1>6 DEF Unread
<1>8. ASSUME InOrder(w, ch, a) PROVE InOrder(v, c, a)
  <2>1. ASSUME NEW i \in DOMAIN v, v[i].code = a, NEW j \in DOMAIN v, j > i PROVE After(v[j], a)
    <3>1. n + j > n + i
          BY <1>1, <1>3, <2>1
    <3> QED BY <1>3, <1>8, <2>1, <3>1 DEF InOrder
  <2>2. ASSUME NEW i \in DOMAIN c, \E m \in Range(c[i]) : m.code = a
        PROVE  /\ \A j \in DOMAIN c : j > i => \A m \in Range(c[j]) : After(m, a)
               /\ \A m \in Range(v) : After(m, a)
    <3>1. CASE i \in 1..Len(ch)
      <4>1. /\ \A j \in DOMAIN ch : j > i => \A m \in Range(ch[j]) : After(m, a)
            /\ \A m \in Range(w) : After(m, a)
            BY <1>1, <1>4, <1>8, <2>2, <3>1 DEF InOrder
      <4> QED BY <1>1, <1>4, <1>5, <1>6, <4>1
    <3>2. CASE i = Len(ch) + 1
      <4>1. PICK k \in 1..n : w[k].code = a
            BY <1>2, <1>4, <2>2, <3>2 DEF Range
      <4>2. \A m \in Range(v) : After(m, a)
        <5>1. ASSUME NEW j \in DOMAIN v PROVE After(v[j], a)
          <6>1. n + j > k /\ k \in DOMAIN w
                BY <1>1, <1>3
          <6> QED BY <1>3, <1>8, <4>1, <6>1 DEF InOrder
        <5> QED BY <5>1 DEF Range
      <4>3. \A j \in DOMAIN c : ~(j > i)
            BY <1>1, <1>4, <3>2
      <4> QED BY <4>2, <4>3
    <3> QED BY <1>4, <1>5, <3>1, <3>2
  <2> QED BY <2>1, <2>2 DEF InOrder
<1> QED BY <1>3, <1>4, <1>7, <1>8 DEF v, h, c

-----------------------------------------------------------------------------
(* Types *)

LEMMA PlanFacts ==
  ASSUME NEW q \in Plans
  PROVE  /\ q \in Seq(Commands) /\ q # <<>> /\ Head(q) \in Commands /\ Tail(q) \in Seq(Commands)
         /\ Len(q) = 1 => Head(q) = "f"
         /\ Len(q) # 1 => /\ Tail(q) \in Plans /\ Head(q) # "f" /\ Head(Tail(q)) \notin {"v", "3"}
                          /\ Head(Tail(q)) \in {"i", "f"} => Head(q) \in {"p", "i"}
                          /\ Head(Tail(q)) \in Settings => Head(q) \in Settings \cup {"3"}
<1>1. CASE q = <<"v", "b", "p", "i", "f">>
      BY <1>1 DEF Plans, Commands, Settings
<1>2. CASE q = <<"b", "p", "i", "f">>
      BY <1>2 DEF Plans, Commands, Settings
<1>3. CASE q = <<"p", "i", "f">>
      BY <1>3 DEF Plans, Commands, Settings
<1>4. CASE q = <<"i", "f">>
      BY <1>4 DEF Plans, Commands, Settings
<1>5. CASE q = <<"f">>
      BY <1>5 DEF Plans, Commands, Settings
<1>6. CASE q = <<"3", "p", "f">>
      BY <1>6 DEF Plans, Commands, Settings
<1>7. CASE q = <<"p", "f">>
      BY <1>7 DEF Plans, Commands, Settings
<1> QED BY <1>1, <1>2, <1>3, <1>4, <1>5, <1>6, <1>7 DEF Plans

Devs == [inv : BOOLEAN, power : GoodPowers, began : BOOLEAN,
         cmds : Seq([name : Commands, power : GoodPowers])]
Sess == [pc : SessionPcs, plan : Seq(Commands), power : GoodPowers,
         inInit : BOOLEAN, attempt : 0..AttemptCap]

\* A fault is charged to its own kind.
LEMMA UseFacts ==
  ASSUME SessionTypeOK, budget["mute"] <= Budget["mute"],
         NEW kind \in {"dial", "cut", "mute", "late", "power", "cancel"}, Use(kind)
  PROVE  /\ budget' \in [DOMAIN Budget -> Nat] /\ budget'["mute"] <= Budget["mute"]
         /\ kind = "mute" => budget'["mute"] # Budget["mute"]
         /\ kind # "mute" => budget'["mute"] = budget["mute"]
<1>1. /\ DOMAIN Budget = {"dial", "cut", "mute", "late", "power", "cancel"} /\ Budget["mute"] \in Nat
      /\ budget \in [DOMAIN Budget -> Nat] /\ budget["mute"] \in Nat /\ budget[kind] \in Nat
      BY SessionConstants DEF SessionTypeOK
<1>2. budget[kind] - 1 \in Nat
      BY <1>1 DEF Use
<1>3. /\ budget' \in [DOMAIN Budget -> Nat] /\ budget'[kind] = budget[kind] - 1
      /\ \A k \in DOMAIN Budget : k # kind => budget'[k] = budget[k]
      BY <1>1, <1>2 DEF Use
<1> QED BY <1>1, <1>2, <1>3

\* Closing the connection, or not having one.
LEMMA IdleInv ==
  ASSUME ses'.pc \in {"dial", "sleep", "end"}, link' = "closed", wire' = <<>>, chunks' = <<>>,
         dev'.cmds = <<>>, OnlyFreshTags'
  PROVE  ConnInv' /\ QueueInv' /\ DeviceInv' /\ StoppedInv' /\ FreshInv'
<1>1. Pending' = {}
      BY DEF Pending, Unread, Range
<1>2. ConnInv'
      BY DEF ConnInv, Doing
<1>3. QueueInv'
      BY <1>1 DEF QueueInv
<1>4. DeviceInv' /\ StoppedInv' /\ FreshInv'
      BY DEF DeviceInv, StoppedInv, FreshInv, Doing, Answer
<1> QED BY <1>2, <1>3, <1>4

LEMMA ClosedType ==
  ASSUME SessionTypeOK, CloseConn
  PROVE  /\ dev' \in Devs /\ ses' \in Sess /\ ses'.pc \in {"sleep", "end"} /\ dev'.cmds = <<>>
         /\ link' = "closed" /\ wire' = <<>> /\ chunks' = <<>>
<1>1. dev \in Devs /\ ses \in Sess /\ 0 \in 0..AttemptCap
      BY SessionConstants DEF SessionTypeOK, Devs, Sess
<1>2. <<>> \in Seq([name : Commands, power : GoodPowers]) /\ <<>> \in Seq(Commands)
      OBVIOUS
<1>3. dev' \in Devs /\ dev'.cmds = <<>>
      BY <1>1, <1>2 DEF CloseConn, Devs
<1>4. CASE cancelled
      BY <1>1, <1>3, <1>4 DEF CloseConn, Sess, SessionPcs
<1>5. CASE ~cancelled
  <2>1. (IF ses.inInit THEN ses.attempt ELSE 0) \in 0..AttemptCap
        BY <1>1 DEF Sess
  <2>2. ses' = [ses EXCEPT !.pc = "sleep", !.plan = <<>>, !.attempt = IF ses.inInit THEN ses.attempt ELSE 0]
        BY <1>5 DEF CloseConn, Asleep
  <2>3. ses' \in Sess /\ ses'.pc = "sleep"
        BY <1>1, <1>2, <2>1, <2>2 DEF Sess, SessionPcs
  <2> QED BY <1>3, <2>3 DEF CloseConn
<1> QED BY <1>4, <1>5

\* serve returns.
LEMMA ClosedInv ==
  ASSUME SessionInv, CloseConn, UNCHANGED <<reconfig, cancelled, handed>>,
         budget' \in [DOMAIN Budget -> Nat], budget'["mute"] <= Budget["mute"]
  PROVE  SessionInv'
<1>1. SessionTypeOK /\ OnlyFreshTags
      BY DEF SessionInv, FreshInv
<1>2. /\ dev' \in Devs /\ ses' \in Sess /\ ses'.pc \in {"sleep", "end"} /\ dev'.cmds = <<>>
      /\ link' = "closed" /\ wire' = <<>> /\ chunks' = <<>>
      BY <1>1, ClosedType
<1>3. SessionTypeOK'
  <2>1. wire' \in Seq(Line) /\ chunks' \in Seq(Seq(Line)) /\ Len(chunks') <= ChunkCap
        BY <1>2, SessionConstants
  <2> QED BY <1>1, <1>2, <2>1 DEF SessionTypeOK, Devs, Sess
<1>4. OnlyFreshTags'
      BY <1>1 DEF OnlyFreshTags
<1>5. ConnInv' /\ QueueInv' /\ DeviceInv' /\ StoppedInv' /\ FreshInv'
      BY <1>2, <1>4, IdleInv
<1> QED BY <1>3, <1>5 DEF SessionInv

\* The session stays where it is and no line is added.
LEMMA KeepInv ==
  ASSUME SessionInv, ses' = ses, Pending' \subseteq Pending, OnlyFreshTags',
         ses.pc = "await" => InOrder(wire', chunks', Command),
         link = "closed" => wire' = <<>> /\ chunks' = <<>>,
         \/ link' = link /\ dev' = dev /\ budget'["mute"] = budget["mute"]
         \/ link # "closed" /\ link' = "cut" /\ dev'.cmds = <<>> /\ dev'.began = dev.began
  PROVE  ConnInv' /\ QueueInv' /\ DeviceInv' /\ StoppedInv' /\ FreshInv'
<1>1. ConnInv'
      BY DEF SessionInv, ConnInv
<1>c. Command' = Command /\ Codes' = Codes
      BY DEF Command, Codes
<1>2. QueueInv'
  <2>1. \A l \in Pending' : Shaped(l) /\ (l.kind = "tag" \/ l.code \in Codes')
        BY <1>c DEF SessionInv, QueueInv
  <2>2. ses'.pc = "await" => InOrder(wire', chunks', Command')
        BY <1>c
  <2>3. CASE dev' = dev
        BY <1>c, <2>1, <2>2, <2>3 DEF SessionInv, QueueInv
  <2>4. CASE dev'.cmds = <<>>
        BY <2>1, <2>2, <2>4 DEF QueueInv
  <2> QED BY <2>3, <2>4
<1>3. Answer' => Answer
      BY <1>c DEF Answer
<1>4. DeviceInv'
      BY <1>c, <1>3 DEF SessionInv, DeviceInv
<1>5. StoppedInv'
      BY <1>c DEF SessionInv, StoppedInv
<1>6. FreshInv'
      BY <1>c DEF SessionInv, FreshInv
<1> QED BY <1>1, <1>2, <1>4, <1>5, <1>6

-----------------------------------------------------------------------------
(* The session's steps *)

LEMMA DialOkInv ==
  ASSUME SessionInv, DialOk
  PROVE  SessionInv'
<1>1. /\ link' = "up" /\ dev' = [dev EXCEPT !.cmds = <<>>, !.began = FALSE]
      /\ ses' = [ses EXCEPT !.pc = "stop", !.plan = <<>>, !.power = CfgPower, !.inInit = TRUE]
      /\ UNCHANGED <<wire, chunks, reconfig, cancelled, handed, budget>> /\ ses.pc = "dial"
      BY DEF DialOk
<1>2. dev \in Devs /\ ses \in Sess /\ CfgPower \in GoodPowers
      BY SessionConstants DEF SessionInv, SessionTypeOK, Devs, Sess
<1>e. <<>> \in Seq([name : Commands, power : GoodPowers]) /\ <<>> \in Seq(Commands)
      OBVIOUS
<1>3. dev' \in Devs /\ dev'.cmds = <<>>
      BY <1>1, <1>2, <1>e DEF Devs
<1>4. ses' \in Sess /\ ses'.pc = "stop" /\ ses'.inInit = TRUE
      BY <1>1, <1>2, <1>e DEF Sess, SessionPcs
<1>5. wire = <<>> /\ chunks = <<>>
      BY <1>1 DEF SessionInv, ConnInv
<1>6. SessionTypeOK'
      BY <1>1, <1>3, <1>4 DEF SessionInv, SessionTypeOK, Devs, Sess
<1>7. Pending' = {}
      BY <1>1, <1>5 DEF Pending, Unread, Range
<1>8. ConnInv' /\ QueueInv'
      BY <1>1, <1>3, <1>4, <1>7 DEF ConnInv, QueueInv, Doing
<1>9. DeviceInv' /\ StoppedInv'
      BY <1>4 DEF DeviceInv, StoppedInv, Doing, Answer
<1>10. FreshInv'
      BY <1>1, <1>4 DEF SessionInv, FreshInv, Doing, OnlyFreshTags
<1> QED BY <1>1, <1>6, <1>8, <1>9, <1>10 DEF SessionInv

\* Dialling and waiting.
LEMMA WaitInv ==
  ASSUME SessionInv, SleepOver \/ DialFailed \/ (CtxDone /\ ses.pc \in {"dial", "sleep"})
  PROVE  SessionInv'
<1>1. UNCHANGED <<dev, link, wire, chunks, reconfig, cancelled, handed>> /\ ses.pc \in {"dial", "sleep"}
      BY DEF SleepOver, DialFailed, CtxDone
<1>2. ses \in Sess /\ SessionTypeOK /\ budget["mute"] <= Budget["mute"]
      BY DEF SessionInv, SessionTypeOK, Sess
<1>3. budget' \in [DOMAIN Budget -> Nat] /\ budget'["mute"] <= Budget["mute"]
  <2>1. CASE UNCHANGED budget
        BY <1>2, <2>1 DEF SessionTypeOK
  <2>2. CASE Use("dial")
        BY <1>2, <2>2, UseFacts
  <2> QED BY <2>1, <2>2 DEF SleepOver, DialFailed, CtxDone
<1>4. ses' \in Sess /\ ses'.pc \in {"dial", "sleep", "end"}
  <2>1. CASE SleepOver
    <3>1. (IF ses.attempt < AttemptCap THEN ses.attempt + 1 ELSE ses.attempt) \in 0..AttemptCap
          BY <1>2, SessionConstants DEF Sess
    <3>2. ses' = [ses EXCEPT !.pc = "dial", !.attempt = IF ses.attempt < AttemptCap THEN ses.attempt + 1 ELSE ses.attempt]
          BY <2>1 DEF SleepOver
    <3> QED BY <1>2, <3>1, <3>2 DEF Sess, SessionPcs
  <2>2. CASE DialFailed
    <3>1. <<>> \in Seq(Commands)
          OBVIOUS
    <3> QED BY <1>2, <2>2, <3>1 DEF DialFailed, Asleep, Sess, SessionPcs
  <2>3. CASE CtxDone /\ ses' = [ses EXCEPT !.pc = "end"]
        BY <1>2, <2>3 DEF Sess, SessionPcs
  <2> QED BY <1>1, <2>1, <2>2, <2>3 DEF CtxDone
<1>5. link = "closed" /\ wire = <<>> /\ chunks = <<>> /\ dev.cmds = <<>>
      BY <1>1 DEF SessionInv, ConnInv
<1>6. SessionTypeOK'
      BY <1>1, <1>2, <1>3, <1>4 DEF SessionTypeOK, Sess
<1>7. OnlyFreshTags'
      BY <1>1 DEF SessionInv, FreshInv, OnlyFreshTags
<1>8. ConnInv' /\ QueueInv' /\ DeviceInv' /\ StoppedInv' /\ FreshInv'
      BY <1>1, <1>4, <1>5, <1>7, IdleInv
<1> QED BY <1>3, <1>6, <1>8 DEF SessionInv

\* Timeouts, read errors, the end of ctx and a write that fails close the connection.
LEMMA CloseInv ==
  ASSUME SessionInv,
         \/ CommandTimeout \/ ReadErr
         \/ CtxDone /\ ses.pc \notin {"dial", "sleep"}
         \/ Issue /\ CloseConn
  PROVE  SessionInv'
<1>1. CloseConn /\ UNCHANGED <<reconfig, cancelled, handed>>
      BY DEF CommandTimeout, ReadErr, CtxDone, Issue
<1>2. SessionTypeOK /\ budget["mute"] <= Budget["mute"]
      BY DEF SessionInv
<1>3. budget' \in [DOMAIN Budget -> Nat] /\ budget'["mute"] <= Budget["mute"]
  <2>1. CASE UNCHANGED budget
        BY <1>2, <2>1 DEF SessionTypeOK
  <2>2. CASE Use("late")
        BY <1>2, <2>2, UseFacts
  <2> QED BY <2>1, <2>2 DEF CommandTimeout, ReadErr, CtxDone, Issue
<1> QED BY <1>1, <1>3, ClosedInv

\* A command is written: Stop, or the next one of the plan.
LEMMA WrittenFacts ==
  ASSUME SessionInv, NEW name \in Commands, NEW pc \in SessionPcs, WriteCmd(name, pc)
  PROVE  /\ dev' \in Devs /\ ses' \in Sess
         /\ ses'.pc = pc /\ ses'.plan = ses.plan /\ ses'.power = ses.power /\ ses'.inInit = ses.inInit
         /\ dev'.inv = dev.inv /\ dev'.power = dev.power /\ dev'.began = dev.began
         /\ link = "cut" => dev' = dev
         /\ link # "cut" => dev'.cmds = Append(dev.cmds, [name |-> name, power |-> ses.power])
<1>1. dev \in Devs /\ ses \in Sess
      BY DEF SessionInv, SessionTypeOK, Devs, Sess
<1>2. ses' = [ses EXCEPT !.pc = pc]
      BY DEF WriteCmd
<1>3. /\ ses' \in Sess /\ ses'.pc = pc /\ ses'.plan = ses.plan /\ ses'.power = ses.power
      /\ ses'.inInit = ses.inInit
      BY <1>1, <1>2 DEF Sess
<1>4. CASE link = "cut"
      BY <1>1, <1>3, <1>4 DEF WriteCmd
<1>5. CASE link # "cut"
  <2>1. Append(dev.cmds, [name |-> name, power |-> ses.power]) \in Seq([name : Commands, power : GoodPowers])
        BY <1>1 DEF Devs, Sess
  <2>2. dev' = [dev EXCEPT !.cmds = Append(dev.cmds, [name |-> name, power |-> ses.power])]
        BY <1>5 DEF WriteCmd
  <2>3. /\ dev' \in Devs /\ dev'.cmds = Append(dev.cmds, [name |-> name, power |-> ses.power])
        /\ dev'.inv = dev.inv /\ dev'.power = dev.power /\ dev'.began = dev.began
        BY <1>1, <2>1, <2>2 DEF Devs
  <2> QED BY <1>3, <1>5, <2>3
<1> QED BY <1>4, <1>5

LEMMA WriteStopInv ==
  ASSUME SessionInv, ses.pc = "stop", WriteCmd("3", "drain"), UNCHANGED <<reconfig, cancelled, handed, budget>>
  PROVE  SessionInv'
<1>1. /\ dev' \in Devs /\ ses' \in Sess
      /\ ses'.pc = "drain" /\ ses'.plan = ses.plan /\ ses'.power = ses.power /\ ses'.inInit = ses.inInit
      /\ link = "cut" => dev' = dev
      /\ link # "cut" => dev'.cmds = Append(dev.cmds, [name |-> "3", power |-> ses.power])
      BY WrittenFacts DEF Commands, SessionPcs
<1>2. UNCHANGED <<link, wire, chunks>>
      BY DEF WriteCmd
<1>3. SessionTypeOK' /\ ConnInv' /\ budget'["mute"] <= Budget["mute"]
  <2>1. SessionTypeOK'
        BY <1>1, <1>2 DEF SessionInv, SessionTypeOK, Devs, Sess
  <2>2. ses'.inInit /\ link # "closed"
        BY <1>1 DEF SessionInv, ConnInv
  <2>3. ConnInv'
    <3>1. link = "cut" => dev'.cmds = <<>>
          BY <1>1 DEF SessionInv, ConnInv
    <3>2. link = "up" \/ link = "cut"
          BY <2>2 DEF SessionInv, SessionTypeOK
    <3> QED BY <1>1, <1>2, <2>2, <3>1, <3>2 DEF ConnInv, Doing
  <2> QED BY <2>1, <2>3 DEF SessionInv
<1>4. dev.cmds = <<>> /\ (\A l \in Pending : Shaped(l) /\ l.kind = "tag") /\ Pending' = Pending
      BY <1>2 DEF SessionInv, QueueInv, Codes, Doing, Pending
<1>5. CASE link = "cut"
      BY <1>1, <1>2, <1>3, <1>4, <1>5 DEF SessionInv, QueueInv, DeviceInv, StoppedInv, FreshInv, Answer, Doing, OnlyFreshTags
<1>6. CASE link # "cut"
  <2>1. /\ Len(dev'.cmds) = 1 /\ dev'.cmds[1].name = "3" /\ DOMAIN dev'.cmds = {1} /\ dev'.cmds # <<>>
        /\ dev'.cmds[1].power = ses.power
    <3>1. dev'.cmds = <<[name |-> "3", power |-> ses.power]>>
          BY <1>1, <1>4, <1>6
    <3> QED BY <3>1
  <2>2. QueueInv'
        BY <1>1, <1>4, <2>1 DEF QueueInv
  <2>3. DeviceInv' /\ StoppedInv'
        BY <1>1, <2>1 DEF DeviceInv, StoppedInv, Answer, Doing
  <2> QED BY <1>1, <1>3, <2>2, <2>3 DEF SessionInv, FreshInv, Doing, OnlyFreshTags
<1> QED BY <1>5, <1>6

LEMMA AppendSecond ==
  ASSUME NEW S, NEW s \in Seq(S), NEW r \in S
  PROVE  Len(s) = 1 => /\ Len(Append(s, r)) = 2 /\ DOMAIN Append(s, r) = 1..2
                       /\ Append(s, r)[1] = s[1] /\ Append(s, r)[2] = r
<1>1. /\ Append(s, r) \in Seq(S) /\ Len(Append(s, r)) = Len(s) + 1 /\ Append(s, r)[Len(s) + 1] = r
      /\ \A i \in 1..Len(s) : Append(s, r)[i] = s[i]
      OBVIOUS
<1>2. Len(s) = 1 => 1 \in 1..Len(s) /\ Len(s) + 1 = 2
      OBVIOUS
<1> QED BY <1>1, <1>2

LEMMA WriteNextInv ==
  ASSUME SessionInv, ses.pc = "issue", WriteCmd(Head(ses.plan), "await"),
         UNCHANGED <<reconfig, cancelled, handed, budget>>
  PROVE  SessionInv'
<1> DEFINE a == Head(ses.plan)
<1>0. ses.plan \in Plans /\ a \in Commands
      BY PlanFacts DEF SessionInv, ConnInv, Doing
<1>1. /\ dev' \in Devs /\ ses' \in Sess
      /\ ses'.pc = "await" /\ ses'.plan = ses.plan /\ ses'.power = ses.power /\ ses'.inInit = ses.inInit
      /\ dev'.inv = dev.inv /\ dev'.power = dev.power /\ dev'.began = dev.began
      /\ link = "cut" => dev' = dev
      /\ link # "cut" => dev'.cmds = Append(dev.cmds, [name |-> a, power |-> ses.power])
      BY <1>0, WrittenFacts DEF SessionPcs
<1>2. UNCHANGED <<link, wire, chunks>> /\ Pending' = Pending
      BY DEF WriteCmd, Pending
<1>n. Command = a /\ Command' = a
      BY <1>1 DEF Command
<1>l. link \in {"up", "cut"}
      BY DEF SessionInv, ConnInv, SessionTypeOK
<1> HIDE DEF a
<1>3. SessionTypeOK'
      BY <1>1, <1>2 DEF SessionInv, SessionTypeOK, Devs, Sess
<1>4. ConnInv'
  <2>1. link = "cut" => dev'.cmds = <<>>
        BY <1>1 DEF SessionInv, ConnInv
  <2> QED BY <1>0, <1>1, <1>2, <1>l, <2>1 DEF ConnInv
<1>5. /\ \A l \in Pending : Shaped(l) /\ (l.kind = "tag" \/ (a = "v" /\ l.code = "3"))
      /\ \A i \in DOMAIN dev.cmds : dev.cmds[i].power = ses.power
      /\ dev.cmds = <<>> \/ (Len(dev.cmds) = 1 /\ dev.cmds[1].name = "3" /\ a = "v")
      BY <1>n DEF SessionInv, QueueInv, Codes, Doing
<1>6. \A l \in Pending : l.code # a
      BY <1>0, <1>5 DEF Shaped, Commands, Settings
<1>7. ~Answer'
      BY <1>2, <1>6, <1>n DEF Answer
<1>8. InOrder(wire', chunks', a)
      BY <1>2, <1>6 DEF InOrder, Pending, Unread, Range
<1>9. \A l \in Pending' : Shaped(l) /\ (l.kind = "tag" \/ l.code \in Codes')
      BY <1>1, <1>2, <1>5, <1>n DEF Codes, Doing
<1>10. QueueInv' /\ StoppedInv'
  <2>1. CASE link = "cut"
    <3>1. dev'.cmds = <<>>
          BY <1>1, <2>1 DEF SessionInv, ConnInv
    <3> QED BY <1>2, <1>8, <1>9, <1>n, <2>1, <3>1 DEF QueueInv, StoppedInv
  <2>2. CASE link # "cut" /\ dev.cmds = <<>>
    <3>1. dev'.cmds = <<[name |-> a, power |-> ses.power]>>
          BY <1>1, <2>2
    <3>2. /\ Len(dev'.cmds) = 1 /\ DOMAIN dev'.cmds = {1} /\ dev'.cmds # <<>> /\ Head(dev'.cmds) = dev'.cmds[1]
          /\ dev'.cmds[1].name = a /\ dev'.cmds[1].power = ses.power
          BY <3>1
    <3>3. QueueInv'
          BY <1>1, <1>8, <1>9, <1>n, <3>2 DEF QueueInv
    <3>4. StoppedInv'
          BY <1>1, <1>2, <1>n, <2>2, <3>2 DEF SessionInv, StoppedInv, Doing
    <3> QED BY <3>3, <3>4
  <2>3. CASE link # "cut" /\ Len(dev.cmds) = 1 /\ dev.cmds[1].name = "3" /\ a = "v"
    <3>1. dev.cmds \in Seq([name : Commands, power : GoodPowers]) /\ dev.cmds[1].power = ses.power
          BY <1>5, <2>3 DEF SessionInv, SessionTypeOK
    <3>2. /\ Len(dev'.cmds) = 2 /\ DOMAIN dev'.cmds = {1, 2} /\ dev'.cmds # <<>> /\ Head(dev'.cmds) = dev'.cmds[1]
          /\ dev'.cmds[1] = dev.cmds[1] /\ dev'.cmds[2] = [name |-> a, power |-> ses.power]
      <4> DEFINE r == [name |-> a, power |-> ses.power]
      <4>1. r \in [name : Commands, power : GoodPowers]
            BY <1>0 DEF SessionInv, SessionTypeOK
      <4>2. dev'.cmds = Append(dev.cmds, r)
            BY <1>1, <2>3
      <4> HIDE DEF r
      <4>3. /\ Len(Append(dev.cmds, r)) = 2 /\ DOMAIN Append(dev.cmds, r) = 1..2
            /\ Append(dev.cmds, r)[1] = dev.cmds[1] /\ Append(dev.cmds, r)[2] = r
            BY <2>3, <3>1, <4>1, AppendSecond
      <4>4. dev'.cmds \in Seq([name : Commands, power : GoodPowers])
            BY <3>1, <4>1, <4>2
      <4>5. dev'.cmds # <<>> /\ Head(dev'.cmds) = dev'.cmds[1] /\ 1..2 = {1, 2}
            BY <4>2, <4>3, <4>4
      <4> QED BY <4>2, <4>3, <4>5 DEF r
    <3>3. /\ dev'.cmds[1].name = "3" /\ dev'.cmds[1].power = ses.power
          /\ dev'.cmds[2].name = "v" /\ dev'.cmds[2].power = ses.power
          BY <2>3, <3>1, <3>2
    <3>4. QueueInv'
          BY <1>1, <1>8, <1>9, <1>n, <2>3, <3>2, <3>3 DEF QueueInv
    <3>5. StoppedInv'
          BY <1>1, <1>n, <2>3, <3>2, <3>3 DEF StoppedInv
    <3> QED BY <3>4, <3>5
  <2> QED BY <1>5, <2>1, <2>2, <2>3
<1>11. DeviceInv'
      BY <1>1, <1>2, <1>7, <1>n DEF SessionInv, DeviceInv, Doing
<1>12. FreshInv'
      BY <1>1, <1>2 DEF SessionInv, FreshInv, Doing, OnlyFreshTags
<1> QED BY <1>3, <1>4, <1>10, <1>11, <1>12 DEF SessionInv

\* The drain is over; a late answer to Stop may still come.
LEMMA DrainOverInv ==
  ASSUME SessionInv, ses.pc = "drain", ses' = [ses EXCEPT !.pc = "issue", !.plan = InitPlan],
         Pending' \subseteq Pending, chunks' \in Seq(Seq(Line)), Len(chunks') <= ChunkCap,
         UNCHANGED <<dev, link, wire, reconfig, cancelled, handed, budget>>
  PROVE  SessionInv'
<1>0. ses \in Sess /\ InitPlan \in Plans /\ InitPlan \in Seq(Commands) /\ Head(InitPlan) = "v"
      BY DEF SessionInv, SessionTypeOK, Sess, InitPlan, Plans, Commands, Settings
<1>1. /\ ses' \in Sess /\ ses'.pc = "issue" /\ ses'.plan = InitPlan /\ ses'.power = ses.power
      /\ ses'.inInit = ses.inInit /\ Command' = "v"
      BY <1>0 DEF Sess, SessionPcs, Command
<1>2. SessionTypeOK'
      BY <1>1 DEF SessionInv, SessionTypeOK, Sess
<1>3. ConnInv' /\ ses'.inInit
  <2>1. ses'.inInit /\ link # "closed"
        BY <1>1 DEF SessionInv, ConnInv
  <2> QED BY <1>0, <1>1, <2>1 DEF SessionInv, ConnInv
<1>4. QueueInv'
  <2>1. \A l \in Pending' : Shaped(l) /\ (l.kind = "tag" \/ l.code \in Codes')
        BY <1>1 DEF SessionInv, QueueInv, Codes, Doing
  <2>2. /\ dev.cmds = <<>> \/ (Len(dev.cmds) = 1 /\ dev.cmds[1].name = "3")
        /\ \A i \in DOMAIN dev.cmds : dev.cmds[i].power = ses.power
        BY DEF SessionInv, QueueInv
  <2> QED BY <1>1, <2>1, <2>2 DEF QueueInv
<1>5. DeviceInv'
      BY <1>1 DEF DeviceInv, Answer, Doing
<1>6. StoppedInv'
  <2>1. dev.cmds # <<>> => Head(dev.cmds).name = "3"
        BY DEF SessionInv, QueueInv, SessionTypeOK
  <2> QED BY <1>1, <2>1 DEF SessionInv, StoppedInv, Doing
<1>7. FreshInv'
      BY <1>3 DEF SessionInv, FreshInv, OnlyFreshTags
<1> QED BY <1>2, <1>3, <1>4, <1>5, <1>6, <1>7 DEF SessionInv

LEMMA DrainInv ==
  ASSUME SessionInv, DrainChunk \/ DrainSettled
  PROVE  SessionInv'
<1>t. wire \in Seq(Line) /\ chunks \in Seq(Seq(Line)) /\ Len(chunks) <= ChunkCap
      BY DEF SessionInv, SessionTypeOK
<1>0. ses.pc = "drain" /\ UNCHANGED <<dev, link, wire, reconfig, cancelled, handed, budget>>
      BY DEF DrainChunk, DrainSettled
<1>1. CASE DrainSettled
      BY <1>0, <1>1, <1>t, DrainOverInv DEF DrainSettled, Pending
<1>2. CASE DrainChunk
  <2>1. chunks # <<>> /\ chunks' = Tail(chunks)
        BY <1>2 DEF DrainChunk
  <2>2. /\ Tail(chunks) \in Seq(Seq(Line)) /\ Len(Tail(chunks)) <= Len(chunks)
        /\ Unread(wire, Tail(chunks)) \subseteq Unread(wire, chunks)
        BY <1>t, <2>1, ChunkTaken
  <2>3. Pending' \subseteq Pending /\ chunks' \in Seq(Seq(Line)) /\ Len(chunks') <= ChunkCap
        BY <1>0, <1>t, <2>1, <2>2, SessionConstants DEF Pending
  <2>4. CASE ses' = ses
    <3>1. OnlyFreshTags' /\ link # "closed"
          BY <1>0 DEF SessionInv, FreshInv, OnlyFreshTags, ConnInv
    <3>2. ConnInv' /\ QueueInv' /\ DeviceInv' /\ StoppedInv' /\ FreshInv'
          BY <1>0, <2>3, <2>4, <3>1, KeepInv
    <3>3. SessionTypeOK'
          BY <1>0, <2>3, <2>4 DEF SessionInv, SessionTypeOK
    <3> QED BY <1>0, <3>2, <3>3 DEF SessionInv
  <2>5. CASE ses' = [ses EXCEPT !.pc = "issue", !.plan = InitPlan]
        BY <1>0, <2>3, <2>5, DrainOverInv
  <2> QED BY <1>2, <2>4, <2>5 DEF DrainChunk
<1> QED BY <1>1, <1>2

\* The chunk with the awaited answer was taken: what is left are tags.
LEMMA AnsweredInv ==
  ASSUME SessionInv, ses.pc = "await", ses' = Answered, Answer,
         Pending' \subseteq Pending, \A l \in Pending' : After(l, Command),
         chunks' \in Seq(Seq(Line)), Len(chunks') <= ChunkCap, handed' \subseteq BOOLEAN, OnlyFreshTags',
         UNCHANGED <<dev, link, wire, reconfig, cancelled, budget>>
  PROVE  SessionInv'
<1> DEFINE a == Command
<1>0. ses \in Sess /\ ses.plan \in Plans /\ a = Head(ses.plan) /\ dev.cmds = <<>>
      BY DEF SessionInv, SessionTypeOK, Sess, ConnInv, Doing, DeviceInv, Command
<1>p. /\ Tail(ses.plan) \in Seq(Commands) /\ (Len(ses.plan) = 1 => a = "f")
      /\ Len(ses.plan) # 1 =>
            /\ Tail(ses.plan) \in Plans /\ a # "f" /\ Head(Tail(ses.plan)) \notin {"v", "3"}
            /\ Head(Tail(ses.plan)) \in {"i", "f"} => a \in {"p", "i"}
            /\ Head(Tail(ses.plan)) \in Settings => a \in Settings \cup {"3"}
      BY <1>0, PlanFacts
<1>l. \A l \in Pending' : Shaped(l) /\ l.kind = "tag"
      BY DEF SessionInv, QueueInv, After
<1>c. link # "closed"
      BY DEF SessionInv, ConnInv
<1>d. /\ link = "up" => /\ a \in {"i", "f"} => dev.power = ses.power
                        /\ a = "p" => dev.power = ses.power
                        /\ a = "f" => dev.inv
      /\ a = "f" => dev.began
      BY DEF SessionInv, DeviceInv, Doing
<1>s. link = "up" /\ budget["mute"] = Budget["mute"] /\ a \in Settings \cup {"3"} => ~dev.inv
      BY <1>0 DEF SessionInv, StoppedInv, Doing
<1>f. ~ses.inInit => dev.began /\ \A l \in Pending : l.kind = "tag" => l.fresh
      BY DEF SessionInv, FreshInv, Doing
<1>1. CASE Len(ses.plan) = 1
  <2>1. /\ ses' \in Sess /\ ses'.pc = "inv" /\ ses'.power = ses.power /\ ses'.inInit = FALSE
    <3>1. <<>> \in Seq(Commands)
          OBVIOUS
    <3> QED BY <1>0, <1>1, <3>1 DEF Answered, Sess, SessionPcs
  <2>2. SessionTypeOK'
        BY <2>1 DEF SessionInv, SessionTypeOK, Sess
  <2>3. ConnInv' /\ QueueInv'
        BY <1>0, <1>l, <1>c, <2>1 DEF SessionInv, ConnInv, QueueInv, Doing
  <2>4. DeviceInv' /\ StoppedInv'
        BY <1>1, <1>p, <1>d, <2>1 DEF DeviceInv, StoppedInv, Answer, Doing
  <2>5. FreshInv'
        BY <1>1, <1>p, <1>d DEF FreshInv, After
  <2> QED BY <2>2, <2>3, <2>4, <2>5 DEF SessionInv
<1>2. CASE Len(ses.plan) # 1
  <2>1. /\ ses' \in Sess /\ ses'.pc = "issue" /\ ses'.plan = Tail(ses.plan) /\ ses'.power = ses.power
        /\ ses'.inInit = ses.inInit
    <3>1. ses' = [ses EXCEPT !.pc = "issue", !.plan = Tail(ses.plan)]
          BY <1>2 DEF Answered
    <3> QED BY <1>0, <1>p, <3>1 DEF Sess, SessionPcs
  <2>n. Command' = Head(Tail(ses.plan))
        BY <2>1 DEF Command
  <2>2. SessionTypeOK'
        BY <2>1 DEF SessionInv, SessionTypeOK, Sess
  <2>3. ConnInv' /\ QueueInv'
    <3>1. ConnInv'
          BY <1>0, <1>2, <1>p, <1>c, <2>1 DEF SessionInv, ConnInv, Doing
    <3>2. QueueInv'
          BY <1>0, <1>l, <2>1 DEF QueueInv
    <3> QED BY <3>1, <3>2
  <2>4. DeviceInv'
        BY <1>0, <1>2, <1>p, <1>d, <2>1, <2>n DEF DeviceInv, Answer
  <2>5. StoppedInv'
        BY <1>2, <1>p, <1>s, <2>1, <2>n DEF StoppedInv
  <2>6. FreshInv'
        BY <1>f, <2>1 DEF FreshInv
  <2> QED BY <2>2, <2>3, <2>4, <2>5, <2>6 DEF SessionInv
<1> QED BY <1>1, <1>2

\* dispatch hands over tags of this connection only.
LEMMA DispatchFacts ==
  ASSUME SessionInv, NEW c, Range(c) \subseteq Pending, ses.pc \in {"await", "inv"}, Dispatch(c)
  PROVE  handed' \subseteq BOOLEAN /\ OnlyFreshTags'
<1>1. handed \subseteq BOOLEAN /\ FALSE \notin handed
      BY DEF SessionInv, SessionTypeOK, FreshInv, OnlyFreshTags
<1>2. CASE ses.inInit
      BY <1>1, <1>2 DEF Dispatch, OnlyFreshTags
<1>3. CASE ~ses.inInit
  <2>1. \A l \in Tags(c) : l.fresh = TRUE
    <3>1. \A l \in Pending : l \in Line /\ (l.kind = "tag" => l.fresh)
          BY <1>3 DEF SessionInv, FreshInv, QueueInv, Shaped, Doing
    <3> QED BY <3>1 DEF Tags, Line
  <2> QED BY <1>1, <1>3, <2>1 DEF Dispatch, OnlyFreshTags
<1> QED BY <1>2, <1>3

LEMMA AwaitChunkInv ==
  ASSUME SessionInv, AwaitChunk
  PROVE  SessionInv'
<1>t. wire \in Seq(Line) /\ chunks \in Seq(Seq(Line)) /\ Len(chunks) <= ChunkCap
      BY DEF SessionInv, SessionTypeOK
<1>0. /\ ses.pc = "await" /\ UNCHANGED <<dev, link, wire, reconfig, cancelled, budget>>
      /\ chunks # <<>> /\ chunks' = Tail(chunks) /\ Dispatch(Head(chunks))
      BY DEF AwaitChunk
<1>1. /\ Tail(chunks) \in Seq(Seq(Line)) /\ Len(Tail(chunks)) <= Len(chunks)
      /\ Unread(wire, Tail(chunks)) \subseteq Unread(wire, chunks) /\ Range(Head(chunks)) \subseteq Unread(wire, chunks)
      /\ InOrder(wire, chunks, Command) => InOrder(wire, Tail(chunks), Command)
      /\ InOrder(wire, chunks, Command) /\ (\E l \in Range(Head(chunks)) : l.code = Command)
           => \A l \in Unread(wire, Tail(chunks)) : After(l, Command)
      BY <1>0, <1>t, ChunkTaken
<1>2. Pending' \subseteq Pending /\ chunks' \in Seq(Seq(Line)) /\ Len(chunks') <= ChunkCap /\ Range(Head(chunks)) \subseteq Pending
      BY <1>0, <1>t, <1>1, SessionConstants DEF Pending
<1>3. InOrder(wire, chunks, Command)
      BY <1>0 DEF SessionInv, QueueInv
<1>4. handed' \subseteq BOOLEAN /\ OnlyFreshTags'
      BY <1>0, <1>2, DispatchFacts
<1>5. CASE ses' = ses
  <2>1. link # "closed"
        BY <1>0 DEF SessionInv, ConnInv
  <2>2. ConnInv' /\ QueueInv' /\ DeviceInv' /\ StoppedInv' /\ FreshInv'
        BY <1>0, <1>1, <1>2, <1>3, <1>4, <1>5, <2>1, KeepInv
  <2>3. SessionTypeOK'
        BY <1>0, <1>2, <1>4, <1>5 DEF SessionInv, SessionTypeOK
  <2> QED BY <1>0, <2>2, <2>3 DEF SessionInv
<1>6. CASE ses' = Answered /\ \E l \in Range(Head(chunks)) : Matches(Head(ses.plan), l)
  <2>1. \E l \in Range(Head(chunks)) : l.code = Command
        BY <1>6 DEF Matches, Command
  <2>2. Answer /\ \A l \in Pending' : After(l, Command)
        BY <1>0, <1>1, <1>2, <1>3, <2>1 DEF Answer, Pending
  <2> QED BY <1>0, <1>2, <1>4, <1>6, <2>2, AnsweredInv
<1> QED BY <1>5, <1>6 DEF AwaitChunk

LEMMA InvChunkInv ==
  ASSUME SessionInv, InvChunk
  PROVE  SessionInv'
<1>t. wire \in Seq(Line) /\ chunks \in Seq(Seq(Line)) /\ Len(chunks) <= ChunkCap
      BY DEF SessionInv, SessionTypeOK
<1>0. /\ ses.pc = "inv" /\ UNCHANGED <<dev, link, wire, ses, reconfig, cancelled, budget>>
      /\ chunks # <<>> /\ chunks' = Tail(chunks) /\ Dispatch(Head(chunks))
      BY DEF InvChunk
<1>1. /\ Tail(chunks) \in Seq(Seq(Line)) /\ Len(Tail(chunks)) <= Len(chunks)
      /\ Unread(wire, Tail(chunks)) \subseteq Unread(wire, chunks) /\ Range(Head(chunks)) \subseteq Unread(wire, chunks)
      BY <1>0, <1>t, ChunkTaken
<1>2. Pending' \subseteq Pending /\ chunks' \in Seq(Seq(Line)) /\ Len(chunks') <= ChunkCap /\ Range(Head(chunks)) \subseteq Pending
      BY <1>0, <1>t, <1>1, SessionConstants DEF Pending
<1>4. handed' \subseteq BOOLEAN /\ OnlyFreshTags' /\ link # "closed"
  <2>1. link # "closed"
        BY <1>0 DEF SessionInv, ConnInv
  <2> QED BY <1>0, <1>2, <2>1, DispatchFacts
<1>5. ConnInv' /\ QueueInv' /\ DeviceInv' /\ StoppedInv' /\ FreshInv'
      BY <1>0, <1>2, <1>4, KeepInv
<1>6. SessionTypeOK'
      BY <1>0, <1>2, <1>4 DEF SessionInv, SessionTypeOK
<1> QED BY <1>0, <1>5, <1>6 DEF SessionInv

LEMMA InvReconfigInv ==
  ASSUME SessionInv, InvReconfig
  PROVE  SessionInv'
<1>0. /\ ses.pc = "inv" /\ reconfig # NoPower /\ reconfig' = NoPower
      /\ UNCHANGED <<dev, link, wire, chunks, cancelled, handed, budget>>
      BY DEF InvReconfig
<1>1. ses \in Sess /\ OnlyFreshTags' /\ Pending' = Pending /\ link # "closed"
      BY <1>0 DEF SessionInv, SessionTypeOK, Sess, FreshInv, OnlyFreshTags, Pending, ConnInv
<1>2. CASE reconfig = BadPower
  <2>1. ses' = ses
        BY <1>2 DEF InvReconfig
  <2>2. ConnInv' /\ QueueInv' /\ DeviceInv' /\ StoppedInv' /\ FreshInv'
        BY <1>0, <1>1, <2>1, KeepInv
  <2>3. SessionTypeOK'
        BY <1>0, <2>1 DEF SessionInv, SessionTypeOK
  <2> QED BY <1>0, <2>2, <2>3 DEF SessionInv
<1>3. CASE reconfig # BadPower
  <2>0. ReconfigPlan \in Plans /\ ReconfigPlan \in Seq(Commands) /\ Head(ReconfigPlan) = "3" /\ reconfig \in GoodPowers
        BY <1>0, <1>3 DEF SessionInv, SessionTypeOK, ReconfigPlan, Plans, Commands, Settings
  <2>1. ses' = [ses EXCEPT !.pc = "issue", !.plan = ReconfigPlan, !.power = reconfig]
        BY <1>3 DEF InvReconfig
  <2>2. /\ ses' \in Sess /\ ses'.pc = "issue" /\ ses'.plan = ReconfigPlan /\ ses'.inInit = ses.inInit /\ Command' = "3"
        BY <1>1, <2>0, <2>1 DEF Sess, SessionPcs, Command
  <2>3. SessionTypeOK'
        BY <1>0, <2>2 DEF SessionInv, SessionTypeOK, Sess
  <2>4. ConnInv'
        BY <1>0, <1>1, <2>0, <2>2 DEF SessionInv, ConnInv
  <2>5. dev.cmds = <<>> /\ \A l \in Pending : Shaped(l) /\ l.kind = "tag"
        BY <1>0 DEF SessionInv, QueueInv, Codes, Doing
  <2>6. QueueInv'
        BY <1>0, <1>1, <2>2, <2>5 DEF QueueInv
  <2>7. DeviceInv' /\ StoppedInv'
        BY <2>2 DEF DeviceInv, StoppedInv, Answer, Settings
  <2>8. FreshInv'
        BY <1>0, <1>1, <2>2 DEF SessionInv, FreshInv
  <2> QED BY <1>0, <2>3, <2>4, <2>6, <2>7, <2>8 DEF SessionInv
<1> QED BY <1>2, <1>3

-----------------------------------------------------------------------------
(* The pump, the callers and the network *)

LEMMA PumpInv ==
  ASSUME SessionInv, Pump
  PROVE  SessionInv'
<1>t. wire \in Seq(Line) /\ chunks \in Seq(Seq(Line)) /\ Len(chunks) \in Nat
      BY DEF SessionInv, SessionTypeOK
<1>0. /\ UNCHANGED <<dev, link, ses, reconfig, cancelled, handed, budget>>
      /\ link # "closed" /\ Len(chunks) < ChunkCap
      BY DEF Pump
<1>1. PICK n \in 1..Len(wire) : /\ chunks' = Append(chunks, SubSeq(wire, 1, n))
                                /\ wire' = SubSeq(wire, n + 1, Len(wire))
      BY DEF Pump
<1>2. /\ wire' \in Seq(Line) /\ chunks' \in Seq(Seq(Line)) /\ Len(chunks') = Len(chunks) + 1
      /\ Unread(wire', chunks') \subseteq Unread(wire, chunks)
      /\ InOrder(wire, chunks, Command) => InOrder(wire', chunks', Command)
      BY <1>t, <1>1, LinesPumped
<1>3. Len(chunks') <= ChunkCap
      BY <1>t, <1>0, <1>2, SessionConstants
<1>4. SessionTypeOK'
      BY <1>0, <1>2, <1>3 DEF SessionInv, SessionTypeOK
<1>5. OnlyFreshTags' /\ Pending' \subseteq Pending /\ (ses.pc = "await" => InOrder(wire', chunks', Command))
      BY <1>0, <1>2 DEF SessionInv, FreshInv, OnlyFreshTags, Pending, QueueInv
<1>6. ConnInv' /\ QueueInv' /\ DeviceInv' /\ StoppedInv' /\ FreshInv'
      BY <1>0, <1>5, KeepInv
<1> QED BY <1>0, <1>4, <1>6 DEF SessionInv

LEMMA RequestPowerInv ==
  ASSUME SessionInv, NEW v \in GoodPowers \cup {BadPower}, RequestPower(v)
  PROVE  SessionInv'
<1>0. /\ UNCHANGED <<dev, link, wire, chunks, ses, cancelled, handed>> /\ Use("power")
      /\ reconfig' = IF reconfig = NoPower THEN v ELSE reconfig
      BY DEF RequestPower
<1>1. SessionTypeOK /\ budget["mute"] <= Budget["mute"]
      BY DEF SessionInv
<1>2. budget' \in [DOMAIN Budget -> Nat] /\ budget'["mute"] <= Budget["mute"] /\ budget'["mute"] = budget["mute"]
      BY <1>0, <1>1, UseFacts
<1>3. SessionTypeOK'
      BY <1>0, <1>1, <1>2 DEF SessionTypeOK
<1>4. /\ OnlyFreshTags' /\ Pending' \subseteq Pending /\ (ses.pc = "await" => InOrder(wire', chunks', Command))
      /\ link = "closed" => wire' = <<>> /\ chunks' = <<>>
      BY <1>0 DEF SessionInv, FreshInv, OnlyFreshTags, Pending, QueueInv, ConnInv
<1>5. ConnInv' /\ QueueInv' /\ DeviceInv' /\ StoppedInv' /\ FreshInv'
      BY <1>0, <1>2, <1>4, KeepInv
<1> QED BY <1>2, <1>3, <1>5 DEF SessionInv

\* The connection breaks: what was read stays, what was under way may be lost.
LEMMA BreakFacts ==
  ASSUME SessionInv, UNCHANGED <<chunks, ses, handed>>, wire' \in {wire, <<>>}
  PROVE  /\ OnlyFreshTags' /\ Pending' \subseteq Pending /\ (ses.pc = "await" => InOrder(wire', chunks', Command))
         /\ wire' \in Seq(Line) /\ (link = "closed" => wire' = <<>> /\ chunks' = <<>>)
<1>0. <<>> \in Seq(Line)
      OBVIOUS
<1>1. OnlyFreshTags' /\ wire' \in Seq(Line) /\ (link = "closed" => wire' = <<>> /\ chunks' = <<>>)
      BY <1>0 DEF SessionInv, FreshInv, OnlyFreshTags, SessionTypeOK, ConnInv
<1>2. Range(<<>>) = {} /\ DOMAIN <<>> = {}
      BY DEF Range
<1>3. Pending' \subseteq Pending
      BY <1>2 DEF Pending, Unread
<1>4. ses.pc = "await" => InOrder(wire', chunks', Command)
      BY <1>2 DEF SessionInv, QueueInv, InOrder
<1> QED BY <1>1, <1>3, <1>4

LEMMA LinkCutInv ==
  ASSUME SessionInv, LinkCut
  PROVE  SessionInv'
<1>0. /\ UNCHANGED <<chunks, ses, reconfig, cancelled, handed>> /\ Use("cut")
      /\ link = "up" /\ link' = "cut" /\ wire' \in {wire, <<>>}
      BY DEF LinkCut
<1>1. SessionTypeOK /\ budget["mute"] <= Budget["mute"]
      BY DEF SessionInv
<1>2. budget' \in [DOMAIN Budget -> Nat] /\ budget'["mute"] <= Budget["mute"]
      BY <1>0, <1>1, UseFacts
<1>3. dev' \in Devs /\ dev'.cmds = <<>> /\ dev'.began = dev.began
  <2>1. PICK inv \in BOOLEAN, p \in GoodPowers : dev' = [dev EXCEPT !.inv = inv, !.power = p, !.cmds = <<>>]
        BY DEF LinkCut
  <2>2. dev \in Devs /\ <<>> \in Seq([name : Commands, power : GoodPowers])
        BY <1>1 DEF SessionTypeOK, Devs
  <2> QED BY <2>1, <2>2 DEF Devs
<1>4. /\ OnlyFreshTags' /\ Pending' \subseteq Pending /\ (ses.pc = "await" => InOrder(wire', chunks', Command))
      /\ wire' \in Seq(Line) /\ (link = "closed" => wire' = <<>> /\ chunks' = <<>>)
      BY <1>0, BreakFacts
<1>5. SessionTypeOK'
      BY <1>0, <1>1, <1>2, <1>3, <1>4 DEF SessionTypeOK, Devs
<1>6. ConnInv' /\ QueueInv' /\ DeviceInv' /\ StoppedInv' /\ FreshInv'
      BY <1>0, <1>3, <1>4, KeepInv
<1> QED BY <1>2, <1>5, <1>6 DEF SessionInv

LEMMA CancelCtxInv ==
  ASSUME SessionInv, CancelCtx
  PROVE  SessionInv'
<1>0. /\ UNCHANGED <<chunks, ses, reconfig, handed>> /\ Use("cancel") /\ cancelled' = TRUE
      /\ link' = (IF link = "up" THEN "cut" ELSE link) /\ wire' = <<>>
      /\ dev' = [dev EXCEPT !.cmds = <<>>]
      BY DEF CancelCtx
<1>1. SessionTypeOK /\ budget["mute"] <= Budget["mute"]
      BY DEF SessionInv
<1>2. budget' \in [DOMAIN Budget -> Nat] /\ budget'["mute"] <= Budget["mute"]
      BY <1>0, <1>1, UseFacts
<1>3. dev' \in Devs /\ dev'.cmds = <<>> /\ dev'.began = dev.began
  <2>2. dev \in Devs /\ <<>> \in Seq([name : Commands, power : GoodPowers])
        BY <1>1 DEF SessionTypeOK, Devs
  <2> QED BY <1>0, <2>2 DEF Devs
<1>4. /\ OnlyFreshTags' /\ Pending' \subseteq Pending /\ (ses.pc = "await" => InOrder(wire', chunks', Command))
      /\ wire' \in Seq(Line) /\ (link = "closed" => wire' = <<>> /\ chunks' = <<>>)
      BY <1>0, BreakFacts
<1>5. SessionTypeOK'
      BY <1>0, <1>1, <1>2, <1>3, <1>4 DEF SessionTypeOK, Devs
<1>6. ConnInv' /\ QueueInv' /\ DeviceInv' /\ StoppedInv' /\ FreshInv'
  <2>1. CASE link # "closed"
    <3>1. link' = "cut"
          BY <1>0, <1>1, <2>1 DEF SessionTypeOK
    <3> QED BY <1>0, <1>3, <1>4, <2>1, <3>1, KeepInv
  <2>2. CASE link = "closed"
    <3>1. ses'.pc \in {"dial", "sleep", "end"} /\ link' = "closed" /\ wire' = <<>> /\ chunks' = <<>>
          BY <1>0, <1>4, <2>2 DEF SessionInv, ConnInv
    <3> QED BY <1>3, <1>4, <3>1, IdleInv
  <2> QED BY <2>1, <2>2
<1> QED BY <1>2, <1>5, <1>6 DEF SessionInv

-----------------------------------------------------------------------------
(* The reader *)

\* What a command does to a reader that executes it.
LEMMA ExecutedFacts ==
  ASSUME SessionInv, dev.cmds # <<>>
  PROVE  LET c == Head(dev.cmds)  d == Executed(c) IN
         /\ c = dev.cmds[1] /\ c \in [name : Commands, power : GoodPowers] /\ c.power = ses.power
         /\ d \in Devs /\ d.cmds = Tail(dev.cmds)
         /\ dev.began => d.began
         /\ c.name = "3" => ~d.inv
         /\ c.name = "f" => d.inv /\ d.began
         /\ c.name \in Settings => d.inv = dev.inv
         /\ c.name # "p" => d.power = dev.power
         /\ c.name = "p" /\ ~Ignored(c) => d.power = ses.power
<1> DEFINE c == Head(dev.cmds)
           d == Executed(c)
           i == IF c.name = "3" THEN FALSE ELSE c.name = "f" \/ dev.inv
           b == dev.began \/ c.name = "f"
           p == IF c.name = "p" /\ ~Ignored(c) THEN c.power ELSE dev.power
<1>1. dev \in Devs /\ dev.cmds \in Seq([name : Commands, power : GoodPowers]) /\ Len(dev.cmds) \in Nat \ {0}
      BY DEF SessionInv, SessionTypeOK, Devs
<1>2. c = dev.cmds[1] /\ c \in [name : Commands, power : GoodPowers] /\ 1 \in DOMAIN dev.cmds
  <2>1. c = dev.cmds[1] /\ 1 \in DOMAIN dev.cmds
        BY <1>1
  <2>2. dev.cmds[1] \in [name : Commands, power : GoodPowers]
    <3>1. 1 \in 1..Len(dev.cmds)
          BY <1>1
    <3> QED BY <1>1, <3>1, ElementOfSeq
  <2> QED BY <2>1, <2>2
<1>3. c.power = ses.power
      BY <1>2 DEF SessionInv, QueueInv
<1>4. Tail(dev.cmds) \in Seq([name : Commands, power : GoodPowers])
      BY <1>1
<1>5. i \in BOOLEAN /\ b \in BOOLEAN
      BY <1>1, Zenon DEF Devs
<1>6. p \in GoodPowers
      BY <1>1, <1>2 DEF Devs
<1>7. d = [dev EXCEPT !.cmds = Tail(dev.cmds), !.inv = i, !.began = b, !.power = p]
      BY DEF Executed
<1>8. /\ c.name = "3" => ~i
      /\ c.name = "f" => i /\ b
      /\ c.name \in Settings => i = dev.inv
      /\ dev.began => b
      BY <1>1 DEF Settings, Devs
<1>9. /\ c.name # "p" => p = dev.power
      /\ c.name = "p" /\ ~Ignored(c) => p = ses.power
      BY <1>3
<1> HIDE DEF c, d, i, b, p
<1>10. d \in Devs /\ d.cmds = Tail(dev.cmds) /\ d.inv = i /\ d.began = b /\ d.power = p
      BY <1>1, <1>4, <1>5, <1>6, <1>7 DEF Devs
<1> QED BY <1>2, <1>3, <1>8, <1>9, <1>10 DEF c, d

\* The queue after its first command is gone.
LEMMA QueueFacts ==
  ASSUME SessionInv, dev.cmds # <<>>
  PROVE  LET c == Head(dev.cmds)  q == Tail(dev.cmds) IN
         /\ link = "up" /\ ~Answer /\ ses.pc \in {"drain", "issue", "await"}
         /\ \A k \in DOMAIN q : q[k].power = ses.power
         /\ \/ q = <<>> /\ c.name = "3" /\ (ses.pc = "drain" \/ (ses.pc = "issue" /\ Command = "v"))
            \/ q = <<>> /\ c.name = Command /\ ses.pc = "await"
            \/ /\ Len(q) = 1 /\ q[1].name = "v" /\ Head(q).name = "v" /\ q # <<>> /\ c.name = "3"
               /\ ses.pc = "await" /\ Command = "v"
<1> DEFINE c == Head(dev.cmds)
           q == Tail(dev.cmds)
<1>1. dev.cmds \in Seq([name : Commands, power : GoodPowers]) /\ Len(dev.cmds) \in Nat \ {0}
      BY DEF SessionInv, SessionTypeOK
<1>2. /\ link = "up" /\ ~Answer
      BY DEF SessionInv, ConnInv, DeviceInv
<1>3. /\ c = dev.cmds[1] /\ q \in Seq([name : Commands, power : GoodPowers]) /\ Len(q) = Len(dev.cmds) - 1
      /\ DOMAIN q = 1..(Len(dev.cmds) - 1)
      /\ \A k \in 1..(Len(dev.cmds) - 1) : q[k] = dev.cmds[k + 1] /\ k + 1 \in DOMAIN dev.cmds
      BY <1>1
<1>4. \A k \in DOMAIN q : q[k].power = ses.power
      BY <1>3 DEF SessionInv, QueueInv
<1>5. Len(dev.cmds) = 1 => q = <<>>
      BY <1>3
<1>6. Len(dev.cmds) = 2 => Len(q) = 1 /\ q[1] = dev.cmds[2] /\ q # <<>> /\ Head(q) = q[1]
      BY <1>3
<1>7. \/ Len(dev.cmds) = 1 /\ c.name = "3" /\ (ses.pc = "drain" \/ (ses.pc = "issue" /\ Command = "v"))
      \/ Len(dev.cmds) = 1 /\ c.name = Command /\ ses.pc = "await"
      \/ /\ Len(dev.cmds) = 2 /\ c.name = "3" /\ dev.cmds[2].name = "v"
         /\ ses.pc = "await" /\ Command = "v"
      BY <1>3 DEF SessionInv, QueueInv
<1> QED BY <1>2, <1>4, <1>5, <1>6, <1>7

\* The reader takes its first command, and answers it or not.
LEMMA DeviceCommandInv ==
  ASSUME SessionInv, dev.cmds # <<>>, UNCHANGED <<link, chunks, ses, reconfig, cancelled, handed>>,
         budget' \in [DOMAIN Budget -> Nat], budget'["mute"] <= Budget["mute"],
         \/ /\ dev' = Executed(Head(dev.cmds)) /\ UNCHANGED budget
            /\ wire' = IF Ignored(Head(dev.cmds)) THEN wire ELSE Append(wire, Reply(Head(dev.cmds)))
         \/ /\ dev' = Executed(Head(dev.cmds)) \/ dev' = [dev EXCEPT !.cmds = Tail(@)]
            /\ wire' = wire /\ budget'["mute"] # Budget["mute"]
  PROVE  SessionInv'
<1> DEFINE c == Head(dev.cmds)
           q == Tail(dev.cmds)
<1>t. /\ wire \in Seq(Line) /\ chunks \in Seq(Seq(Line)) /\ ses \in Sess /\ dev \in Devs
      /\ q \in Seq([name : Commands, power : GoodPowers])
      BY DEF SessionInv, SessionTypeOK, Sess, Devs
<1>1. LET d == Executed(c) IN
      /\ c = dev.cmds[1] /\ c \in [name : Commands, power : GoodPowers] /\ c.power = ses.power
      /\ d \in Devs /\ d.cmds = q
      /\ dev.began => d.began
      /\ c.name = "3" => ~d.inv
      /\ c.name = "f" => d.inv /\ d.began
      /\ c.name \in Settings => d.inv = dev.inv
      /\ c.name # "p" => d.power = dev.power
      /\ c.name = "p" /\ ~Ignored(c) => d.power = ses.power
      BY ExecutedFacts
<1>2. /\ link = "up" /\ ~Answer /\ ses.pc \in {"drain", "issue", "await"}
      /\ \A k \in DOMAIN q : q[k].power = ses.power
      /\ \/ q = <<>> /\ c.name = "3" /\ (ses.pc = "drain" \/ (ses.pc = "issue" /\ Command = "v"))
         \/ q = <<>> /\ c.name = Command /\ ses.pc = "await"
         \/ /\ Len(q) = 1 /\ q[1].name = "v" /\ Head(q).name = "v" /\ q # <<>> /\ c.name = "3"
            /\ ses.pc = "await" /\ Command = "v"
      BY QueueFacts
<1>n. Command' = Command /\ Codes' = Codes
      BY DEF Command, Codes
<1>i. Ignored(c) <=> (dev.inv /\ c.name \in Settings)
      BY DEF Ignored
<1> HIDE DEF c, q
<1>3. dev' \in Devs /\ dev'.cmds = q /\ (dev.began => dev'.began) /\ (c.name # "p" => dev'.power = dev.power)
  <2>1. CASE dev' = Executed(c)
        BY <1>1, <2>1
  <2>2. CASE dev' = [dev EXCEPT !.cmds = q]
        BY <1>t, <2>2 DEF Devs
  <2> QED BY <2>1, <2>2 DEF c, q
<1>r. Reply(c) \in Line /\ Shaped(Reply(c)) /\ Reply(c).kind # "tag" /\ Reply(c).code = c.name
      BY <1>1 DEF Reply, Shaped, Line, Commands, Settings
<1>4. /\ wire' \in Seq(Line) /\ Pending' \subseteq Pending \cup {Reply(c)}
      /\ wire' = wire => Pending' = Pending
      /\ ses.pc = "await" => InOrder(wire', chunks', Command)
  <2>0. ses.pc = "await" => InOrder(wire, chunks, Command)
        BY DEF SessionInv, QueueInv
  <2>1. CASE wire' = wire
        BY <1>t, <2>0, <2>1 DEF Pending
  <2>2. CASE wire' = Append(wire, Reply(c))
    <3>1. /\ Append(wire, Reply(c)) \in Seq(Line)
          /\ Unread(Append(wire, Reply(c)), chunks) = Unread(wire, chunks) \cup {Reply(c)}
          /\ InOrder(wire, chunks, Command) /\ (\A m \in Unread(wire, chunks) : m.code # Command)
               => InOrder(Append(wire, Reply(c)), chunks, Command)
          BY <1>t, <1>r, LineSent
    <3>2. ses.pc = "await" => \A m \in Unread(wire, chunks) : m.code # Command
          BY <1>2 DEF Answer, Pending
    <3> QED BY <2>0, <2>2, <3>1, <3>2 DEF Pending
  <2> QED BY <2>1, <2>2 DEF c
<1>5. SessionTypeOK'
      BY <1>3, <1>4 DEF SessionInv, SessionTypeOK, Devs
<1>6. ConnInv'
      BY <1>2 DEF SessionInv, ConnInv
<1>7. QueueInv'
  <2>1. \A l \in Pending : Shaped(l) /\ (l.kind = "tag" \/ l.code \in Codes)
        BY DEF SessionInv, QueueInv
  <2>2. c.name \in Codes
        BY <1>2 DEF Codes, Doing
  <2>3. \A l \in Pending' : Shaped(l) /\ (l.kind = "tag" \/ l.code \in Codes')
        BY <1>4, <1>n, <1>r, <2>1, <2>2
  <2> QED BY <1>2, <1>3, <1>4, <1>n, <2>3 DEF QueueInv
<1>8. FreshInv'
  <2>1. \A l \in Pending' : l.kind = "tag" => l \in Pending
        BY <1>4, <1>r
  <2> QED BY <1>3, <2>1 DEF SessionInv, FreshInv, OnlyFreshTags
\* A new answer is the reply to c.
<1>9. Answer' => /\ c.name = Command /\ ses.pc = "await" /\ q = <<>> /\ dev' = Executed(c) /\ ~Ignored(c)
  <2> SUFFICES ASSUME Answer'
               PROVE  c.name = Command /\ ses.pc = "await" /\ q = <<>> /\ dev' = Executed(c) /\ ~Ignored(c)
      OBVIOUS
  <2>1. PICK l \in Pending' : l.code = Command
        BY <1>n DEF Answer
  <2>2. l \notin Pending /\ ses.pc = "await"
        BY <1>2, <2>1 DEF Answer
  <2>3. l = Reply(c) /\ wire' # wire
        BY <1>4, <2>1, <2>2
  <2>4. c.name = Command
        BY <1>r, <2>1, <2>3
  <2>5. dev' = Executed(c) /\ ~Ignored(c)
        BY <2>3 DEF c
  <2> QED BY <1>2, <2>2, <2>4, <2>5
<1>10. DeviceInv'
  <2>1. Answer' => dev'.cmds = <<>>
        BY <1>3, <1>9
  <2>2. Answer' /\ Command = "p" => dev'.power = ses.power
        BY <1>1, <1>9
  <2>3. Answer' /\ Command = "f" => dev'.inv /\ dev'.began
        BY <1>1, <1>9
  <2>4. ses.pc \in Doing /\ Command \in {"i", "f"} => dev'.power = ses.power
    <3>1. Command \in {"i", "f"} /\ ses.pc \in Doing => dev.power = ses.power
          BY <1>2 DEF SessionInv, DeviceInv
    <3>2. Command \in {"i", "f"} /\ ses.pc \in Doing => c.name # "p"
          BY <1>2 DEF Doing
    <3> QED BY <1>3, <3>1, <3>2
  <2> QED BY <1>2, <1>n, <2>1, <2>2, <2>3, <2>4 DEF DeviceInv
<1>11. StoppedInv'
  <2> SUFFICES ASSUME link' = "up", budget'["mute"] = Budget["mute"]
               PROVE  /\ ses.pc = "drain" /\ q = <<>> => ~dev'.inv
                      /\ ses.pc \in Doing /\ Command \in Settings /\ (q = <<>> \/ Head(q).name # "3") => ~dev'.inv
                      /\ ses.pc = "await" /\ Command = "3" /\ q = <<>> => ~dev'.inv
      BY <1>3, <1>n DEF StoppedInv
  <2>1. dev' = Executed(c) /\ budget["mute"] = Budget["mute"]
        BY DEF c
  <2>2. c.name = "3" => ~dev'.inv
        BY <1>1, <2>1
  <2>3. CASE c.name # "3"
    <3>1. c.name = Command /\ ses.pc = "await"
          BY <1>2, <2>3
    <3>2. Command \in Settings => ~dev.inv
          BY <1>2, <2>1, <2>3, <3>1 DEF SessionInv, StoppedInv, Doing, c
    <3>3. Command \in Settings => ~dev'.inv
          BY <1>1, <2>1, <3>1, <3>2
    <3> QED BY <2>3, <3>1, <3>3
  <2> QED BY <2>2, <2>3
<1> QED BY <1>5, <1>6, <1>7, <1>8, <1>10, <1>11 DEF SessionInv

LEMMA DeviceTagInv ==
  ASSUME SessionInv, DeviceTag
  PROVE  SessionInv'
<1> DEFINE l == [kind |-> "tag", code |-> "T", fresh |-> dev.began]
<1>0. /\ UNCHANGED <<dev, link, chunks, ses, reconfig, cancelled, handed, budget>>
      /\ link = "up" /\ wire' = Append(wire, l)
      BY DEF DeviceTag
<1>t. wire \in Seq(Line) /\ chunks \in Seq(Seq(Line)) /\ dev.began \in BOOLEAN
      BY DEF SessionInv, SessionTypeOK
<1>1. l \in Line /\ Shaped(l) /\ l.kind = "tag" /\ l.code = "T" /\ l.fresh = dev.began
      BY <1>t DEF Line, Shaped, Commands, Settings
<1> HIDE DEF l
<1>2. /\ Append(wire, l) \in Seq(Line)
      /\ Unread(Append(wire, l), chunks) = Unread(wire, chunks) \cup {l}
      /\ InOrder(wire, chunks, Command) /\ (After(l, Command) \/ \A m \in Unread(wire, chunks) : m.code # Command)
           => InOrder(Append(wire, l), chunks, Command)
      BY <1>t, <1>1, LineSent
<1>3. wire' \in Seq(Line) /\ Pending' = Pending \cup {l}
      BY <1>0, <1>2 DEF Pending
<1>n. Command' = Command /\ Codes' = Codes
      BY <1>0 DEF Command, Codes
<1>4. ses.pc = "await" => InOrder(wire', chunks', Command)
  <2> SUFFICES ASSUME ses.pc = "await" PROVE InOrder(wire', chunks', Command)
      OBVIOUS
  <2>1. InOrder(wire, chunks, Command)
        BY DEF SessionInv, QueueInv
  <2>2. CASE Answer
    <3>1. After(l, Command)
          BY <1>1, <2>2 DEF SessionInv, DeviceInv, After
    <3> QED BY <1>0, <1>2, <2>1, <3>1
  <2>3. CASE ~Answer
    <3>1. \A m \in Unread(wire, chunks) : m.code # Command
          BY <2>3 DEF Answer, Pending
    <3> QED BY <1>0, <1>2, <2>1, <3>1
  <2> QED BY <2>2, <2>3
<1>5. SessionTypeOK'
      BY <1>0, <1>3 DEF SessionInv, SessionTypeOK
<1>6. ConnInv'
      BY <1>0 DEF SessionInv, ConnInv
<1>7. QueueInv'
  <2>1. \A m \in Pending' : Shaped(m) /\ (m.kind = "tag" \/ m.code \in Codes')
        BY <1>1, <1>3, <1>n DEF SessionInv, QueueInv
  <2> QED BY <1>0, <1>4, <1>n, <2>1 DEF SessionInv, QueueInv
<1>8. Answer' => Answer
  <2>1. ses.pc = "await" => Command # "T"
    <3>1. ses.pc = "await" => Command \in Commands
          BY PlanFacts DEF SessionInv, ConnInv, Doing, Command
    <3> QED BY <3>1 DEF Commands, Settings
  <2> QED BY <1>0, <1>1, <1>3, <1>n, <2>1 DEF Answer
<1>9. DeviceInv'
      BY <1>0, <1>8, <1>n DEF SessionInv, DeviceInv
<1>10. StoppedInv'
      BY <1>0, <1>n DEF SessionInv, StoppedInv
<1>11. FreshInv'
      BY <1>0, <1>1, <1>3 DEF SessionInv, FreshInv, OnlyFreshTags
<1> QED BY <1>0, <1>5, <1>6, <1>7, <1>9, <1>10, <1>11 DEF SessionInv

LEMMA DeviceStepInv ==
  ASSUME SessionInv, DeviceStep
  PROVE  SessionInv'
<1>1. SessionTypeOK /\ budget["mute"] <= Budget["mute"]
      BY DEF SessionInv
<1>2. CASE DeviceHandle
  <2>1. /\ dev.cmds # <<>> /\ UNCHANGED <<link, chunks, ses, reconfig, cancelled, handed, budget>>
        /\ dev' = Executed(Head(dev.cmds))
        /\ wire' = IF Ignored(Head(dev.cmds)) THEN wire ELSE Append(wire, Reply(Head(dev.cmds)))
        BY <1>2 DEF DeviceHandle
  <2>2. budget' \in [DOMAIN Budget -> Nat] /\ budget'["mute"] <= Budget["mute"]
        BY <1>1, <2>1 DEF SessionTypeOK
  <2> QED BY <2>1, <2>2, DeviceCommandInv
<1>3. CASE DeviceMute
  <2>1. /\ dev.cmds # <<>> /\ UNCHANGED <<link, wire, chunks, ses, reconfig, cancelled, handed>> /\ Use("mute")
        /\ dev' = Executed(Head(dev.cmds)) \/ dev' = [dev EXCEPT !.cmds = Tail(@)]
        BY <1>3 DEF DeviceMute
  <2>2. budget' \in [DOMAIN Budget -> Nat] /\ budget'["mute"] <= Budget["mute"] /\ budget'["mute"] # Budget["mute"]
        BY <1>1, <2>1, UseFacts
  <2> QED BY <2>1, <2>2, DeviceCommandInv
<1>4. CASE DeviceTag
      BY <1>4, DeviceTagInv
<1>5. CASE LinkCut
      BY <1>5, LinkCutInv
<1> QED BY <1>2, <1>3, <1>4, <1>5 DEF DeviceStep

LEMMA SessionStepInv ==
  ASSUME SessionInv, SessionStep
  PROVE  SessionInv'
<1>1. CASE Issue
  <2>1. CASE CloseConn
        BY <1>1, <2>1, CloseInv
  <2>2. CASE ses.pc = "stop" /\ WriteCmd("3", "drain")
        BY <1>1, <2>2, WriteStopInv DEF Issue
  <2>3. CASE ses.pc = "issue" /\ WriteCmd(Head(ses.plan), "await")
        BY <1>1, <2>3, WriteNextInv DEF Issue
  <2> QED BY <1>1, <2>1, <2>2, <2>3 DEF Issue
<1>2. CASE DialOk
      BY <1>2, DialOkInv
<1>3. CASE SleepOver
      BY <1>3, WaitInv
<1>4. CASE DrainChunk \/ DrainSettled
      BY <1>4, DrainInv
<1>5. CASE AwaitChunk
      BY <1>5, AwaitChunkInv
<1>6. CASE CommandTimeout \/ ReadErr
      BY <1>6, CloseInv
<1>7. CASE InvChunk
      BY <1>7, InvChunkInv
<1>8. CASE InvReconfig
      BY <1>8, InvReconfigInv
<1>9. CASE CtxDone
      BY <1>9, WaitInv, CloseInv
<1> QED BY <1>1, <1>2, <1>3, <1>4, <1>5, <1>6, <1>7, <1>8, <1>9 DEF SessionStep

LEMMA SessionInvariance == SessionSpec => []SessionInv
<1>1. SessionInit => SessionInv
  <2> SUFFICES ASSUME SessionInit PROVE SessionInv
      OBVIOUS
  <2>1. /\ <<>> \in Seq(Line) /\ <<>> \in Seq(Seq(Line)) /\ <<>> \in Seq(Commands)
        /\ <<>> \in Seq([name : Commands, power : GoodPowers]) /\ Len(<<>>) <= ChunkCap
        /\ 0 \in 0..AttemptCap /\ Budget["mute"] \in Nat /\ Budget \in [DOMAIN Budget -> Nat]
        BY SessionConstants
  <2>2. ses \in Sess /\ ses.pc = "dial"
        BY <2>1, SessionConstants DEF SessionInit, Sess, SessionPcs
  <2>3. dev \in Devs /\ dev.cmds = <<>>
        BY <2>1 DEF SessionInit, Devs
  <2>4. SessionTypeOK /\ budget["mute"] <= Budget["mute"]
    <3>1. budget = Budget /\ cancelled \in BOOLEAN /\ handed \subseteq BOOLEAN /\ link \in {"closed", "up", "cut"}
          BY DEF SessionInit
    <3>2. budget \in [DOMAIN Budget -> Nat] /\ budget["mute"] <= Budget["mute"]
          BY <2>1, <3>1
    <3>3. wire \in Seq(Line) /\ chunks \in Seq(Seq(Line)) /\ Len(chunks) <= ChunkCap
          BY <2>1 DEF SessionInit
    <3>4. reconfig \in GoodPowers \cup {BadPower, NoPower}
          BY DEF SessionInit
    <3> QED BY <2>2, <2>3, <3>1, <3>2, <3>3, <3>4 DEF SessionTypeOK, Devs, Sess
  <2>5. Pending = {}
        BY DEF SessionInit, Pending, Unread, Range
  <2>6. ConnInv /\ QueueInv
        BY <2>2, <2>3, <2>5 DEF SessionInit, ConnInv, QueueInv, Doing
  <2>7. DeviceInv /\ StoppedInv /\ FreshInv
        BY <2>2 DEF SessionInit, DeviceInv, StoppedInv, FreshInv, OnlyFreshTags, Doing, Answer
  <2> QED BY <2>4, <2>6, <2>7 DEF SessionInv
<1>2. SessionInv /\ [SessionNext]_sessionVars => SessionInv'
  <2> SUFFICES ASSUME SessionInv, [SessionNext]_sessionVars PROVE SessionInv'
      OBVIOUS
  <2>1. CASE SessionStep
        BY <2>1, SessionStepInv
  <2>2. CASE DialFailed
        BY <2>2, WaitInv
  <2>3. CASE DeviceStep
        BY <2>3, DeviceStepInv
  <2>4. CASE Pump
        BY <2>4, PumpInv
  <2>5. CASE CancelCtx
        BY <2>5, CancelCtxInv
  <2>6. CASE \E v \in GoodPowers \cup {BadPower} : RequestPower(v)
        BY <2>6, RequestPowerInv
  <2>7. CASE UNCHANGED sessionVars
    <3>1. UNCHANGED <<dev, link, wire, chunks, ses, reconfig, cancelled, handed, budget>>
          BY <2>7 DEF sessionVars
    <3>2. SessionTypeOK'
          BY <3>1 DEF SessionInv, SessionTypeOK
    <3>3. OnlyFreshTags' /\ Pending' \subseteq Pending /\ (ses.pc = "await" => InOrder(wire', chunks', Command))
          BY <3>1 DEF SessionInv, FreshInv, OnlyFreshTags, Pending, QueueInv
    <3>4. link = "closed" => wire' = <<>> /\ chunks' = <<>>
          BY <3>1 DEF SessionInv, ConnInv
    <3>5. ConnInv' /\ QueueInv' /\ DeviceInv' /\ StoppedInv' /\ FreshInv'
          BY <3>1, <3>3, <3>4, KeepInv
    <3> QED BY <3>1, <3>2, <3>5 DEF SessionInv
  <2> QED BY <2>1, <2>2, <2>3, <2>4, <2>5, <2>6, <2>7 DEF SessionNext
<1> QED BY <1>1, <1>2, PTL DEF SessionSpec

(***************************************************************************)
(* Every tag that reaches admission was read by an inventory this          *)
(* connection started, in whatever chunks the lines arrive and whatever    *)
(* the reader was doing before (dispatch's inInit check).                  *)
(***************************************************************************)
THEOREM TagsAreFresh == SessionSpec => []OnlyFreshTags
<1>1. SessionInv => OnlyFreshTags
      BY DEF SessionInv, FreshInv
<1> QED BY <1>1, SessionInvariance, PTL

(***************************************************************************)
(* A session that believes it inventories over a live connection is right: *)
(* the reader has executed every command, inventories, and has the power   *)
(* last asked for (command, consumeUntil, reconfigure).                    *)
(***************************************************************************)
THEOREM InventoryIsReal == SessionSpec => []InventoryMeansRunning
<1>1. SessionInv => InventoryMeansRunning
  <2> SUFFICES ASSUME SessionInv, ses.pc = "inv", link = "up"
               PROVE  dev.inv /\ dev.cmds = <<>> /\ dev.power = ses.power
      BY DEF InventoryMeansRunning
  <2>1. dev.cmds = <<>>
        BY DEF SessionInv, QueueInv
  <2> QED BY <2>1 DEF SessionInv, DeviceInv
<1> QED BY <1>1, SessionInvariance, PTL

(***************************************************************************)
(* No setting reaches the reader while it inventories and would ignore it, *)
(* unless it lost a command: Stop comes first in initialise and in         *)
(* reconfigure, and a command is written only after the answer to the one  *)
(* before it (stopAndDrain, command).                                      *)
(***************************************************************************)
THEOREM SettingsTakeEffect == SessionSpec => []SettingsNotIgnored
<1>1. SessionInv => SettingsNotIgnored
  <2> SUFFICES ASSUME SessionInv, link = "up", dev.cmds # <<>>, Ignored(Head(dev.cmds)),
                      ~(budget["mute"] < Budget["mute"])
               PROVE  FALSE
      BY DEF SettingsNotIgnored
  <2>1. budget["mute"] = Budget["mute"]
    <3>1. Budget \in [{"dial", "cut", "mute", "late", "power", "cancel"} -> Nat]
          BY SessionConstants
    <3>2. budget \in [DOMAIN Budget -> Nat] /\ budget["mute"] <= Budget["mute"]
          BY DEF SessionInv, SessionTypeOK
    <3>3. "mute" \in DOMAIN Budget /\ Budget["mute"] \in Nat
          BY <3>1
    <3>4. budget["mute"] \in Nat
          BY <3>2, <3>3
    <3> QED BY <3>2, <3>3, <3>4
  <2>2. dev.inv /\ Head(dev.cmds).name \in Settings /\ Head(dev.cmds).name # "3"
        BY DEF Ignored, Settings
  <2>3. Head(dev.cmds).name = Command /\ ses.pc = "await"
        BY <2>2, QueueFacts
  <2> QED BY <2>1, <2>2, <2>3 DEF SessionInv, StoppedInv, Doing
<1> QED BY <1>1, SessionInvariance, PTL
=============================================================================
