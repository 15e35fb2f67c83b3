------------------------------- MODULE Framer -------------------------------
(***************************************************************************)
(* internal/reader/protocol/framer.go: rebuilds CRLF frames from TCP       *)
(* chunks that may be cut anywhere.  A byte is CR, LF or any other byte.   *)
(* Push is one step for the append, one for each round of its loop and one *)
(* for its return; a framer has one caller, so nothing comes in between.   *)
(***************************************************************************)
EXTENDS Integers, Sequences

CONSTANTS MaxLine,     \* maxLine, DefaultMaxLine = 4096 in the code
          MaxChunk,    \* bound: bytes of one chunk
          MaxStream    \* bound: bytes of one connection

ASSUME FramerAssumption == {MaxLine, MaxChunk, MaxStream} \subseteq Nat \ {0}

VARIABLES buf,        \* Framer.buf
          dropping,   \* Framer.dropping
          pushing,    \* Push has not returned
          out,        \* ghost: what became of each frame, and where its CRLF was
          stream      \* ghost: every byte received

framerVars == <<buf, dropping, pushing, out, stream>>

Bytes    == {"CR", "LF", "x"}
Oversize == <<"TOO_LONG">>     \* a frame counted in FrameResult.Dropped
Frame    == [end : Nat, line : Seq(Bytes) \cup {Oversize}]

FramerTypeOK ==
  /\ buf \in Seq(Bytes)
  /\ dropping \in BOOLEAN
  /\ pushing \in BOOLEAN
  /\ out \in Seq(Frame)
  /\ stream \in Seq(Bytes)

FramerInit ==
  /\ buf = <<>> /\ dropping = FALSE /\ pushing = FALSE
  /\ out = <<>> /\ stream = <<>>

\* Where each CRLF of s begins.
Delimiters(s) == {i \in 1..(Len(s) - 1) : s[i] = "CR" /\ s[i + 1] = "LF"}

\* The end of a frame being dropped, a frame above the limit, or a line.
Verdict(frame) == IF dropping \/ Len(frame) > MaxLine THEN Oversize ELSE frame

\* Mutant: the trailing CR is forgotten with the rest of an oversized frame.
MutCut(rest) == IF Len(rest) > MaxLine THEN <<>> ELSE rest

\* Above the limit without a delimiter only a trailing CR is kept.
Cut(rest) ==
  IF Len(rest) > MaxLine
  THEN IF rest[Len(rest)] = "CR" THEN <<"CR">> ELSE <<>>
  ELSE rest

\* A chunk arrives.
Push(chunk) ==
  /\ ~pushing
  /\ pushing' = TRUE
  /\ buf' = buf \o chunk
  /\ stream' = stream \o chunk
  /\ UNCHANGED <<dropping, out>>

\* One round of the loop: the first CRLF of the buffer, at i, ends a frame.
Round(i) ==
  /\ pushing
  /\ \A j \in Delimiters(buf) : i <= j
  /\ out' = Append(out, [end  |-> Len(stream) - Len(buf) + i,
                         line |-> Verdict(SubSeq(buf, 1, i - 1))])
  /\ dropping' = FALSE
  /\ buf' = SubSeq(buf, i + 2, Len(buf))
  /\ UNCHANGED <<pushing, stream>>

\* No CRLF is left: an overlong rest is dropped from here on.
Return ==
  /\ pushing
  /\ Delimiters(buf) = {}
  /\ pushing' = FALSE
  /\ dropping' = (dropping \/ Len(buf) > MaxLine)
  /\ buf' = Cut(buf)
  /\ UNCHANGED <<out, stream>>

Chunks(n) == UNION {[1..k -> Bytes] : k \in 1..n}

FramerNext ==
  \/ \E chunk \in Chunks(MaxChunk) : Len(stream) + Len(chunk) <= MaxStream /\ Push(chunk)
  \/ \E i \in Delimiters(buf) : Round(i)
  \/ Return

FramerSpec == FramerInit /\ [][FramerNext]_framerVars

----------------------------------------------------------------------------

\* The k-th frame of the stream: what lies between two CRLFs.
Start(k) == IF k = 1 THEN 1 ELSE out[k - 1].end + 2
FrameOf(k) == SubSeq(stream, Start(k), out[k].end - 1)

\* However the connection cuts the stream into chunks, the frames that come out
\* are those between the CRLFs of the whole stream, each once and in order: one
\* below the limit whole, one above it as dropped.  An overlong frame never
\* swallows or splits its neighbour (Push, the dropping flag and the kept CR).
FramesSurviveChunking ==
  /\ \A k \in 2..Len(out) : out[k - 1].end < out[k].end
  /\ \A k \in 1..Len(out) : /\ out[k].end \in Delimiters(stream)
                            /\ out[k].line \in {FrameOf(k), Oversize}
                            /\ Len(FrameOf(k)) < MaxLine => out[k].line = FrameOf(k)
                            /\ Len(FrameOf(k)) > MaxLine => out[k].line = Oversize
  /\ ~pushing => \A d \in Delimiters(stream) : \E k \in 1..Len(out) : out[k].end = d
=============================================================================
