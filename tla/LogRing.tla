------------------------------- MODULE LogRing -------------------------------
(***************************************************************************)
(* internal/gui/logring.go: the buffer between the hosted core's logger,   *)
(* which writes under its own mutex and must never wait for the GUI, and   *)
(* guiApp.flushRing, which sends the lines to the browsers.  Lines are     *)
(* numbered as they are written.                                           *)
(***************************************************************************)
EXTENDS Naturals, Sequences

CONSTANTS Cap,       \* capacity, 4096 in the code
          MaxLines   \* bound: lines written

ASSUME RingConstants == Cap \in Nat \ {0} /\ MaxLines \in Nat

VARIABLES buf,      \* LogRing.buf
          notify,   \* the one-slot notify channel
          dropped,  \* LogRing.dropped
          written,  \* lines written so far
          sent,     \* lines taken by Drain
          wpc,      \* the writer
          fpc       \* flushRing

ringVars == <<buf, notify, dropped, written, sent, wpc, fpc>>

RingTypeOK ==
    /\ buf \in Seq(Nat) /\ Len(buf) <= Cap
    /\ notify \in BOOLEAN
    /\ dropped \in Nat /\ written \in Nat /\ sent \in Nat
    /\ wpc \in {"append", "notify"} /\ fpc \in {"wait", "drain", "push"}

RingInit ==
    /\ buf = <<>> /\ notify = FALSE /\ dropped = 0 /\ written = 0 /\ sent = 0
    /\ wpc = "append" /\ fpc = "wait"

\* Write, under the mutex.
WriteAppend ==
    /\ wpc = "append" /\ written < MaxLines
    /\ written' = written + 1 /\ wpc' = "notify"
    /\ IF Len(buf) >= Cap
       THEN buf' = Append(Tail(buf), written') /\ dropped' = dropped + 1
       ELSE buf' = Append(buf, written') /\ UNCHANGED dropped
    /\ UNCHANGED <<notify, sent, fpc>>

\* A notify channel without a slot: only a waiting flushRing hears of the line.
MutWriteNotify ==
    /\ wpc = "notify"
    /\ notify' = (notify \/ fpc = "wait") /\ wpc' = "append"
    /\ UNCHANGED <<buf, dropped, written, sent, fpc>>

\* Write, after the mutex: the slot may already be full.
WriteNotify ==
    /\ wpc = "notify"
    /\ notify' = TRUE /\ wpc' = "append"
    /\ UNCHANGED <<buf, dropped, written, sent, fpc>>

\* flushRing receives from Notify.
FlushWake ==
    /\ fpc = "wait" /\ notify
    /\ notify' = FALSE /\ fpc' = "drain"
    /\ UNCHANGED <<buf, dropped, written, sent, wpc>>

\* Drain takes the whole buffer.
FlushDrain ==
    /\ fpc = "drain"
    /\ buf' = <<>> /\ sent' = sent + Len(buf) /\ fpc' = "push"
    /\ UNCHANGED <<notify, dropped, written, wpc>>

\* flushRing has handed the lines it took to PushLog.
FlushDone ==
    /\ fpc = "push" /\ fpc' = "wait"
    /\ UNCHANGED <<buf, notify, dropped, written, sent, wpc>>

RingNext == WriteAppend \/ WriteNotify \/ FlushWake \/ FlushDrain \/ FlushDone

RingSpec == RingInit /\ [][RingNext]_ringVars

-----------------------------------------------------------------------------
(* Properties *)

(***************************************************************************)
(* Every line is sent, buffered or counted as dropped, and the buffer      *)
(* holds the newest lines in order: a full ring loses the oldest lines and *)
(* Dropped tells how many (Write, Drain).                                  *)
(***************************************************************************)
LinesAccounted ==
    /\ written = sent + dropped + Len(buf)
    /\ \A i \in 1..Len(buf) : buf[i] = sent + dropped + i

(***************************************************************************)
(* No line waits in the ring with nobody about to fetch it: Write appends  *)
(* before it notifies and flushRing drains after it has received, so a     *)
(* notification that finds the slot full is never needed.                  *)
(***************************************************************************)
NoStrandedLines == buf # <<>> => notify \/ wpc = "notify" \/ fpc = "drain"
=============================================================================
