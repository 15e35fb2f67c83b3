------------------------------- MODULE Sender -------------------------------
(***************************************************************************)
(* internal/sender/sender.go: the single delivery loop.  One step per      *)
(* statement of Run and deliver that reads or writes shared state; the     *)
(* values read earlier (now, the sendable readers, the selected row) are   *)
(* kept in snd and may be stale when they are used.                        *)
(***************************************************************************)
EXTENDS Admission

VARIABLES snd,       \* the sender goroutine
          answered   \* ghost: rows the server has given a terminal answer for

senderVars == <<snd, answered>>

SenderPcs == {"loop", "query", "idle", "wait", "errwait", "expire", "post"} \cup Decisions
               \cup {"suspend", "persist", "halt"}

\* now: the clock at selection; id .. attempts: the selected row as it was
\* read; until: when the idle timer fires; lag: how long after reading now it
\* was started.
Idle == [pc |-> "loop", now |-> 0, readers |-> {}, id |-> 0, reader |-> Empty,
         checked |-> 0, attempts |-> 0, until |-> 0, lag |-> 0]

SenderRecord == [pc : SenderPcs, now : Nat, readers : SUBSET Readers, id : Nat,
                 reader : Readers \cup {Empty}, checked : Nat, attempts : Nat, until : Nat, lag : Int]

SenderTypeOK ==
  /\ snd \in SenderRecord
  /\ answered \subseteq 1..(nextId - 1)

SenderInit == snd = Idle /\ answered = {}

Goto(pc) == snd' = [snd EXCEPT !.pc = pc]

Sleep(pc, d) == snd' = [Idle EXCEPT !.pc = pc, !.until = clock + d, !.lag = clock - snd.now]

BackoffDelay(failed) == IF failed <= 1 THEN Backoff1 ELSE IF failed = 2 THEN Backoff2 ELSE Backoff3

----------------------------------------------------------------------------
(* Run *)

\* Loop top: a halted sender only waits; otherwise read the clock and gates.
SenderLoop ==
  /\ Running
  /\ snd.pc = "loop"
  /\ \/ /\ global = "HALTED_REQUEST_BUG"
        /\ Sleep("wait", MaxIdle)
     \/ /\ global = "RUNNING"
        /\ snd' = [Idle EXCEPT !.pc = "query", !.now = clock, !.readers = SendableReaders]
  /\ UNCHANGED <<spent, storeVars, registryVars, wake, answered>>

\* NextDue on the readers read at the loop top.  An expired row is not sent.
SenderQuery ==
  /\ Alive
  /\ snd.pc = "query"
  /\ \/ \E id \in DOMAIN queue :
          /\ IsNextDue(id, snd.now, snd.readers)
          /\ snd' = [Idle EXCEPT !.pc = IF queue[id].checked < snd.now - MaxAge THEN "expire" ELSE "post",
                                 !.now = snd.now, !.id = id, !.reader = queue[id].reader,
                                 !.checked = queue[id].checked, !.attempts = queue[id].attempts]
          /\ UNCHANGED spent
     \/ /\ Due(snd.now, snd.readers) = {}
        /\ snd' = [Idle EXCEPT !.pc = "idle", !.now = snd.now]
        /\ UNCHANGED spent
     \/ /\ Spend("db")
        /\ Sleep("errwait", ErrWait)
  /\ UNCHANGED <<storeVars, registryVars, wake, answered>>

Clamp(d) == IF d < 0 THEN 0 ELSE IF d > MaxIdle THEN MaxIdle ELSE d

\* idleWait reads gates and queue again; the timer starts now.
SenderIdle ==
  /\ Alive
  /\ snd.pc = "idle"
  /\ \/ RowsOf(SendableReaders) = {} /\ Sleep("wait", MaxIdle) /\ UNCHANGED spent
     \/ \E i \in DOMAIN queue : /\ IsEarliest(i, SendableReaders)
                               /\ Sleep("wait", Clamp(queue[i].next - snd.now))
                               /\ UNCHANGED spent
     \/ Spend("db") /\ Sleep("errwait", MaxIdle)
  /\ UNCHANGED <<storeVars, registryVars, wake, answered>>

\* Mutant: the wait has no timer.
MutWaitNoTimer ==
  /\ Running
  /\ snd.pc \in {"wait", "errwait"}
  /\ \/ wake = 1 /\ wake' = 0 /\ UNCHANGED changed
     \/ changed = 1 /\ changed' = 0 /\ UNCHANGED wake
  /\ snd' = Idle
  /\ UNCHANGED <<spent, storeVars, entry, global, answered>>

\* waitSignal: whichever of the two channels or the timer is ready.
SenderWait ==
  /\ Running
  /\ snd.pc \in {"wait", "errwait"}
  /\ \/ wake = 1 /\ wake' = 0 /\ UNCHANGED changed
     \/ changed = 1 /\ changed' = 0 /\ UNCHANGED wake
     \/ clock >= snd.until /\ UNCHANGED <<wake, changed>>
  /\ snd' = Idle
  /\ UNCHANGED <<spent, storeVars, entry, global, answered>>

----------------------------------------------------------------------------
(* deliver *)

\* Past its maximum age the row is deleted without a call.
SenderExpire ==
  /\ Alive
  /\ snd.pc = "expire"
  /\ OrFail(CompleteRow(snd.id))
  /\ snd' = Idle
  /\ UNCHANGED <<registryVars, wake, answered>>

\* deliver goes on with what Classify says of the result, whatever the server meant.
Received(outcome, results) ==
  /\ snd' \in {[snd EXCEPT !.pc = Classify(r)] : r \in results}
  /\ answered' = IF outcome \in Decided THEN answered \cup {snd.id} ELSE answered

\* The POST in flight returns.
SenderAnswer ==
  /\ Alive
  /\ snd.pc = "post"
  /\ \/ \E o \in Routine : Received(o, Replies[o]) /\ UNCHANGED spent
     \/ Spend("revoke") /\ Received("revoked", Replies["revoked"])
     \/ Spend("bug") /\ Received("bindbug", Replies["bindbug"])
     \/ Spend("net") /\ Received("trouble", Replies["trouble"])
     \/ NetFault /\ Received("unheard", Lost)
  /\ UNCHANGED <<storeVars, registryVars, wake>>

SenderComplete ==
  /\ Alive
  /\ snd.pc \in {"COMPLETE", "DROP"}
  /\ OrFail(CompleteRow(snd.id))
  /\ snd' = Idle
  /\ UNCHANGED <<registryVars, wake, answered>>

\* The delay counts from the time read before the POST.
RetryAt == snd.now + BackoffDelay(snd.attempts + 1)

SenderRetry ==
  /\ Alive
  /\ snd.pc = "RETRY"
  /\ OrFail(RetryLater(snd.id, RetryAt))
  /\ snd' = Idle
  /\ UNCHANGED <<registryVars, wake, answered>>

\* Token revoked: delete the row (a failure is only logged), suspend in
\* memory, persist the suspension - with an empty fingerprint.
RevokedPut == [state |-> "SUSPENDED_TOKEN", fp |-> Empty, meta |-> Empty]

SenderRevoked ==
  /\ Alive
  /\ snd.pc = "SUSPEND_READER"
  /\ OrFail(CompleteRow(snd.id))
  /\ Goto("suspend")
  /\ UNCHANGED <<registryVars, wake, answered>>

SenderSuspend ==
  /\ Alive
  /\ snd.pc = "suspend"
  /\ SetEntry(snd.reader, RevokedPut)
  /\ Goto("persist")
  /\ UNCHANGED <<spent, storeVars, wake, answered>>

SenderPersist ==
  /\ Alive
  /\ snd.pc = "persist"
  /\ OrFail(SetGate(snd.reader, RevokedPut))
  /\ snd' = Idle
  /\ UNCHANGED <<registryVars, wake, answered>>

\* error bind: keep the row, stop all sending.
SenderMark ==
  /\ Alive
  /\ snd.pc = "HALT_GLOBAL"
  /\ OrFail(MarkAttemptKeepDue(snd.id))
  /\ Goto("halt")
  /\ UNCHANGED <<registryVars, wake, answered>>

SenderHalt ==
  /\ Alive
  /\ snd.pc = "halt"
  /\ HaltGlobal
  /\ snd' = Idle
  /\ UNCHANGED <<spent, storeVars, wake, answered>>

SenderStep ==
  /\ \/ SenderLoop \/ SenderQuery \/ SenderIdle \/ SenderWait
     \/ SenderExpire \/ SenderAnswer \/ SenderComplete \/ SenderRetry
     \/ SenderRevoked \/ SenderSuspend \/ SenderPersist
     \/ SenderMark \/ SenderHalt
  /\ UNCHANGED <<clock, clockMax, life, cfgToken, adm>>
=============================================================================
