----------------------------- MODULE Middleware -----------------------------
(***************************************************************************)
(* internal/app: the whole delivery core.  Start-up restores the gates     *)
(* from the database and starts the goroutines of the modules below; a     *)
(* sweeper expires rows; a crash or a stop ends the process at any point,  *)
(* keeping only the database; and while it is down the operator may edit a *)
(* token or run "queue resume".                                            *)
(***************************************************************************)
EXTENDS Preflight

VARIABLES sw,          \* the sweeper goroutine
          discarded,   \* ghost: rows the operator discarded
          released     \* ghost: rows the operator released with resume --pending send

operatorVars == <<discarded, released>>
vars == <<runtimeVars, storeVars, registryVars, admissionVars, senderVars, gateTaskVars, sw, operatorVars>>

SweeperTypeOK ==
  /\ sw \in [pc : {"sleep", "cleanup"}, now : Nat]
  /\ discarded \subseteq 1..(nextId - 1)
  /\ released \subseteq 1..(nextId - 1)

SleepingSweeper == [pc |-> "sleep", now |-> 0]

Init ==
  /\ RuntimeInit /\ StoreInit /\ RegistryInit /\ AdmissionInit /\ SenderInit /\ PreflightInit
  /\ sw = SleepingSweeper
  /\ discarded = {} /\ released = {}

----------------------------------------------------------------------------
(* The sweeper: expire, then clean debounce marks, by one reading of the clock *)

Keep == IF 2 * Debounce < MinKeep THEN MinKeep ELSE 2 * Debounce

SweepExpire ==
  /\ Running
  /\ sw.pc = "sleep"
  /\ \/ ExpireBefore(clock - MaxAge) /\ Spend("sweep")
     \/ Spend("db") /\ UNCHANGED storeVars
  /\ sw' = [pc |-> "cleanup", now |-> clock]

SweepCleanup ==
  /\ Alive
  /\ sw.pc = "cleanup"
  /\ OrFail(CleanupDebounce(sw.now - Keep))
  /\ sw' = SleepingSweeper

SweepStep ==
  /\ SweepExpire \/ SweepCleanup
  /\ UNCHANGED <<clock, clockMax, life, cfgToken, registryVars, admissionVars, senderVars,
                 gateTaskVars, operatorVars>>

----------------------------------------------------------------------------
(* Start, crash, stop *)

\* Mutant: a revoked token's suspension is lifted whatever token is configured.
MutTokenReplaced(r) == gateRow[r].state = "SUSPENDED_TOKEN" /\ Pending(r) = {}

\* A revoked token's suspension is lifted if the configured token differs
\* from the recorded one and nothing is pending.
TokenReplaced(r) ==
  /\ gateRow[r].state = "SUSPENDED_TOKEN"
  /\ cfgToken[r] # gateRow[r].fp
  /\ Pending(r) = {}

\* Mutant: the stored state is trusted as it is.
MutTrustStored(r, lifted) == IF gateRow[r] = NoRow THEN "PREFLIGHT_PENDING" ELSE gateRow[r].state

\* Mutant: any suspension is lifted once a different token is configured.
MutLiftAny(r, lifted) ==
  IF Suspended(gateRow[r].state) /\ (cfgToken[r] = gateRow[r].fp \/ Pending(r) # {})
  THEN gateRow[r].state ELSE "PREFLIGHT_PENDING"

\* Only a suspension outlives the process; all else is verified again.
RestoredState(r, lifted) ==
  IF Suspended(gateRow[r].state) /\ r \notin lifted THEN gateRow[r].state ELSE "PREFLIGHT_PENDING"

ReplacedPut(r) == [state |-> "PREFLIGHT_PENDING", fp |-> cfgToken[r], meta |-> Empty]

\* The goroutines of a process that has just started, or is not there.
FreshProcesses ==
  /\ adm' = [r \in Readers |-> IdleHandler]
  /\ wake' = 0
  /\ snd' = Idle
  /\ mr' = [r \in Readers |-> Task("sleep")]
  /\ sw' = SleepingSweeper
  /\ global' = "RUNNING"
  /\ changed' = 0

\* NoRow gives a fresh entry.  The fingerprint in memory stays the recorded one.
RestoreGates(lifted, saved) ==
  /\ entry' = [r \in Readers |->
                 [state |-> RestoredState(r, lifted), fp |-> gateRow[r].fp, meta |-> gateRow[r].meta]]
  /\ gateRow' = [r \in Readers |->
                   IF r \in saved THEN UpsertGate(gateRow[r], ReplacedPut(r)) ELSE gateRow[r]]

\* Run: restore the gates, start a preflight for each one not suspended.  A
\* failed pending count keeps the suspension, a failed write only its row.
Start ==
  LET replaced == {r \in Readers : TokenReplaced(r)} IN
  /\ life = "down"
  /\ life' = "up"
  /\ \/ RestoreGates(replaced, replaced) /\ UNCHANGED spent
     \/ /\ Spend("db")
        /\ \E r \in replaced : \/ RestoreGates(replaced \ {r}, replaced \ {r})
                              \/ RestoreGates(replaced, replaced \ {r})
  /\ pf' = [r \in Readers |-> Task(IF Suspended(entry'[r].state) THEN "off" ELSE "attempt")]
  /\ FreshProcesses
  /\ UNCHANGED <<clock, clockMax, cfgToken, queue, nextId, debounce, accepted, answered, operatorVars>>

\* Memory is gone; the values of a dead process are irrelevant.
Die ==
  /\ life' = "down"
  /\ entry' = [r \in Readers |-> FreshEntry]
  /\ pf' = [r \in Readers |-> Task("off")]
  /\ FreshProcesses
  /\ UNCHANGED <<clock, clockMax, cfgToken, storeVars, answered, operatorVars>>

Crash == Alive /\ Spend("crash") /\ Die

\* The context is cancelled: no goroutine starts anything new.
Cancel ==
  /\ Running
  /\ Spend("stop")
  /\ life' = "stopping"
  /\ UNCHANGED <<clock, clockMax, cfgToken, storeVars, registryVars, admissionVars, senderVars,
                 gateTaskVars, sw, operatorVars>>

\* Mutant: shutdown does not wait for the sender.
MutStopInFlight ==
  /\ life = "stopping"
  /\ \A r \in Readers : /\ adm[r].pc = "idle"
                        /\ pf[r].pc \in {"off", "attempt", "backoff"}
                        /\ mr[r].pc = "sleep"
  /\ sw.pc = "sleep"
  /\ Die
  /\ UNCHANGED spent

\* wg.Wait: every goroutine has finished what it was doing.
Stopped ==
  /\ life = "stopping"
  /\ \A r \in Readers : /\ adm[r].pc = "idle"
                        /\ pf[r].pc \in {"off", "attempt", "backoff"}
                        /\ mr[r].pc = "sleep"
  /\ snd.pc \in {"loop", "wait", "errwait"}
  /\ sw.pc = "sleep"
  /\ Die
  /\ UNCHANGED spent

----------------------------------------------------------------------------
(* The operator, while the process is down *)

EditToken(r) ==
  /\ life = "down"
  /\ Spend("token")
  /\ cfgToken' \in {[cfgToken EXCEPT ![r] = t] : t \in Tokens \ {cfgToken[r]}}
  /\ ValidTokens(cfgToken')
  /\ UNCHANGED <<clock, clockMax, life, storeVars, registryVars, admissionVars, senderVars,
                 gateTaskVars, sw, operatorVars>>

ResumedPut(r) == [state |-> "PREFLIGHT_PENDING", fp |-> gateRow[r].fp, meta |-> Empty]

\* QueueResume --pending send: the rows stay and go out after the next start.
ResumeSend(r) ==
  /\ life = "down"
  /\ Suspended(gateRow[r].state)
  /\ \/ /\ SetGate(r, ResumedPut(r))
        /\ released' = released \cup Pending(r)
        /\ UNCHANGED spent
     \/ Spend("db") /\ UNCHANGED <<storeVars, released>>
  /\ UNCHANGED <<clock, clockMax, life, cfgToken, registryVars, admissionVars, senderVars,
                 gateTaskVars, sw, discarded>>

\* Mutant: the command does not need the process to be down.
MutResumeDiscard(r) ==
  /\ Suspended(gateRow[r].state)
  /\ queue' = [i \in DOMAIN queue \ Pending(r) |-> queue[i]]
  /\ discarded' = discarded \cup Pending(r)
  /\ gateRow' = [gateRow EXCEPT ![r] = UpsertGate(@, ResumedPut(r))]
  /\ UNCHANGED <<runtimeVars, nextId, debounce, accepted, registryVars,
                 admissionVars, senderVars, gateTaskVars, sw, released>>

\* QueueResume --pending discard: two writes; the second may fail alone.
ResumeDiscard(r) ==
  /\ life = "down"
  /\ Suspended(gateRow[r].state)
  /\ queue' = [i \in DOMAIN queue \ Pending(r) |-> queue[i]]
  /\ discarded' = discarded \cup Pending(r)
  /\ \/ /\ gateRow' = [gateRow EXCEPT ![r] = UpsertGate(@, ResumedPut(r))]
        /\ UNCHANGED spent
     \/ Spend("db") /\ UNCHANGED gateRow
  /\ UNCHANGED <<clock, clockMax, life, cfgToken, nextId, debounce, accepted, registryVars,
                 admissionVars, senderVars, gateTaskVars, sw, released>>

----------------------------------------------------------------------------

\* Timers are monotonic: when the wall clock is set back, the wall time at
\* which a running one fires moves back with it.
TimerMoved == LET t == snd.until - (clock - clock') IN IF t < 0 THEN 0 ELSE t

ClockStep ==
  /\ \/ Tick /\ UNCHANGED snd
     \/ ClockBack /\ snd' = [snd EXCEPT !.until = TimerMoved]
  /\ UNCHANGED <<storeVars, registryVars, admissionVars, answered, gateTaskVars, sw, operatorVars>>

AdmitStep ==
  /\ AdmissionStep
  /\ UNCHANGED <<senderVars, gateTaskVars, sw, operatorVars>>

SendStep ==
  /\ SenderStep
  /\ UNCHANGED <<gateTaskVars, sw, operatorVars>>

GateStep ==
  /\ PreflightStep \/ RefreshStep
  /\ UNCHANGED <<sw, operatorVars>>

OperatorStep == \E r \in Readers : EditToken(r) \/ ResumeSend(r) \/ ResumeDiscard(r)

Next == \/ ClockStep \/ AdmitStep \/ SendStep \/ GateStep \/ SweepStep
        \/ Start \/ Crash \/ Cancel \/ Stopped \/ OperatorStep

Spec == Init /\ [][Next]_vars

----------------------------------------------------------------------------
(* Fairness.  Goroutines run, HTTP calls return (the client has a timeout), *)
(* time passes and the service manager starts the process again; scans,     *)
(* faults, sweeps and the operator owe nothing.                             *)

\* Past MaxClock the clock only runs while a delivery is waiting for it.
LateTick ==
  /\ global = "RUNNING"
  /\ \E i \in RowsOf(SendableReaders) : clock < queue[i].next \/ clock < snd.until
  /\ clock >= MaxClock
  /\ clock' = clock + 1
  /\ clockMax' = clock + 1
  /\ UNCHANGED <<life, cfgToken, spent, storeVars, registryVars, admissionVars, senderVars,
                 gateTaskVars, sw, operatorVars>>

FinishAdmission ==
  /\ AdmitStep
  /\ \E r \in Readers : adm[r].pc # "idle" /\ adm'[r] # adm[r]

RunPreflight == PreflightStep /\ UNCHANGED <<sw, operatorVars>>

Fairness ==
  /\ WF_vars(FinishAdmission)
  /\ WF_vars(SendStep)
  /\ WF_vars(RunPreflight)
  /\ WF_vars(ClockStep \/ LateTick)
  /\ WF_vars(Start)
  /\ WF_vars(Stopped)

LiveSpec == Init /\ [][Next \/ LateTick]_vars /\ Fairness

----------------------------------------------------------------------------
(* Properties *)

\* Every table, registry entry and goroutine is in its domain.
TypeOK ==
  /\ RuntimeTypeOK /\ StoreTypeOK /\ RegistryTypeOK /\ AdmissionTypeOK
  /\ SenderTypeOK /\ PreflightTypeOK /\ SweeperTypeOK

\* An accepted scan is never lost: whatever crashes, fails or races, its row is
\* still queued, or the server has answered it, or the operator discarded it,
\* or it has outlived queueMaxAgeHours (Complete, ExpireBefore, DiscardPending
\* are the only deletions).
NoSilentLoss ==
  \A i \in 1..(nextId - 1) :
    \/ i \in DOMAIN queue
    \/ i \in answered
    \/ i \in discarded
    \/ accepted[i].checked + MaxAge < clockMax

\* A row keeps the reader, the tag and the scan time it was accepted with over
\* all retries, in the table and in the sender's copy of it (RetryLater,
\* MarkAttemptKeepDue).
RowIdentity ==
  /\ \A i \in DOMAIN queue : /\ queue[i].reader = accepted[i].reader
                             /\ queue[i].epc = accepted[i].epc
                             /\ queue[i].checked = accepted[i].checked
  /\ snd.id # 0 => /\ snd.id \in 1..(nextId - 1)
                   /\ snd.reader = accepted[snd.id].reader
                   /\ snd.checked = accepted[snd.id].checked

\* Two accepted scans of a tag at a reader are at least debounceSec apart, over
\* crashes, failures and clean-ups - unless the clock had already shown a time
\* at which the sweeper may forget the first one (Admit, CleanupDebounce).
DebounceSpacing ==
  \A i, j \in 1..(nextId - 1) :
    (i < j /\ accepted[i].reader = accepted[j].reader /\ accepted[i].epc = accepted[j].epc) =>
      \/ accepted[j].checked >= accepted[i].checked + Debounce
      \/ accepted[i].checked + Keep < accepted[j].seen

\* While a POST is in flight its reader's gate is open and the sender is not
\* halted, although both were read several steps before (Run, deliver).
PostOnlyWhenOpen ==
  snd.pc = "post" => Sendable(entry[snd.reader].state) /\ global = "RUNNING"

\* A POST only uses a token that this process has verified: the restored gate
\* of an earlier run is never trusted (start-up restore, Preflight.attempt).
PostOnlyVerifiedToken ==
  snd.pc = "post" => /\ entry[snd.reader].fp = cfgToken[snd.reader]
                     /\ entry[snd.reader].meta.booth = BoothOf[cfgToken[snd.reader]]

\* A row whose answer was heard is POSTed again only after a crash or a failed
\* database write; an orderly stop is no reason, unless it cuts off the answer,
\* which is then not heard (deliver, Complete).
DuplicateOnlyAfterFault ==
  (snd.pc = "post" /\ snd.id \in answered) =>
    spent["crash"] + spent["db"] > 0

\* The sender never sleeps past the moment a sendable row becomes due, unless
\* a signal for it is on its way (Wake, notify, idleWait, waitSignal).
NoLostWakeup ==
  (/\ snd.pc = "wait" /\ Running /\ global = "RUNNING" /\ wake = 0 /\ changed = 0
   /\ \A r \in Readers : adm[r].pc # "wake") =>
    \A i \in RowsOf(SendableReaders) : 
      snd.until <= clock \/ snd.until <= queue[i].next + snd.lag

\* Within the life of a process a suspension is final: no late answer to a
\* preflight or meta query reopens the gate (RefreshMeta).
SuspensionSticks ==
  [][\A r \in Readers :
       (Alive /\ life' # "down" /\ Suspended(entry[r].state)) => entry'[r].state = entry[r].state]_vars

\* A stored REBIND or CONFIG suspension is lifted only by queue resume, which
\* runs while the process is down (restore, SetGate of all goroutines).
StoredSuspensionNeedsResume ==
  [][\A r \in Readers :
       (/\ gateRow[r].state \in {"SUSPENDED_REBIND", "SUSPENDED_CONFIG"}
        /\ gateRow'[r].state # gateRow[r].state) => life = "down" /\ life' = "down"]_vars

\* A scan taken at a confirmed booth is never POSTed with the token of another
\* booth, unless the operator released it with resume --pending send: "if the
\* booth changes with the token, pending rows may be misdelivered - do not send
\* automatically" (the rebind guard of Preflight.attempt).
NoMisdelivery ==
  (snd.pc = "post" /\ snd.id \notin released /\ accepted[snd.id].booth # Empty) =>
    BoothOf[cfgToken[snd.reader]] = accepted[snd.id].booth

\* No write is lost and no request fails or is cut off.
Undisturbed == spent["crash"] + spent["db"] + spent["net"] + spent["cancel"] = 0

\* The guard does its work if every gate row has reached the database and no
\* request has failed: without a crash, a failed write or a network failure,
\* over any stops that cut off no request, edits and resumes (preflight.go
\* 77-92, app.go 120-158).
RebindGuarded == Undisturbed => NoMisdelivery

\* What a preflight decides against a gate lasts: a REBIND or CONFIG suspension
\* whose write is done is in the database with the same state, and no write
\* owed by another goroutine replaces it (Set outside the lock, gate.go 98).
VerdictDurable ==
  \A r \in Readers :
    (/\ Alive /\ entry[r].state \in {"SUSPENDED_REBIND", "SUSPENDED_CONFIG"}
     /\ pf[r].pc # "persist" /\ spent["db"] = 0) => gateRow[r].state = entry[r].state

\* "The operator has changed to a *different* token" (app.go restore): a start
\* lifts a SUSPENDED_TOKEN recorded with its token's fingerprint only if a
\* token was edited.
LiftNeedsTokenEdit ==
  [][\A r \in Readers :
       (/\ life = "down" /\ life' = "up"
        /\ gateRow[r].state = "SUSPENDED_TOKEN" /\ gateRow[r].fp # Empty
        /\ ~Suspended(entry'[r].state)) => spent["token"] > 0]_vars

----------------------------------------------------------------------------
(* Liveness *)

\* Every queued row is eventually answered, expired or discarded, unless its
\* reader is suspended or the sender halted: no wake-up, retry time or restart
\* leaves it behind (Run, waitSignal, RetryLater, start-up preflight).
EventuallySettled ==
  \A i \in 1..MaxId :
    i \in DOMAIN queue ~>
      \/ i \notin DOMAIN queue
      \/ Suspended(entry[queue[i].reader].state)
      \/ global = "HALTED_REQUEST_BUG"

\* A running process eventually settles every gate: preflight retries until it
\* has an answer (Preflight.Run).
GateSettles ==
  \A r \in Readers :
    Running ~> (~Running \/ Sendable(entry[r].state) \/ Suspended(entry[r].state))

=============================================================================
