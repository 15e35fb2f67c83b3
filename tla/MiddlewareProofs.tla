-------------------------- MODULE MiddlewareProofs --------------------------
(***************************************************************************)
(* Proofs about the delivery core: every step preserves the type invariant *)
(* (first part), IInv is inductive and implies the safety properties.      *)
(***************************************************************************)
EXTENDS MiddlewareInv, TLAPS

\* The program starts with every variable in its domain.
LEMMA InitTypeOK == Init => TypeOK
<1> SUFFICES ASSUME Init PROVE TypeOK
  OBVIOUS
<1> USE DomainAssumption, RuntimeAssumption
<1>1. RuntimeTypeOK
  BY DEF Init, RuntimeInit, RuntimeTypeOK
<1>2. StoreTypeOK
  BY DEF Init, StoreInit, StoreTypeOK
<1>3. RegistryTypeOK
  BY DEF Init, RegistryInit, RegistryTypeOK, FreshEntry, GateEntry, GateStates, Fingerprints, GateMeta, NoMeta
<1>4. AdmissionTypeOK
  BY DEF Init, AdmissionInit, AdmissionTypeOK, IdleHandler, Handler
<1>5. SenderTypeOK
  BY DEF Init, SenderInit, SenderTypeOK, SenderRecord, Idle, SenderPcs
<1>6. PreflightTypeOK
  BY DEF Init, PreflightInit, PreflightTypeOK, Task, NoPut, GatePut, GateStates, Fingerprints
<1>7. SweeperTypeOK
  BY DEF Init, SweeperTypeOK, SleepingSweeper
<1>8. QED
  BY <1>1, <1>2, <1>3, <1>4, <1>5, <1>6, <1>7 DEF TypeOK

----------------------------------------------------------------------------
(* The answer to a POST *)

\* Classify comes to a final decision for exactly those answers by which the server
\* has dealt with the scan, and an answer that is lost or cut short is tried again.
THEOREM ClassifierFollowsServer ==
  /\ \A o \in Outcomes \ {"unheard"} : \A r \in Replies[o] :
       Classify(r) \in Decisions /\ (Classify(r) \in Terminal <=> o \in Decided)
  /\ \A r \in Lost : Classify(r) = "RETRY"
<1>1. \A r \in Lost : Classify(r) = "RETRY"
  BY DEF Lost, Classify, ClassifyWith
<1>2. ASSUME NEW o \in Outcomes \ {"unheard"}, NEW r \in Replies[o]
      PROVE  Classify(r) \in Decisions /\ (Classify(r) \in Terminal <=> o \in Decided)
  <2>a. r \in HTTPResult /\ Tells(r, o)
    BY <1>2 DEF Replies
  <2>1. r.err = "none" /\ r.status \in Int
    <3>1. r \in HTTPResult /\ r.err = "none"
      BY <1>2, <2>a DEF Tells
    <3>2. r.status \in Statuses
      BY <3>1 DEF HTTPResult
    <3>3. QED
      BY <3>1, <3>2 DEF Statuses
  <2>2. CASE o = "recorded"
    <3>1. r.status = 200 /\ r.field = "result" /\ r.text = "success"
      BY <2>a, <2>2 DEF Tells, Says
    <3>2. Classify(r) = "COMPLETE"
      BY <2>1, <3>1 DEF Classify, ClassifyWith, Says
    <3>3. QED
      BY <2>2, <3>2 DEF Decisions, Terminal, Decided, Routine
  <2>3. CASE o = "duplicate"
    <3>1. r.status = 409 /\ r.field = "data" /\ r.text = "duplication"
      BY <2>a, <2>3 DEF Tells, Says
    <3>2. Classify(r) = "COMPLETE"
      BY <2>1, <3>1 DEF Classify, ClassifyWith, Says
    <3>3. QED
      BY <2>3, <3>2 DEF Decisions, Terminal, Decided, Routine
  <2>4. CASE o = "unpaired"
    <3>1. r.status = 404 /\ r.field = "data" /\ r.text = "barcode_not_found"
      BY <2>a, <2>4 DEF Tells, Says
    <3>2. Classify(r) = "DROP"
      BY <2>1, <3>1 DEF Classify, ClassifyWith, Says
    <3>3. QED
      BY <2>4, <3>2 DEF Decisions, Terminal, Decided, Routine
  <2>5. CASE o = "refused"
    <3>1. r.status \in {400, 403, 406, 409, 424, 429} /\ r.text = "other"
      BY <2>a, <2>5 DEF Tells, Says
    <3>2. Classify(r) = "DROP"
      BY <2>1, <3>1 DEF Classify, ClassifyWith, Says
    <3>3. QED
      BY <2>5, <3>2 DEF Decisions, Terminal, Decided, Routine
  <2>6. CASE o = "odd"
    <3>1. r.status \in {101, 200, 204, 302} /\ r.text = "other"
      BY <2>a, <2>6 DEF Tells, Says
    <3>2. Classify(r) = "DROP"
      BY <2>1, <3>1 DEF Classify, ClassifyWith, Says
    <3>3. QED
      BY <2>6, <3>2 DEF Decisions, Terminal, Decided, Routine
  <2>7. CASE o = "revoked"
    <3>1. r.status = 404 /\ r.text = "other"
      BY <2>a, <2>7 DEF Tells, Says
    <3>2. Classify(r) = "SUSPEND_READER"
      BY <2>1, <3>1 DEF Classify, ClassifyWith, Says
    <3>3. QED
      BY <2>7, <3>2 DEF Decisions, Terminal, Decided, Routine
  <2>8. CASE o = "bindbug"
    <3>1. r.status = 400 /\ r.field = "message" /\ r.text = "error_bind"
      BY <2>a, <2>8 DEF Tells, Says
    <3>2. Classify(r) = "HALT_GLOBAL"
      BY <2>1, <3>1 DEF Classify, ClassifyWith, Says
    <3>3. QED
      BY <2>8, <3>2 DEF Decisions, Terminal, Decided, Routine
  <2>9. CASE o = "trouble"
    <3>1. r.status \in {500, 503}
      BY <2>a, <2>9 DEF Tells, Says
    <3>2. Classify(r) = "RETRY"
      BY <2>1, <3>1 DEF Classify, ClassifyWith, Says
    <3>3. QED
      BY <2>9, <3>2 DEF Decisions, Terminal, Decided, Routine
  <2>10. QED
    BY <2>2, <2>3, <2>4, <2>5, <2>6, <2>7, <2>8, <2>9 DEF Outcomes, Routine
<1>3. QED
  BY <1>1, <1>2

\* So the ghost answered records the final decisions.
LEMMA AnswerFacts ==
  ASSUME SenderAnswer
  PROVE  \E d \in Decisions :
           Goto(d) /\ answered' = IF d \in Terminal THEN answered \cup {snd.id} ELSE answered
<1>1. CASE \E o \in Outcomes \ {"unheard"} : Received(o, Replies[o])
  <2>1. PICK o \in Outcomes \ {"unheard"} : Received(o, Replies[o])
    BY <1>1
  <2>2. PICK r \in Replies[o] : Goto(Classify(r))
    BY <2>1 DEF Received, Goto
  <2>3. QED
    BY <2>1, <2>2, ClassifierFollowsServer DEF Received
<1>2. CASE Received("unheard", Lost)
  <2>1. "RETRY" \in Decisions \ Terminal /\ "unheard" \notin Decided
    BY DEF Decisions, Terminal, Decided, Routine
  <2>2. QED
    BY <1>2, <2>1, ClassifierFollowsServer DEF Received, Goto
<1>3. QED
  BY <1>1, <1>2 DEF SenderAnswer, Outcomes, Routine

----------------------------------------------------------------------------
(* Types.  First what each building block does, then one lemma per part. *)

\* Counting a fault leaves the counters in their domain.
LEMMA SpendType ==
  ASSUME NEW k \in FaultKinds, spent \in [FaultKinds -> Nat], Spend(k)
  PROVE  spent' \in [FaultKinds -> Nat]
BY DEF Spend

\* Whatever the step, the fault counters stay in their domain.
LEMMA SpentStep ==
  ASSUME spent \in [FaultKinds -> Nat], Next
  PROVE  spent' \in [FaultKinds -> Nat]
<1> USE SpendType DEF FaultKinds
<1>1. CASE ClockStep
  BY <1>1 DEF ClockStep, Tick, ClockBack
<1>2. CASE AdmitStep
  BY <1>2 DEF AdmitStep, AdmissionStep, HandleCheck, HandleAdmit, HandleWake
<1>3. CASE SendStep
  <2>1. CASE SenderLoop \/ SenderWait \/ SenderSuspend \/ SenderHalt
    BY <2>1 DEF SenderLoop, SenderWait, SenderSuspend, SenderHalt
  <2>2. CASE SenderQuery \/ SenderIdle
    BY <2>2 DEF SenderQuery, SenderIdle
  <2>3. CASE SenderAnswer
    BY <2>3 DEF SenderAnswer, NetFault
  <2>4. CASE SenderExpire \/ SenderComplete \/ SenderRetry \/ SenderRevoked \/ SenderPersist \/ SenderMark
    BY <2>4 DEF SenderExpire, SenderComplete, SenderRetry, SenderRevoked, SenderPersist, SenderMark, OrFail
  <2>5. QED
    BY <1>3, <2>1, <2>2, <2>3, <2>4 DEF SendStep, SenderStep
<1>4. CASE GateStep
  BY <1>4 DEF GateStep, PreflightStep, RefreshStep, PreflightSend, PreflightAnswer, PreflightPersist,
     RefreshSend, RefreshAnswer, RefreshPersist, OrFail, NetFault
<1>5. CASE SweepStep
  BY <1>5 DEF SweepStep, SweepExpire, SweepCleanup, OrFail, Spend
<1>6. CASE Start \/ Crash \/ Cancel \/ Stopped
  BY <1>6 DEF Start, Crash, Cancel, Stopped, Die
<1>7. CASE OperatorStep
  BY <1>7 DEF OperatorStep, EditToken, ResumeSend, ResumeDiscard
<1>8. QED
  BY <1>1, <1>2, <1>3, <1>4, <1>5, <1>6, <1>7 DEF Next

\* Clock, life, configuration and fault counters stay in their domains (Tick, EditToken, Start, Stopped).
LEMMA RuntimeTypeStep == TypeOK /\ Next => RuntimeTypeOK'
<1> SUFFICES ASSUME TypeOK, Next PROVE RuntimeTypeOK'
  OBVIOUS
<1> USE RuntimeAssumption DEF TypeOK, RuntimeTypeOK
<1>a. spent' \in [FaultKinds -> Nat]
  BY SpentStep
<1>1. CASE ClockStep
  BY <1>1, <1>a DEF ClockStep, Tick, ClockBack
<1>2. CASE AdmitStep
  BY <1>2, <1>a DEF AdmitStep, AdmissionStep
<1>3. CASE SendStep
  BY <1>3, <1>a DEF SendStep, SenderStep
<1>4. CASE GateStep
  BY <1>4, <1>a DEF GateStep, PreflightStep, RefreshStep
<1>5. CASE SweepStep
  BY <1>5, <1>a DEF SweepStep
<1>6. CASE Start \/ Crash \/ Cancel \/ Stopped
  BY <1>6, <1>a DEF Start, Crash, Cancel, Stopped, Die
<1>7. CASE OperatorStep
  BY <1>7, <1>a DEF OperatorStep, EditToken, ResumeSend, ResumeDiscard
<1>8. QED
  BY <1>1, <1>2, <1>3, <1>4, <1>5, <1>6, <1>7 DEF Next

\* Tables that a step leaves alone stay in their domains.
LEMMA StoreUnchanged ==
  ASSUME StoreTypeOK, UNCHANGED storeVars
  PROVE  StoreTypeOK'
BY DEF storeVars, StoreTypeOK

\* The insert of Store.Admit leaves the tables in their domains.
LEMMA InsertRowType ==
  ASSUME StoreTypeOK, clockMax \in Nat, NEW r \in Readers, NEW e \in EPCs, NEW at \in Nat,
         NEW b \in Booths \cup {Empty}, InsertRow(r, e, at, b)
  PROVE  StoreTypeOK'
<1> USE DEF StoreTypeOK, InsertRow
<1>1. nextId' \in Nat \ {0} /\ nextId' - 1 = nextId
  OBVIOUS
<1>2. DOMAIN queue' \subseteq 1..(nextId' - 1) /\ queue' = [i \in DOMAIN queue' |-> queue'[i]]
  OBVIOUS
<1>3. \A i \in DOMAIN queue' : queue'[i] \in QueueRow
  BY DEF QueueRow
<1>4. DOMAIN debounce' \subseteq Readers \X EPCs /\ \A k \in DOMAIN debounce' : debounce'[k] \in Nat
  OBVIOUS
<1>5. accepted' \in [1..(nextId' - 1) -> Accepted]
  <2>1. [reader |-> r, epc |-> e, checked |-> at, seen |-> clockMax, booth |-> b] \in Accepted
    BY DEF Accepted
  <2>2. \A i \in 1..nextId : i # nextId => i \in 1..(nextId - 1)
    OBVIOUS
  <2>3. QED
    BY <1>1, <2>1, <2>2
<1>6. QED
  BY <1>1, <1>2, <1>3, <1>4, <1>5

\* So do the deletions (Complete, ExpireBefore).
LEMMA DeleteRowsType ==
  ASSUME StoreTypeOK, NEW ids, DeleteRows(ids)
  PROVE  StoreTypeOK'
BY DEF StoreTypeOK, DeleteRows

\* So does CleanupDebounce.
LEMMA CleanupType ==
  ASSUME StoreTypeOK, NEW before, CleanupDebounce(before)
  PROVE  StoreTypeOK'
BY DEF StoreTypeOK, CleanupDebounce

\* So does RetryLater.
LEMMA RetryType ==
  ASSUME StoreTypeOK, NEW id, NEW next \in Nat, RetryLater(id, next)
  PROVE  StoreTypeOK'
<1>1. \A i \in DOMAIN queue :
        [queue[i] EXCEPT !.attempts = @ + 1, !.next = next] \in QueueRow
  <2> SUFFICES ASSUME NEW i \in DOMAIN queue
               PROVE  [queue[i] EXCEPT !.attempts = @ + 1, !.next = next] \in QueueRow
    OBVIOUS
  <2>1. queue[i] \in QueueRow
    BY DEF StoreTypeOK
  <2>2. queue[i].attempts + 1 \in Nat
    BY <2>1 DEF QueueRow
  <2>3. QED
    BY <2>1, <2>2 DEF QueueRow
<1>2. QED
  BY <1>1 DEF StoreTypeOK, RetryLater

\* So does MarkAttemptKeepDue.
LEMMA MarkType ==
  ASSUME StoreTypeOK, NEW id, MarkAttemptKeepDue(id)
  PROVE  StoreTypeOK'
<1>1. \A i \in DOMAIN queue : [queue[i] EXCEPT !.attempts = @ + 1] \in QueueRow
  BY DEF StoreTypeOK, QueueRow
<1>2. QED
  BY <1>1 DEF StoreTypeOK, MarkAttemptKeepDue

\* A gate row that SetGate writes over another is a gate row.
LEMMA UpsertType ==
  ASSUME NEW row \in GateEntry \cup {NoRow}, NEW put \in GatePut
  PROVE  UpsertGate(row, put) \in GateEntry
<1>1. row.meta \in GateMeta
  BY DEF GateEntry, NoRow, NoMeta, GateMeta
<1>2. put.meta # Empty => put.meta \in GateMeta
  BY DEF GatePut
<1>3. QED
  BY <1>1, <1>2 DEF UpsertGate, GatePut, GateEntry

\* SetGate leaves the tables in their domains.
LEMMA SetGateType ==
  ASSUME StoreTypeOK, NEW r, NEW put \in GatePut, SetGate(r, put)
  PROVE  StoreTypeOK'
<1>1. gateRow' \in [Readers -> GateEntry \cup {NoRow}]
  BY UpsertType DEF StoreTypeOK, SetGate
<1>2. QED
  BY <1>1 DEF StoreTypeOK, SetGate

\* Everything start-up, sender and queue resume write is a gate update.
LEMMA PutTypes ==
  ASSUME TypeOK
  PROVE  /\ RevokedPut \in GatePut
         /\ \A r \in Readers : ReplacedPut(r) \in GatePut /\ pf[r].put \in GatePut /\ mr[r].put \in GatePut
         /\ \A r \in Readers : Suspended(gateRow[r].state) => ResumedPut(r) \in GatePut
<1> USE DEF TypeOK
<1>1. RevokedPut \in GatePut
  BY DEF RevokedPut, GatePut, GateStates, SuspendedStates, Fingerprints
<1>2. \A r \in Readers : ReplacedPut(r) \in GatePut
  BY DEF ReplacedPut, GatePut, GateStates, Fingerprints, RuntimeTypeOK
<1>3. \A r \in Readers : pf[r].put \in GatePut /\ mr[r].put \in GatePut
  BY DEF PreflightTypeOK
<1>4. \A r \in Readers : gateRow[r].fp \in Fingerprints
  BY DEF StoreTypeOK, GateEntry, NoRow, Fingerprints
<1>5. \A r \in Readers : ResumedPut(r) \in GatePut
  BY <1>4 DEF ResumedPut, GatePut, GateStates
<1>6. QED
  BY <1>1, <1>2, <1>3, <1>5

\* What a start makes of one gate, whichever database call fails on the way.
LEMMA StartFacts ==
  ASSUME Start
  PROVE  /\ entry' = [r \in Readers |-> entry'[r]]
         /\ gateRow' = [r \in Readers |-> gateRow'[r]]
         /\ \A r \in Readers :
              /\ entry'[r] = [state |-> entry'[r].state, fp |-> gateRow[r].fp, meta |-> gateRow[r].meta]
              /\ \/ Suspended(gateRow[r].state) /\ entry'[r].state = gateRow[r].state
                 \/ /\ Suspended(gateRow[r].state) => TokenReplaced(r)
                    /\ entry'[r].state = "PREFLIGHT_PENDING"
              /\ \/ gateRow'[r] = gateRow[r]
                 \/ TokenReplaced(r) /\ gateRow'[r] = UpsertGate(gateRow[r], ReplacedPut(r))
<1> DEFINE replaced == {r \in Readers : TokenReplaced(r)}
<1>1. \E lifted, saved \in SUBSET replaced : RestoreGates(lifted, saved)
  <2>1. CASE RestoreGates(replaced, replaced)
    BY <2>1
  <2>2. CASE \E r \in replaced : \/ RestoreGates(replaced \ {r}, replaced \ {r})
                              \/ RestoreGates(replaced, replaced \ {r})
    <3>1. PICK r \in replaced : \/ RestoreGates(replaced \ {r}, replaced \ {r})
                              \/ RestoreGates(replaced, replaced \ {r})
      BY <2>2
    <3>2. (replaced \ {r}) \in SUBSET replaced /\ replaced \in SUBSET replaced
      OBVIOUS
    <3>3. QED
      BY <3>1, <3>2
  <2>3. QED
    BY <2>1, <2>2 DEF Start
<1>2. PICK lifted, saved \in SUBSET replaced : RestoreGates(lifted, saved)
  BY <1>1
<1>3. \A r \in Readers : (r \in lifted => TokenReplaced(r)) /\ (r \in saved => TokenReplaced(r))
  OBVIOUS
<1> HIDE DEF replaced
<1>4. entry' = [r \in Readers |->
                 [state |-> RestoredState(r, lifted), fp |-> gateRow[r].fp, meta |-> gateRow[r].meta]]
  BY <1>2 DEF RestoreGates
<1>5. gateRow' = [r \in Readers |->
                   IF r \in saved THEN UpsertGate(gateRow[r], ReplacedPut(r)) ELSE gateRow[r]]
  BY <1>2 DEF RestoreGates
<1>6. \A r \in Readers :
        /\ entry'[r] = [state |-> RestoredState(r, lifted), fp |-> gateRow[r].fp, meta |-> gateRow[r].meta]
        /\ entry'[r].state = RestoredState(r, lifted)
  BY <1>4
<1>7. entry' = [r \in Readers |-> entry'[r]] /\ gateRow' = [r \in Readers |-> gateRow'[r]]
  BY <1>4, <1>5
<1>8. \A r \in Readers :
        \/ Suspended(gateRow[r].state) /\ entry'[r].state = gateRow[r].state
        \/ /\ Suspended(gateRow[r].state) => TokenReplaced(r)
           /\ entry'[r].state = "PREFLIGHT_PENDING"
  BY <1>3, <1>6 DEF RestoredState
<1>9. \A r \in Readers :
        \/ gateRow'[r] = gateRow[r]
        \/ TokenReplaced(r) /\ gateRow'[r] = UpsertGate(gateRow[r], ReplacedPut(r))
  BY <1>3, <1>5
<1>10. QED
  BY <1>6, <1>7, <1>8, <1>9

\* Every step of the system leaves the tables in their domains.
LEMMA StoreTypeStep == TypeOK /\ Next => StoreTypeOK'
<1> SUFFICES ASSUME TypeOK, Next PROVE StoreTypeOK'
  OBVIOUS
<1> USE StoreUnchanged, PutTypes DEF TypeOK
<1>1. CASE ClockStep
  BY <1>1 DEF ClockStep
<1>2. CASE AdmitStep
  <2>1. PICK r \in Readers : HandleCheck(r) \/ HandleAdmit(r) \/ HandleWake(r)
    BY <1>2 DEF AdmitStep, AdmissionStep
  <2>2. CASE HandleCheck(r) \/ HandleWake(r)
    BY <2>2 DEF HandleCheck, HandleWake
  <2>3. CASE HandleAdmit(r)
    <3>1. ScanBooth(r) \in Booths \cup {Empty}
      BY DomainAssumption DEF ScanBooth, RuntimeTypeOK
    <3>2. adm[r].pc = "admit" => adm[r].epc \in EPCs /\ adm[r].at \in Nat
      BY DEF AdmissionTypeOK, Handler
    <3>3. QED
      BY <2>3, <3>1, <3>2, InsertRowType DEF HandleAdmit, RuntimeTypeOK
  <2>4. QED
    BY <2>1, <2>2, <2>3
<1>3. CASE SendStep
  <2>1. CASE SenderLoop \/ SenderWait \/ SenderSuspend \/ SenderHalt \/ SenderQuery \/ SenderIdle \/ SenderAnswer
    BY <2>1 DEF SenderLoop, SenderWait, SenderSuspend, SenderHalt, SenderQuery, SenderIdle, SenderAnswer
  <2>2. CASE SenderExpire \/ SenderComplete \/ SenderRevoked
    BY <2>2, DeleteRowsType DEF SenderExpire, SenderComplete, SenderRevoked, OrFail, CompleteRow
  <2>3. CASE SenderRetry
    <3>1. RetryAt \in Nat
      BY RuntimeAssumption DEF RetryAt, BackoffDelay, SenderTypeOK, SenderRecord
    <3>2. QED
      BY <2>3, <3>1, RetryType DEF SenderRetry, OrFail
  <2>4. CASE SenderPersist
    BY <2>4, SetGateType DEF SenderPersist, OrFail
  <2>5. CASE SenderMark
    BY <2>5, MarkType DEF SenderMark, OrFail
  <2>6. QED
    BY <1>3, <2>1, <2>2, <2>3, <2>4, <2>5 DEF SendStep, SenderStep
<1>4. CASE GateStep
  BY <1>4, SetGateType DEF GateStep, PreflightStep, RefreshStep, PreflightSend, PreflightAnswer,
     PreflightPersist, RefreshSend, RefreshAnswer, RefreshPersist, OrFail
<1>5. CASE SweepStep
  BY <1>5, DeleteRowsType, CleanupType DEF SweepStep, SweepExpire, SweepCleanup, OrFail, ExpireBefore
<1>6. CASE Start
  <2>1. gateRow' \in [Readers -> GateEntry \cup {NoRow}]
    BY <1>6, UpsertType, StartFacts DEF StoreTypeOK
  <2>2. QED
    BY <1>6, <2>1 DEF Start, StoreTypeOK
<1>7. CASE Crash \/ Cancel \/ Stopped
  BY <1>7 DEF Crash, Cancel, Stopped, Die
<1>8. CASE OperatorStep
  <2>1. PICK r \in Readers : EditToken(r) \/ ResumeSend(r) \/ ResumeDiscard(r)
    BY <1>8 DEF OperatorStep
  <2>2. CASE EditToken(r) \/ ResumeSend(r)
    BY <2>2, SetGateType DEF EditToken, ResumeSend
  <2>3. CASE ResumeDiscard(r)
    <3>a. gateRow[r] \in GateEntry \cup {NoRow} /\ ResumedPut(r) \in GatePut
      BY <2>3 DEF ResumeDiscard, StoreTypeOK
    <3>b. UpsertGate(gateRow[r], ResumedPut(r)) \in GateEntry
      BY <3>a, UpsertType
    <3>1. gateRow' \in [Readers -> GateEntry \cup {NoRow}]
      BY <2>3, <3>b DEF ResumeDiscard, StoreTypeOK
    <3>2. DOMAIN queue' \subseteq DOMAIN queue /\ \A i \in DOMAIN queue' : queue'[i] = queue[i]
      BY <2>3 DEF ResumeDiscard
    <3>3. queue' = [i \in DOMAIN queue' |-> queue'[i]]
      BY <2>3 DEF ResumeDiscard
    <3>4. UNCHANGED <<nextId, debounce, accepted>>
      BY <2>3 DEF ResumeDiscard
    <3>5. QED
      BY <3>1, <3>2, <3>3, <3>4 DEF StoreTypeOK
  <2>4. QED
    BY <2>1, <2>2, <2>3
<1>9. QED
  BY <1>1, <1>2, <1>3, <1>4, <1>5, <1>6, <1>7, <1>8 DEF Next

\* The memory half of Registry.Set leaves the registry in its domain.
LEMMA SetEntryType ==
  ASSUME RegistryTypeOK, NEW r, NEW put \in GatePut, SetEntry(r, put)
  PROVE  RegistryTypeOK'
<1>1. \A e \in GateEntry :
        [state |-> put.state,
         fp    |-> IF put.fp = Empty THEN e.fp ELSE put.fp,
         meta  |-> IF put.meta = Empty THEN e.meta ELSE put.meta] \in GateEntry
  BY DEF GatePut, GateEntry
<1>2. entry' \in [Readers -> GateEntry]
  BY <1>1 DEF SetEntry, RegistryTypeOK
<1>3. QED
  BY <1>2 DEF SetEntry, Notify, RegistryTypeOK

\* Every verdict of a preflight is a gate update.
LEMMA VerdictTypes ==
  ASSUME TypeOK, NEW r \in Readers
  PROVE  /\ \A s \in GateStates : Failed(s, cfgToken[r]) \in GatePut
         /\ \A c \in Cooldowns : Confirmed(entry[r], cfgToken[r], c) \in GatePut
         /\ \A c \in Cooldowns : [booth |-> BoothOf[cfgToken[r]], cooldown |-> c] \in GateMeta
<1>1. cfgToken[r] \in Tokens /\ BoothOf[cfgToken[r]] \in Booths
  BY DomainAssumption DEF TypeOK, RuntimeTypeOK
<1>2. \A c \in Cooldowns : [booth |-> BoothOf[cfgToken[r]], cooldown |-> c] \in GateMeta
  BY <1>1, DomainAssumption DEF GateMeta
<1>3. \A s \in GateStates : Failed(s, cfgToken[r]) \in GatePut
  BY <1>1 DEF Failed, GatePut, Fingerprints
<1>4. \A c \in Cooldowns : Confirmed(entry[r], cfgToken[r], c) \in GatePut
  <2> SUFFICES ASSUME NEW c \in Cooldowns PROVE Confirmed(entry[r], cfgToken[r], c) \in GatePut
    OBVIOUS
  <2>1. ActiveState(c) \in GateStates
    BY DEF ActiveState, GateStates, SendableStates
  <2>2. QED
    BY <1>1, <1>2, <2>1 DEF Confirmed, GatePut, Fingerprints, GateStates, SuspendedStates
<1>5. QED
  BY <1>2, <1>3, <1>4

\* Every step of the system leaves the registry in its domain.
LEMMA RegistryTypeStep == TypeOK /\ Next => RegistryTypeOK'
<1> SUFFICES ASSUME TypeOK, Next PROVE RegistryTypeOK'
  OBVIOUS
<1>a. RegistryTypeOK /\ (UNCHANGED registryVars => RegistryTypeOK')
  BY DEF TypeOK, RegistryTypeOK, registryVars
<1>1. CASE ClockStep
  BY <1>1, <1>a DEF ClockStep
<1>2. CASE AdmitStep
  BY <1>2, <1>a DEF AdmitStep, AdmissionStep
<1>3. CASE SendStep
  <2>1. CASE SenderLoop \/ SenderQuery \/ SenderIdle \/ SenderAnswer \/ SenderExpire \/ SenderComplete
             \/ SenderRetry \/ SenderRevoked \/ SenderPersist \/ SenderMark
    BY <2>1, <1>a DEF SenderLoop, SenderQuery, SenderIdle, SenderAnswer, SenderExpire, SenderComplete,
       SenderRetry, SenderRevoked, SenderPersist, SenderMark
  <2>2. CASE SenderWait
    BY <2>2, <1>a DEF SenderWait, RegistryTypeOK
  <2>3. CASE SenderSuspend
    BY <2>3, <1>a, PutTypes, SetEntryType DEF SenderSuspend
  <2>4. CASE SenderHalt
    BY <2>4, <1>a DEF SenderHalt, HaltGlobal, Notify, RegistryTypeOK
  <2>5. QED
    BY <1>3, <2>1, <2>2, <2>3, <2>4 DEF SendStep, SenderStep
<1>4. CASE GateStep
  <2>1. ASSUME NEW r \in Readers, PreflightAnswer(r) PROVE RegistryTypeOK'
    <3>1. \E put \in GatePut : SetEntry(r, put)
      BY <2>1, VerdictTypes DEF PreflightAnswer, Settle, GateStates, SuspendedStates
    <3>2. QED
      BY <1>a, <3>1, SetEntryType
  <2>2. ASSUME NEW r \in Readers, RefreshAnswer(r) PROVE RegistryTypeOK'
    <3>1. CASE UNCHANGED registryVars
      BY <3>1, <1>a
    <3>2. ASSUME NEW c \in Cooldowns, NEW meta \in GateMeta, RefreshMeta(r, RefreshState(c), meta)
          PROVE  RegistryTypeOK'
      <4>1. RefreshState(c) \in GateStates
        BY DEF RefreshState, GateStates, SendableStates
      <4>2. entry' \in [Readers -> GateEntry]
        BY <1>a, <3>2, <4>1 DEF RefreshMeta, RegistryTypeOK, GateEntry
      <4>3. QED
        BY <1>a, <3>2, <4>2 DEF RefreshMeta, Notify, RegistryTypeOK
    <3>3. QED
      BY <2>2, <3>1, <3>2, VerdictTypes DEF RefreshAnswer
  <2>3. ASSUME NEW r \in Readers, PreflightSend(r) \/ PreflightPersist(r) \/ RefreshSend(r) \/ RefreshPersist(r)
        PROVE  RegistryTypeOK'
    BY <2>3, <1>a DEF PreflightSend, PreflightPersist, RefreshSend, RefreshPersist
  <2>4. QED
    BY <1>4, <2>1, <2>2, <2>3 DEF GateStep, PreflightStep, RefreshStep
<1>5. CASE SweepStep
  BY <1>5, <1>a DEF SweepStep
<1>6. CASE Start
  <2>1. \A r \in Readers : gateRow[r].fp \in Fingerprints /\ gateRow[r].meta \in GateMeta
    BY DEF TypeOK, StoreTypeOK, GateEntry, NoRow, NoMeta, Fingerprints, GateMeta
  <2>2. \A r \in Readers : entry'[r].state \in GateStates
    BY <1>6, StartFacts DEF Suspended, GateStates
  <2>3. \A r \in Readers : entry'[r] \in GateEntry
    BY <1>6, <2>1, <2>2, StartFacts DEF GateEntry
  <2>5. entry' \in [Readers -> GateEntry]
    BY <1>6, <2>3, StartFacts
  <2>4. QED
    BY <1>6, <2>5 DEF Start, FreshProcesses, RegistryTypeOK
<1>7. CASE Crash \/ Stopped
  <2>1. FreshEntry \in GateEntry
    BY DEF FreshEntry, GateEntry, GateStates, Fingerprints, GateMeta, NoMeta
  <2>2. QED
    BY <1>7, <2>1 DEF Crash, Stopped, Die, FreshProcesses, RegistryTypeOK
<1>8. CASE Cancel \/ OperatorStep
  BY <1>8, <1>a DEF Cancel, OperatorStep, EditToken, ResumeSend, ResumeDiscard
<1>9. QED
  BY <1>1, <1>2, <1>3, <1>4, <1>5, <1>6, <1>7, <1>8 DEF Next

\* Every step of the system leaves the handlers and the wake channel in their domains.
LEMMA AdmissionTypeStep == TypeOK /\ Next => AdmissionTypeOK'
<1> SUFFICES ASSUME TypeOK, Next PROVE AdmissionTypeOK'
  OBVIOUS
<1>a. AdmissionTypeOK /\ (UNCHANGED admissionVars => AdmissionTypeOK')
  BY DEF TypeOK, AdmissionTypeOK, admissionVars
<1>b. IdleHandler \in Handler /\ [IdleHandler EXCEPT !.pc = "wake"] \in Handler
  BY DEF IdleHandler, Handler
<1>1. CASE ClockStep
  BY <1>1, <1>a DEF ClockStep
<1>2. CASE AdmitStep
  <2>1. ASSUME NEW r \in Readers, HandleCheck(r) PROVE AdmissionTypeOK'
    <3>1. \A e \in EPCs : [pc |-> "admit", epc |-> e, at |-> clock] \in Handler
      BY DEF TypeOK, RuntimeTypeOK, Handler
    <3>2. QED
      BY <1>a, <2>1, <3>1 DEF HandleCheck, AdmissionTypeOK
  <2>2. ASSUME NEW r \in Readers, HandleAdmit(r) \/ HandleWake(r) PROVE AdmissionTypeOK'
    <3>1. adm' \in [Readers -> Handler] /\ wake' \in {0, 1}
      BY <1>a, <1>b, <2>2 DEF HandleAdmit, HandleWake, AdmissionTypeOK
    <3>2. adm'[r].pc # "admit" /\ \A q \in Readers \ {r} : adm'[q] = adm[q]
      BY <1>a, <2>2 DEF HandleAdmit, HandleWake, AdmissionTypeOK, IdleHandler
    <3>3. QED
      BY <1>a, <3>1, <3>2 DEF AdmissionTypeOK
  <2>3. QED
    BY <1>2, <2>1, <2>2 DEF AdmitStep, AdmissionStep
<1>3. CASE SendStep
  BY <1>3, <1>a DEF SendStep, SenderStep, SenderLoop, SenderQuery, SenderIdle, SenderWait, SenderExpire,
     SenderAnswer, SenderComplete, SenderRetry, SenderRevoked, SenderSuspend, SenderPersist, SenderMark,
     SenderHalt, AdmissionTypeOK, admissionVars
<1>4. CASE GateStep \/ SweepStep
  BY <1>4, <1>a DEF GateStep, PreflightStep, RefreshStep, SweepStep
<1>5. CASE Start \/ Crash \/ Stopped
  <2>1. adm' = [r \in Readers |-> IdleHandler] /\ wake' = 0
    BY <1>5 DEF Start, Crash, Stopped, Die, FreshProcesses
  <2>2. QED
    BY <1>b, <2>1 DEF AdmissionTypeOK, IdleHandler
<1>6. CASE Cancel \/ OperatorStep
  BY <1>6, <1>a DEF Cancel, OperatorStep, EditToken, ResumeSend, ResumeDiscard
<1>7. QED
  BY <1>1, <1>2, <1>3, <1>4, <1>5, <1>6 DEF Next

----------------------------------------------------------------------------
(* Ids are only ever added, and the sender's row is one of them. *)

\* The row counter never goes back.
LEMMA NextIdGrows == TypeOK /\ Next => nextId' \in Nat /\ nextId <= nextId'
<1> SUFFICES ASSUME TypeOK, Next PROVE nextId' \in Nat /\ nextId <= nextId'
  OBVIOUS
<1>a. nextId \in Nat
  BY DEF TypeOK, StoreTypeOK
<1>b. UNCHANGED storeVars => nextId' = nextId
  BY DEF storeVars
<1>1. CASE AdmitStep
  BY <1>1, <1>a, <1>b DEF AdmitStep, AdmissionStep, HandleCheck, HandleAdmit, HandleWake, InsertRow
<1>2. CASE SendStep
  <2>1. CASE SenderLoop \/ SenderQuery \/ SenderIdle \/ SenderWait \/ SenderAnswer \/ SenderSuspend \/ SenderHalt
    <3>1. UNCHANGED storeVars
      BY <2>1 DEF SenderLoop, SenderQuery, SenderIdle, SenderWait, SenderAnswer, SenderSuspend, SenderHalt
    <3>2. QED
      BY <3>1, <1>a, <1>b
  <2>2. CASE SenderExpire \/ SenderComplete \/ SenderRevoked \/ SenderRetry \/ SenderPersist \/ SenderMark
    <3>1. \/ UNCHANGED storeVars
          \/ CompleteRow(snd.id) \/ RetryLater(snd.id, RetryAt) \/ MarkAttemptKeepDue(snd.id)
          \/ SetGate(snd.reader, RevokedPut)
      BY <2>2 DEF SenderExpire, SenderComplete, SenderRevoked, SenderRetry, SenderPersist, SenderMark, OrFail
    <3>2. UNCHANGED storeVars \/ nextId' = nextId
      BY <3>1 DEF CompleteRow, DeleteRows, RetryLater, MarkAttemptKeepDue, SetGate
    <3>3. QED
      BY <3>2, <1>a, <1>b
  <2>3. QED
    BY <1>2, <2>1, <2>2 DEF SendStep, SenderStep
<1>3. CASE GateStep
  BY <1>3, <1>a, <1>b DEF GateStep, PreflightStep, RefreshStep, PreflightSend, PreflightAnswer, PreflightPersist,
     RefreshSend, RefreshAnswer, RefreshPersist, OrFail, SetGate
<1>4. CASE SweepStep
  BY <1>4, <1>a, <1>b DEF SweepStep, SweepExpire, SweepCleanup, OrFail, ExpireBefore, DeleteRows,
     CleanupDebounce
<1>5. CASE ClockStep \/ Start \/ Crash \/ Cancel \/ Stopped \/ OperatorStep
  <2>1. CASE ClockStep \/ Start \/ Crash \/ Cancel \/ Stopped
    BY <2>1, <1>a, <1>b DEF ClockStep, Start, Crash, Cancel, Stopped, Die
  <2>2. CASE OperatorStep
    BY <2>2, <1>a, <1>b DEF OperatorStep, EditToken, ResumeSend, ResumeDiscard, SetGate
  <2>3. QED
    BY <1>5, <2>1, <2>2
<1>6. QED
  BY <1>1, <1>2, <1>3, <1>4, <1>5 DEF Next

----------------------------------------------------------------------------
(* The sender *)

\* A sleep leaves the sender in its domain.
LEMMA SleepType ==
  ASSUME snd \in SenderRecord, clock \in Nat, NEW d \in Nat, NEW pc \in {"wait", "errwait"}, Sleep(pc, d)
  PROVE  snd' \in SenderRecord
<1>1. clock + d \in Nat /\ clock - snd.now \in Int
  BY DEF SenderRecord
<1>2. QED
  BY <1>1 DEF Sleep, SenderRecord, Idle, SenderPcs

\* So do all of its own steps.
LEMMA SenderRecordStep ==
  ASSUME TypeOK, SendStep
  PROVE  snd' \in SenderRecord
<1>a. snd \in SenderRecord /\ clock \in Nat
  BY DEF TypeOK, SenderTypeOK, RuntimeTypeOK
<1>b. Idle \in SenderRecord
  BY DEF Idle, SenderRecord, SenderPcs
<1>c. {MaxIdle, ErrWait} \subseteq Nat
  BY RuntimeAssumption
<1>1. CASE SenderLoop
  <2>1. SendableReaders \in SUBSET Readers
    BY DEF SendableReaders
  <2>2. [Idle EXCEPT !.pc = "query", !.now = clock, !.readers = SendableReaders] \in SenderRecord
    BY <1>a, <1>b, <2>1 DEF SenderRecord, SenderPcs
  <2>3. QED
    BY <1>1, <1>a, <1>c, <2>2, SleepType DEF SenderLoop
<1>2. CASE SenderQuery
  <2>1. ASSUME NEW i \in DOMAIN queue, NEW pc \in {"expire", "post"}
        PROVE  [Idle EXCEPT !.pc = pc, !.now = snd.now, !.id = i, !.reader = queue[i].reader,
                            !.checked = queue[i].checked, !.attempts = queue[i].attempts] \in SenderRecord
    <3>1. i \in Nat /\ queue[i] \in QueueRow /\ snd.now \in Nat
      BY <1>a DEF TypeOK, StoreTypeOK, SenderRecord
    <3>2. queue[i].reader \in Readers /\ queue[i].checked \in Nat /\ queue[i].attempts \in Nat
      BY <3>1 DEF QueueRow
    <3>3. pc \in SenderPcs
      BY <2>1 DEF SenderPcs
    <3>4. QED
      BY <1>b, <3>1, <3>2, <3>3 DEF SenderRecord
  <2>2. [Idle EXCEPT !.pc = "idle", !.now = snd.now] \in SenderRecord
    <3>1. snd.now \in Nat
      BY <1>a DEF SenderRecord
    <3>2. QED
      BY <1>b, <3>1 DEF SenderRecord, SenderPcs
  <2>3. CASE \E i \in DOMAIN queue :
          snd' = [Idle EXCEPT !.pc = IF queue[i].checked < snd.now - MaxAge THEN "expire" ELSE "post",
                              !.now = snd.now, !.id = i, !.reader = queue[i].reader,
                              !.checked = queue[i].checked, !.attempts = queue[i].attempts]
    <3>1. PICK i \in DOMAIN queue :
          snd' = [Idle EXCEPT !.pc = IF queue[i].checked < snd.now - MaxAge THEN "expire" ELSE "post",
                              !.now = snd.now, !.id = i, !.reader = queue[i].reader,
                              !.checked = queue[i].checked, !.attempts = queue[i].attempts]
      BY <2>3
    <3>2. (IF queue[i].checked < snd.now - MaxAge THEN "expire" ELSE "post") \in {"expire", "post"}
      OBVIOUS
    <3>3. QED
      BY <2>1, <3>1, <3>2
  <2>4. QED
    BY <1>2, <1>a, <1>c, <2>2, <2>3, SleepType DEF SenderQuery
<1>3. CASE SenderIdle
  <2>1. \A i \in DOMAIN queue : Clamp(queue[i].next - snd.now) \in Nat
    BY <1>a, <1>c DEF TypeOK, StoreTypeOK, QueueRow, SenderRecord, Clamp
  <2>2. QED
    BY <1>3, <1>a, <1>c, <2>1, SleepType DEF SenderIdle
<1>4. CASE SenderWait \/ SenderExpire \/ SenderComplete \/ SenderRetry \/ SenderPersist \/ SenderHalt
  BY <1>4, <1>b DEF SenderWait, SenderExpire, SenderComplete, SenderRetry, SenderPersist, SenderHalt
<1>5. CASE SenderAnswer \/ SenderRevoked \/ SenderSuspend \/ SenderMark
  <2>1. \A pc \in SenderPcs : [snd EXCEPT !.pc = pc] \in SenderRecord
    BY <1>a DEF SenderRecord
  <2>2. Decisions \cup {"suspend", "persist", "halt"} \subseteq SenderPcs
    BY DEF SenderPcs
  <2>3. \E pc \in Decisions \cup {"suspend", "persist", "halt"} : Goto(pc)
    BY <1>5, AnswerFacts DEF SenderRevoked, SenderSuspend, SenderMark
  <2>4. QED
    BY <2>1, <2>2, <2>3 DEF Goto
<1>6. QED
  BY <1>1, <1>2, <1>3, <1>4, <1>5 DEF SendStep, SenderStep

\* Every step of the system leaves the sender in its domain.
LEMMA SenderTypeStep == TypeOK /\ SenderInv /\ Next => SenderTypeOK'
<1> SUFFICES ASSUME TypeOK, SenderInv, Next PROVE SenderTypeOK'
  OBVIOUS
<1>a. snd \in SenderRecord /\ answered \subseteq 1..(nextId - 1)
  BY DEF TypeOK, SenderTypeOK
<1>b. 1..(nextId - 1) \subseteq 1..(nextId' - 1)
  BY NextIdGrows DEF TypeOK, StoreTypeOK
<1>c. Idle \in SenderRecord
  BY DEF Idle, SenderRecord, SenderPcs
<1>1. CASE ClockStep
  <2>1. TimerMoved \in Nat \/ UNCHANGED snd
    BY <1>1, <1>a DEF ClockStep, ClockBack, TimerMoved, SenderRecord, TypeOK, RuntimeTypeOK
  <2>2. UNCHANGED snd \/ snd' = [snd EXCEPT !.until = TimerMoved]
    BY <1>1 DEF ClockStep
  <2>3. snd' \in SenderRecord
    BY <1>a, <2>1, <2>2 DEF SenderRecord
  <2>4. QED
    BY <1>1, <1>a, <1>b, <2>3 DEF ClockStep, SenderTypeOK
<1>2. CASE SendStep
  <2>1. answered' \subseteq 1..(nextId' - 1)
    <3>1. CASE SenderAnswer
      <4>1. snd.id \in 1..(nextId - 1)
        BY <3>1 DEF SenderAnswer, SenderInv, Holding
      <4>2. QED
        BY <3>1, <4>1, <1>a, <1>b, AnswerFacts
    <3>2. CASE answered' = answered
      BY <3>2, <1>a, <1>b
    <3>3. QED
      BY <1>2, <3>1, <3>2 DEF SendStep, SenderStep, SenderLoop, SenderQuery, SenderIdle, SenderWait,
         SenderExpire, SenderComplete, SenderRetry, SenderRevoked, SenderSuspend, SenderPersist,
         SenderMark, SenderHalt
  <2>2. QED
    BY <1>2, <2>1, SenderRecordStep DEF SenderTypeOK
<1>3. CASE Start \/ Crash \/ Stopped
  <2>1. snd' = Idle /\ answered' = answered
    BY <1>3 DEF Start, Crash, Stopped, Die, FreshProcesses
  <2>2. QED
    BY <2>1, <1>a, <1>b, <1>c DEF SenderTypeOK
<1>4. CASE AdmitStep \/ GateStep \/ SweepStep \/ Cancel \/ OperatorStep
  <2>1. UNCHANGED senderVars
    BY <1>4 DEF AdmitStep, GateStep, PreflightStep, RefreshStep, SweepStep, Cancel, OperatorStep,
       EditToken, ResumeSend, ResumeDiscard
  <2>2. QED
    BY <2>1, <1>a, <1>b DEF senderVars, SenderTypeOK
<1>5. QED
  BY <1>1, <1>2, <1>3, <1>4 DEF Next

----------------------------------------------------------------------------
(* The gate goroutines and the sweeper *)

\* Every step of the system leaves preflight and refresher goroutines in their domains.
LEMMA PreflightTypeStep == TypeOK /\ Next => PreflightTypeOK'
<1> SUFFICES ASSUME TypeOK, Next PROVE PreflightTypeOK'
  OBVIOUS
<1> DEFINE PfTask == [pc : {"off", "attempt", "http", "persist", "backoff"}, put : GatePut]
           MrTask == [pc : {"sleep", "http", "persist"}, put : GatePut]
<1>a. pf \in [Readers -> PfTask] /\ mr \in [Readers -> MrTask]
  BY DEF TypeOK, PreflightTypeOK
<1>b. UNCHANGED gateTaskVars => PreflightTypeOK'
  BY <1>a DEF PreflightTypeOK, gateTaskVars
<1>c. \A pc \in {"off", "attempt", "http", "backoff"} : Task(pc) \in PfTask
  BY DEF Task, NoPut, GatePut, GateStates, Fingerprints
<1>d. \A pc \in {"sleep", "http"} : Task(pc) \in MrTask
  BY DEF Task, NoPut, GatePut, GateStates, Fingerprints
<1>1. CASE GateStep
  <2>1. ASSUME NEW r \in Readers, PreflightSend(r) \/ PreflightAnswer(r) \/ PreflightPersist(r)
        PROVE  \E t \in PfTask : pf' = [pf EXCEPT ![r] = t]
    <3>1. CASE PreflightSend(r) \/ PreflightPersist(r)
      BY <3>1, <1>c DEF PreflightSend, PreflightPersist
    <3>2. CASE PreflightAnswer(r)
      <4>1. \E put \in GatePut : Settle(r, put)
        BY <3>2, VerdictTypes DEF PreflightAnswer, GateStates, SuspendedStates
      <4>2. QED
        BY <4>1 DEF Settle
    <3>3. QED
      BY <2>1, <3>1, <3>2
  <2>2. ASSUME NEW r \in Readers, RefreshSend(r) \/ RefreshAnswer(r) \/ RefreshPersist(r)
        PROVE  \E t \in MrTask : mr' = [mr EXCEPT ![r] = t]
    <3>1. CASE RefreshSend(r) \/ RefreshPersist(r)
      BY <3>1, <1>d DEF RefreshSend, RefreshPersist
    <3>2. CASE RefreshAnswer(r)
      <4>1. ASSUME NEW c \in Cooldowns, NEW meta \in GateMeta
            PROVE  [pc |-> "persist", put |-> [state |-> RefreshState(c), fp |-> entry[r].fp, meta |-> meta]]
                     \in MrTask
        <5>1. RefreshState(c) \in GateStates
          BY DEF RefreshState, GateStates, SendableStates
        <5>2. entry[r].fp \in Fingerprints
          BY DEF TypeOK, RegistryTypeOK, GateEntry
        <5>3. QED
          BY <5>1, <5>2 DEF GatePut
      <4>2. QED
        BY <3>2, <4>1, <1>d, VerdictTypes DEF RefreshAnswer
    <3>3. QED
      BY <2>2, <3>1, <3>2
  <2>3. CASE PreflightStep
    BY <2>1, <2>3, <1>a DEF PreflightStep, PreflightTypeOK
  <2>4. CASE RefreshStep
    BY <2>2, <2>4, <1>a DEF RefreshStep, PreflightTypeOK
  <2>5. QED
    BY <1>1, <2>3, <2>4 DEF GateStep
<1>2. CASE Start \/ Crash \/ Stopped
  <2>1. mr' = [r \in Readers |-> Task("sleep")]
    BY <1>2 DEF Start, Crash, Stopped, Die, FreshProcesses
  <2>2. pf' \in [Readers -> {Task("off"), Task("attempt")}]
    BY <1>2 DEF Start, Crash, Stopped, Die
  <2>3. pf' \in [Readers -> PfTask] /\ mr' \in [Readers -> MrTask]
    BY <1>c, <1>d, <2>1, <2>2
  <2>4. QED
    BY <2>3 DEF PreflightTypeOK
<1>3. CASE ClockStep \/ AdmitStep \/ SendStep \/ SweepStep \/ Cancel \/ OperatorStep
  <2>1. UNCHANGED gateTaskVars
    BY <1>3 DEF ClockStep, AdmitStep, SendStep, SweepStep, Cancel, OperatorStep, EditToken, ResumeSend,
       ResumeDiscard
  <2>2. QED
    BY <2>1, <1>b
<1>4. QED
  BY <1>1, <1>2, <1>3 DEF Next

\* Every step of the system leaves the sweeper and the ghosts of the operator in their domains.
LEMMA SweeperTypeStep == TypeOK /\ Next => SweeperTypeOK'
<1> SUFFICES ASSUME TypeOK, Next PROVE SweeperTypeOK'
  OBVIOUS
<1>a. /\ sw \in [pc : {"sleep", "cleanup"}, now : Nat]
      /\ discarded \subseteq 1..(nextId - 1)
      /\ released \subseteq 1..(nextId - 1)
      /\ clock \in Nat
  BY DEF TypeOK, SweeperTypeOK, RuntimeTypeOK
<1>b. 1..(nextId - 1) \subseteq 1..(nextId' - 1)
  BY NextIdGrows DEF TypeOK, StoreTypeOK
<1>c. SleepingSweeper \in [pc : {"sleep", "cleanup"}, now : Nat]
  BY DEF SleepingSweeper
<1>1. CASE SweepStep
  <2>1. sw' \in [pc : {"sleep", "cleanup"}, now : Nat]
    BY <1>1, <1>a, <1>c DEF SweepStep, SweepExpire, SweepCleanup
  <2>2. UNCHANGED operatorVars
    BY <1>1 DEF SweepStep
  <2>3. QED
    BY <2>1, <2>2, <1>a, <1>b DEF SweeperTypeOK, operatorVars
<1>2. CASE OperatorStep
  <2>1. PICK r \in Readers : EditToken(r) \/ ResumeSend(r) \/ ResumeDiscard(r)
    BY <1>2 DEF OperatorStep
  <2>2. Pending(r) \subseteq 1..(nextId - 1)
    BY DEF Pending, TypeOK, StoreTypeOK
  <2>3. UNCHANGED sw
    BY <2>1 DEF EditToken, ResumeSend, ResumeDiscard
  <2>4. /\ discarded' = discarded \/ discarded' = discarded \cup Pending(r)
        /\ released' = released \/ released' = released \cup Pending(r)
    BY <2>1 DEF EditToken, ResumeSend, ResumeDiscard, operatorVars
  <2>5. QED
    BY <2>2, <2>3, <2>4, <1>a, <1>b DEF SweeperTypeOK
<1>3. CASE Start \/ Crash \/ Stopped
  <2>1. sw' = SleepingSweeper /\ UNCHANGED operatorVars
    BY <1>3 DEF Start, Crash, Stopped, Die, FreshProcesses
  <2>2. QED
    BY <2>1, <1>a, <1>b, <1>c DEF SweeperTypeOK, operatorVars
<1>4. CASE ClockStep \/ AdmitStep \/ SendStep \/ GateStep \/ Cancel
  <2>1. UNCHANGED sw /\ UNCHANGED operatorVars
    BY <1>4 DEF ClockStep, AdmitStep, SendStep, GateStep, Cancel
  <2>2. QED
    BY <2>1, <1>a, <1>b DEF SweeperTypeOK, operatorVars
<1>5. QED
  BY <1>1, <1>2, <1>3, <1>4 DEF Next

\* Every step of every goroutine, of the operator and of the clock keeps all
\* state in its domain.
LEMMA TypeStep == TypeOK /\ SenderInv /\ Next => TypeOK'
BY RuntimeTypeStep, StoreTypeStep, RegistryTypeStep, AdmissionTypeStep, SenderTypeStep,
   PreflightTypeStep, SweeperTypeStep DEF TypeOK

-----------------------------------------------------------------------------
(* The inductive invariant *)

\* The latest time shown, the answers and the discards only grow, and what an
\* id was accepted as never changes.
LEMMA Monotone ==
  ASSUME TypeOK, Next
  PROVE  /\ clockMax' \in Nat /\ clockMax <= clockMax'
         /\ answered \subseteq answered' /\ discarded \subseteq discarded'
         /\ \A i \in 1..(nextId - 1) : accepted'[i] = accepted[i]
<1> USE DEF TypeOK
<1>1. clockMax' \in Nat /\ clockMax <= clockMax'
  <2>1. CASE ClockStep
    BY <2>1 DEF ClockStep, Tick, ClockBack, RuntimeTypeOK
  <2>2. CASE clockMax' = clockMax
    BY <2>2 DEF RuntimeTypeOK
  <2>3. QED
    BY <2>1, <2>2 DEF Next, AdmitStep, AdmissionStep, SendStep, SenderStep, GateStep, PreflightStep,
       RefreshStep, SweepStep, Start, Crash, Cancel, Stopped, Die, OperatorStep, EditToken, ResumeSend,
       ResumeDiscard
<1>2. answered \subseteq answered'
  <2>1. CASE SendStep
    <3>1. CASE SenderAnswer
      BY <3>1, AnswerFacts
    <3>2. QED
      BY <2>1, <3>1 DEF SendStep, SenderStep, SenderLoop, SenderQuery, SenderIdle, SenderWait,
         SenderExpire, SenderComplete, SenderRetry, SenderRevoked, SenderSuspend, SenderPersist,
         SenderMark, SenderHalt
  <2>2. CASE AdmitStep \/ GateStep \/ SweepStep \/ Cancel \/ OperatorStep
    <3>1. UNCHANGED senderVars
      BY <2>2 DEF AdmitStep, GateStep, PreflightStep, RefreshStep, SweepStep, Cancel, OperatorStep,
         EditToken, ResumeSend, ResumeDiscard
    <3>2. QED
      BY <3>1 DEF senderVars
  <2>3. CASE ClockStep \/ Start \/ Crash \/ Stopped
    BY <2>3 DEF ClockStep, Start, Crash, Stopped, Die
  <2>4. QED
    BY <2>1, <2>2, <2>3 DEF Next
<1>3. discarded \subseteq discarded'
  <2>1. CASE OperatorStep
    BY <2>1 DEF OperatorStep, EditToken, ResumeSend, ResumeDiscard, operatorVars
  <2>2. CASE UNCHANGED operatorVars
    BY <2>2 DEF operatorVars
  <2>3. QED
    BY <2>1, <2>2 DEF Next, ClockStep, AdmitStep, SendStep, GateStep, SweepStep, Start, Crash, Cancel,
       Stopped, Die
<1>4. \A i \in 1..(nextId - 1) : accepted'[i] = accepted[i]
  <2>a. UNCHANGED storeVars => UNCHANGED accepted
    BY DEF storeVars
  <2>1. CASE AdmitStep
    <3>1. PICK r \in Readers : HandleCheck(r) \/ HandleAdmit(r) \/ HandleWake(r)
      BY <2>1 DEF AdmitStep, AdmissionStep
    <3>2. UNCHANGED storeVars \/ InsertRow(r, adm[r].epc, adm[r].at, ScanBooth(r))
      BY <3>1 DEF HandleCheck, HandleAdmit, HandleWake
    <3>3. QED
      BY <3>2, <2>a DEF InsertRow, StoreTypeOK
  <2>2. CASE SendStep
    <3>1. \/ UNCHANGED storeVars
          \/ CompleteRow(snd.id) \/ RetryLater(snd.id, RetryAt) \/ MarkAttemptKeepDue(snd.id)
          \/ SetGate(snd.reader, RevokedPut)
      BY <2>2 DEF SendStep, SenderStep, SenderLoop, SenderQuery, SenderIdle, SenderWait, SenderAnswer,
         SenderExpire, SenderComplete, SenderRetry, SenderRevoked, SenderSuspend, SenderPersist,
         SenderMark, SenderHalt, OrFail
    <3>2. UNCHANGED accepted
      BY <3>1, <2>a DEF CompleteRow, DeleteRows, RetryLater, MarkAttemptKeepDue, SetGate
    <3>3. QED
      BY <3>2
  <2>3. CASE GateStep
    <3>1. UNCHANGED storeVars \/ \E r \in Readers : \E put \in {pf[r].put, mr[r].put} : SetGate(r, put)
      BY <2>3 DEF GateStep, PreflightStep, RefreshStep, PreflightSend, PreflightAnswer,
         PreflightPersist, RefreshSend, RefreshAnswer, RefreshPersist, OrFail
    <3>2. QED
      BY <3>1, <2>a DEF SetGate
  <2>4. CASE SweepStep
    BY <2>4, <2>a DEF SweepStep, SweepExpire, SweepCleanup, OrFail, ExpireBefore, DeleteRows, CleanupDebounce
  <2>5. CASE ClockStep \/ Start \/ Crash \/ Cancel \/ Stopped
    BY <2>5, <2>a DEF ClockStep, Start, Crash, Cancel, Stopped, Die
  <2>6. CASE OperatorStep
    BY <2>6, <2>a DEF OperatorStep, EditToken, ResumeSend, ResumeDiscard, SetGate
  <2>7. QED
    BY <2>1, <2>2, <2>3, <2>4, <2>5, <2>6 DEF Next
<1>5. QED
  BY <1>1, <1>2, <1>3, <1>4

----------------------------------------------------------------------------
(* The queue *)

\* A row is still what it was.
RowKept(i) == /\ queue'[i].reader = queue[i].reader
              /\ queue'[i].epc = queue[i].epc
              /\ queue'[i].checked = queue[i].checked

\* A good reason for a row to be gone.
Gone(i) == i \in answered' \/ i \in discarded' \/ accepted[i].checked + MaxAge < clockMax'

\* A step that inserts nothing keeps or settles every row.
RowsKept == /\ nextId' = nextId
            /\ accepted' = accepted
            /\ DOMAIN queue' \subseteq DOMAIN queue
            /\ \A i \in DOMAIN queue' : RowKept(i)
            /\ \A i \in DOMAIN queue \ DOMAIN queue' : Gone(i)

\* Every step of the system inserts one row or keeps or settles all of them.
LEMMA QueueStep ==
  ASSUME IInv, Next
  PROVE  \/ RowsKept
         \/ \E r \in Readers, e \in EPCs, at \in Nat, b \in Booths \cup {Empty} : InsertRow(r, e, at, b)
<1> USE DEF IInv, TypeOK
<1>a. UNCHANGED storeVars => RowsKept
  BY DEF storeVars, RowsKept, RowKept
<1>b. ASSUME NEW ids, DeleteRows(ids), \A i \in ids \cap DOMAIN queue : Gone(i)
      PROVE  RowsKept
  BY <1>b DEF DeleteRows, RowsKept, RowKept
<1>c. ASSUME NEW r, NEW put, SetGate(r, put) PROVE RowsKept
  BY <1>c DEF SetGate, RowsKept, RowKept
<1>1. CASE AdmitStep
  <2>1. PICK r \in Readers : HandleCheck(r) \/ HandleAdmit(r) \/ HandleWake(r)
    BY <1>1 DEF AdmitStep, AdmissionStep
  <2>2. UNCHANGED storeVars \/ (adm[r].pc = "admit" /\ InsertRow(r, adm[r].epc, adm[r].at, ScanBooth(r)))
    BY <2>1 DEF HandleCheck, HandleAdmit, HandleWake
  <2>3. ScanBooth(r) \in Booths \cup {Empty}
    BY DomainAssumption DEF ScanBooth, RuntimeTypeOK
  <2>4. adm[r].pc = "admit" => adm[r].epc \in EPCs /\ adm[r].at \in Nat
    BY DEF AdmissionTypeOK, Handler
  <2>5. QED
    BY <2>2, <2>3, <2>4, <1>a
<1>2. CASE SendStep
  <2>1. CASE SenderExpire
    <3>1. accepted[snd.id].checked + MaxAge < clockMax'
      <4>1. /\ snd.checked + MaxAge < snd.now /\ snd.now <= clockMax
            /\ snd.id \in 1..(nextId - 1) /\ snd.checked = accepted[snd.id].checked
        BY <2>1 DEF SenderExpire, SenderInv, Holding
      <4>2. snd.checked \in Nat /\ snd.now \in Nat /\ clockMax \in Nat /\ MaxAge \in Nat
        BY RuntimeAssumption DEF SenderTypeOK, SenderRecord, RuntimeTypeOK
      <4>3. QED
        BY <4>1, <4>2, Monotone
    <3>2. UNCHANGED storeVars \/ DeleteRows({snd.id})
      BY <2>1 DEF SenderExpire, OrFail, CompleteRow
    <3>3. QED
      BY <1>a, <1>b, <3>1, <3>2 DEF Gone
  <2>2. CASE SenderComplete \/ SenderRevoked
    <3>1. snd.id \in answered'
      BY <2>2, Monotone DEF SenderComplete, SenderRevoked, SenderInv, Terminal
    <3>2. UNCHANGED storeVars \/ DeleteRows({snd.id})
      BY <2>2 DEF SenderComplete, SenderRevoked, OrFail, CompleteRow
    <3>3. QED
      BY <1>a, <1>b, <3>1, <3>2 DEF Gone
  <2>3. CASE SenderRetry
    <3>1. UNCHANGED storeVars \/ RetryLater(snd.id, RetryAt)
      BY <2>3 DEF SenderRetry, OrFail
    <3>2. \A i \in DOMAIN queue : LET row == [queue[i] EXCEPT !.attempts = @ + 1, !.next = RetryAt] IN
            row.reader = queue[i].reader /\ row.epc = queue[i].epc /\ row.checked = queue[i].checked
      BY DEF StoreTypeOK, QueueRow
    <3>3. ASSUME RetryLater(snd.id, RetryAt) PROVE RowsKept
      <4>1. DOMAIN queue' = DOMAIN queue /\ nextId' = nextId /\ accepted' = accepted
        BY <3>3 DEF RetryLater
      <4>2. \A i \in DOMAIN queue : RowKept(i)
        BY <3>2, <3>3 DEF RetryLater, RowKept
      <4>3. QED
        BY <4>1, <4>2 DEF RowsKept
    <3>4. QED
      BY <3>1, <3>3, <1>a
  <2>4. CASE SenderMark
    <3>1. UNCHANGED storeVars \/ MarkAttemptKeepDue(snd.id)
      BY <2>4 DEF SenderMark, OrFail
    <3>2. \A i \in DOMAIN queue : LET row == [queue[i] EXCEPT !.attempts = @ + 1] IN
            row.reader = queue[i].reader /\ row.epc = queue[i].epc /\ row.checked = queue[i].checked
      BY DEF StoreTypeOK, QueueRow
    <3>3. ASSUME MarkAttemptKeepDue(snd.id) PROVE RowsKept
      <4>1. DOMAIN queue' = DOMAIN queue /\ nextId' = nextId /\ accepted' = accepted
        BY <3>3 DEF MarkAttemptKeepDue
      <4>2. \A i \in DOMAIN queue : RowKept(i)
        BY <3>2, <3>3 DEF MarkAttemptKeepDue, RowKept
      <4>3. QED
        BY <4>1, <4>2 DEF RowsKept
    <3>4. QED
      BY <3>1, <3>3, <1>a
  <2>5. CASE SenderPersist
    BY <2>5, <1>a, <1>c DEF SenderPersist, OrFail
  <2>6. CASE SenderLoop \/ SenderQuery \/ SenderIdle \/ SenderWait \/ SenderAnswer \/ SenderSuspend \/ SenderHalt
    BY <2>6, <1>a DEF SenderLoop, SenderQuery, SenderIdle, SenderWait, SenderAnswer, SenderSuspend, SenderHalt
  <2>7. QED
    BY <1>2, <2>1, <2>2, <2>3, <2>4, <2>5, <2>6 DEF SendStep, SenderStep
<1>3. CASE GateStep
  BY <1>3, <1>a, <1>c DEF GateStep, PreflightStep, RefreshStep, PreflightSend, PreflightAnswer,
     PreflightPersist, RefreshSend, RefreshAnswer, RefreshPersist, OrFail
<1>4. CASE SweepStep
  <2>1. \A i \in {j \in DOMAIN queue : queue[j].checked < clock - MaxAge} : Gone(i)
    <3> SUFFICES ASSUME NEW i \in DOMAIN queue, queue[i].checked < clock - MaxAge
                 PROVE  accepted[i].checked + MaxAge < clockMax'
      BY DEF Gone
    <3>1. queue[i].checked = accepted[i].checked /\ queue[i].checked \in Nat
      BY DEF QueueInv, StoreTypeOK, QueueRow
    <3>2. clock \in Nat /\ clockMax \in Nat /\ clock <= clockMax /\ MaxAge \in Nat
      BY RuntimeAssumption DEF RuntimeTypeOK
    <3>3. QED
      BY <3>1, <3>2, Monotone
  <2>2. CASE SweepExpire
    BY <2>1, <2>2, <1>a, <1>b DEF SweepExpire, ExpireBefore
  <2>3. CASE SweepCleanup
    BY <2>3, <1>a DEF SweepCleanup, OrFail, CleanupDebounce, RowsKept, RowKept
  <2>4. QED
    BY <1>4, <2>2, <2>3 DEF SweepStep
<1>5. CASE ClockStep \/ Start \/ Crash \/ Cancel \/ Stopped
  BY <1>5, <1>a DEF ClockStep, Start, Crash, Cancel, Stopped, Die, RowsKept, RowKept
<1>6. CASE OperatorStep
  <2>1. PICK r \in Readers : EditToken(r) \/ ResumeSend(r) \/ ResumeDiscard(r)
    BY <1>6 DEF OperatorStep
  <2>2. CASE EditToken(r) \/ ResumeSend(r)
    BY <2>2, <1>a, <1>c DEF EditToken, ResumeSend
  <2>3. CASE ResumeDiscard(r)
    BY <2>3 DEF ResumeDiscard, RowsKept, RowKept, Gone
  <2>4. QED
    BY <2>1, <2>2, <2>3
<1>7. QED
  BY <1>1, <1>2, <1>3, <1>4, <1>5, <1>6 DEF Next

\* Rows stay what was accepted, and none disappears without a reason.
LEMMA QueueInvStep == IInv /\ Next => QueueInv'
<1> SUFFICES ASSUME IInv, Next PROVE QueueInv'
  OBVIOUS
<1>a. nextId \in Nat /\ nextId' \in Nat /\ MaxAge \in Nat /\ clockMax \in Nat
      /\ DOMAIN queue \subseteq 1..(nextId - 1)
  BY RuntimeAssumption, NextIdGrows DEF IInv, TypeOK, StoreTypeOK, RuntimeTypeOK
<1>b. \A i \in 1..(nextId - 1) : accepted[i].checked \in Nat
  BY DEF IInv, TypeOK, StoreTypeOK, Accepted
<1>m. /\ clockMax' \in Nat /\ clockMax <= clockMax'
      /\ answered \subseteq answered' /\ discarded \subseteq discarded'
      /\ \A i \in 1..(nextId - 1) : accepted'[i] = accepted[i]
  BY Monotone DEF IInv
<1>1. CASE RowsKept
  <2>1. \A i \in DOMAIN queue' : /\ queue'[i].reader = accepted'[i].reader
                                /\ queue'[i].epc = accepted'[i].epc
                                /\ queue'[i].checked = accepted'[i].checked
    BY <1>1 DEF RowsKept, RowKept, IInv, QueueInv
  <2>2. \A i \in 1..(nextId' - 1) : i \in DOMAIN queue' \/ i \in answered' \/ i \in discarded'
                                   \/ accepted'[i].checked + MaxAge < clockMax'
    <3> SUFFICES ASSUME NEW i \in 1..(nextId - 1), i \notin DOMAIN queue', i \notin answered', i \notin discarded'
                 PROVE  accepted[i].checked + MaxAge < clockMax'
      BY <1>1 DEF RowsKept
    <3>1. CASE i \in DOMAIN queue
      BY <1>1, <3>1 DEF RowsKept, Gone
    <3>2. CASE i \notin DOMAIN queue
      <4>1. accepted[i].checked + MaxAge < clockMax
        BY <3>2, <1>m DEF IInv, QueueInv, NoSilentLoss
      <4>2. QED
        BY <4>1, <1>a, <1>b, <1>m
    <3>3. QED
      BY <3>1, <3>2
  <2>3. QED
    BY <2>1, <2>2 DEF QueueInv, NoSilentLoss
<1>2. ASSUME NEW r \in Readers, NEW e \in EPCs, NEW at \in Nat, NEW b \in Booths \cup {Empty},
             InsertRow(r, e, at, b)
      PROVE  QueueInv'
  <2>1. DOMAIN queue' = DOMAIN queue \cup {nextId} /\ nextId' = nextId + 1
    BY <1>2 DEF InsertRow
  <2>2. \A i \in DOMAIN queue : queue'[i] = queue[i] /\ accepted'[i] = accepted[i]
    BY <1>2, <1>a, <1>m DEF InsertRow
  <2>3. /\ queue'[nextId].reader = r /\ queue'[nextId].epc = e /\ queue'[nextId].checked = at
        /\ accepted'[nextId].reader = r /\ accepted'[nextId].epc = e /\ accepted'[nextId].checked = at
    BY <1>2, <1>a DEF InsertRow, IInv, TypeOK, StoreTypeOK
  <2>4. \A i \in DOMAIN queue' : /\ queue'[i].reader = accepted'[i].reader
                                /\ queue'[i].epc = accepted'[i].epc
                                /\ queue'[i].checked = accepted'[i].checked
    BY <2>1, <2>2, <2>3 DEF IInv, QueueInv
  <2>5. \A i \in 1..(nextId' - 1) : i \in DOMAIN queue' \/ i \in answered' \/ i \in discarded'
                                   \/ accepted'[i].checked + MaxAge < clockMax'
    <3> SUFFICES ASSUME NEW i \in 1..(nextId - 1), i \notin DOMAIN queue, i \notin answered, i \notin discarded
                 PROVE  accepted[i].checked + MaxAge < clockMax'
      BY <2>1, <1>a, <1>m
    <3>1. accepted[i].checked + MaxAge < clockMax
      BY DEF IInv, QueueInv, NoSilentLoss
    <3>2. QED
      BY <3>1, <1>a, <1>b, <1>m
  <2>6. QED
    BY <2>4, <2>5 DEF QueueInv, NoSilentLoss
<1>3. QED
  BY <1>1, <1>2, QueueStep

----------------------------------------------------------------------------
(* Debounce *)

\* What a step may do to the debounce marks.
LEMMA DebounceStep ==
  ASSUME IInv, Next
  PROVE  \/ UNCHANGED <<debounce, nextId, accepted>>
         \/ CleanupDebounce(sw.now - Keep)
         \/ \E r \in Readers, e \in EPCs, at \in Nat, b \in Booths \cup {Empty} :
              ~DebounceHit(r, e, at) /\ InsertRow(r, e, at, b)
<1> USE DEF IInv, TypeOK
<1>a. UNCHANGED storeVars => UNCHANGED <<debounce, nextId, accepted>>
  BY DEF storeVars
<1>1. CASE AdmitStep
  <2>1. PICK r \in Readers : HandleCheck(r) \/ HandleAdmit(r) \/ HandleWake(r)
    BY <1>1 DEF AdmitStep, AdmissionStep
  <2>2. \/ UNCHANGED storeVars
        \/ /\ adm[r].pc = "admit"
           /\ ~DebounceHit(r, adm[r].epc, adm[r].at)
           /\ InsertRow(r, adm[r].epc, adm[r].at, ScanBooth(r))
    BY <2>1 DEF HandleCheck, HandleAdmit, HandleWake
  <2>3. ScanBooth(r) \in Booths \cup {Empty}
    BY DomainAssumption DEF ScanBooth, RuntimeTypeOK
  <2>4. adm[r].pc = "admit" => adm[r].epc \in EPCs /\ adm[r].at \in Nat
    BY DEF AdmissionTypeOK, Handler
  <2>5. QED
    BY <2>2, <2>3, <2>4, <1>a
<1>2. CASE SendStep
  <2>1. \/ UNCHANGED storeVars
        \/ CompleteRow(snd.id) \/ RetryLater(snd.id, RetryAt) \/ MarkAttemptKeepDue(snd.id)
        \/ SetGate(snd.reader, RevokedPut)
    BY <1>2 DEF SendStep, SenderStep, SenderLoop, SenderQuery, SenderIdle, SenderWait, SenderAnswer,
       SenderExpire, SenderComplete, SenderRetry, SenderRevoked, SenderSuspend, SenderPersist,
       SenderMark, SenderHalt, OrFail
  <2>2. UNCHANGED storeVars \/ UNCHANGED <<debounce, nextId, accepted>>
    BY <2>1 DEF CompleteRow, DeleteRows, RetryLater, MarkAttemptKeepDue, SetGate
  <2>3. QED
    BY <2>2, <1>a
<1>3. CASE GateStep
  <2>1. UNCHANGED storeVars \/ \E r \in Readers : \E put \in {pf[r].put, mr[r].put} : SetGate(r, put)
    BY <1>3 DEF GateStep, PreflightStep, RefreshStep, PreflightSend, PreflightAnswer,
       PreflightPersist, RefreshSend, RefreshAnswer, RefreshPersist, OrFail
  <2>2. QED
    BY <2>1, <1>a DEF SetGate
<1>4. CASE SweepStep
  <2>1. UNCHANGED storeVars \/ ExpireBefore(clock - MaxAge) \/ CleanupDebounce(sw.now - Keep)
    BY <1>4 DEF SweepStep, SweepExpire, SweepCleanup, OrFail
  <2>2. QED
    BY <2>1, <1>a DEF ExpireBefore, DeleteRows
<1>5. CASE ClockStep \/ Start \/ Crash \/ Cancel \/ Stopped
  BY <1>5, <1>a DEF ClockStep, Start, Crash, Cancel, Stopped, Die
<1>6. CASE OperatorStep
  BY <1>6, <1>a DEF OperatorStep, EditToken, ResumeSend, ResumeDiscard, SetGate
<1>7. QED
  BY <1>1, <1>2, <1>3, <1>4, <1>5, <1>6 DEF Next

\* The sweeper's time is one the clock has shown.
LEMMA SweepNowStep == IInv /\ Next => sw'.now <= clockMax'
<1> SUFFICES ASSUME IInv, Next PROVE sw'.now <= clockMax'
  OBVIOUS
<1>a. clock \in Nat /\ sw.now \in Nat /\ clockMax \in Nat /\ clock <= clockMax /\ sw.now <= clockMax
  BY DEF IInv, TypeOK, RuntimeTypeOK, SweeperTypeOK, DebounceInv
<1>m. clockMax' \in Nat /\ clockMax <= clockMax'
  BY Monotone DEF IInv
<1>1. CASE SweepStep
  <2>1. sw' = [pc |-> "cleanup", now |-> clock] \/ sw' = SleepingSweeper
    BY <1>1 DEF SweepStep, SweepExpire, SweepCleanup
  <2>2. QED
    BY <2>1, <1>a, <1>m DEF SleepingSweeper
<1>2. CASE Start \/ Crash \/ Stopped
  BY <1>2, <1>m DEF Start, Crash, Stopped, Die, FreshProcesses, SleepingSweeper
<1>3. CASE ClockStep \/ AdmitStep \/ SendStep \/ GateStep \/ Cancel \/ OperatorStep
  <2>1. UNCHANGED sw
    BY <1>3 DEF ClockStep, AdmitStep, SendStep, GateStep, Cancel, OperatorStep, EditToken, ResumeSend,
       ResumeDiscard
  <2>2. QED
    BY <2>1, <1>a, <1>m
<1>4. QED
  BY <1>1, <1>2, <1>3 DEF Next

\* The time a debounce mark is kept is a natural number.
LEMMA KeepType == Keep \in Nat
BY RuntimeAssumption DEF Keep

\* Accepted scans stay remembered or old, and spaced.
LEMMA DebounceInvStep == IInv /\ Next => DebounceInv'
<1> SUFFICES ASSUME IInv, Next PROVE DebounceInv'
  OBVIOUS
<1>a. /\ nextId \in Nat \ {0} /\ clockMax \in Nat /\ sw.now \in Nat /\ sw.now <= clockMax
      /\ Keep \in Nat /\ Debounce \in Nat /\ Debounce > 0
      /\ DOMAIN debounce \subseteq Readers \X EPCs
      /\ \A k \in DOMAIN debounce : debounce[k] \in Nat
  BY KeepType, RuntimeAssumption DEF IInv, TypeOK, StoreTypeOK, RuntimeTypeOK, SweeperTypeOK, DebounceInv
<1>b. \A i \in 1..(nextId - 1) : /\ accepted[i].checked \in Nat /\ accepted[i].seen \in Nat
                                /\ accepted[i].reader \in Readers /\ accepted[i].epc \in EPCs
  BY DEF IInv, TypeOK, StoreTypeOK, Accepted
<1>m. /\ clockMax' \in Nat /\ clockMax <= clockMax'
      /\ \A i \in 1..(nextId - 1) : accepted'[i] = accepted[i]
  BY Monotone DEF IInv
<1>r. \A i \in 1..(nextId - 1) : Remembered(i)
  BY DEF IInv, DebounceInv
<1>s. sw'.now <= clockMax'
  BY SweepNowStep
<1>1. CASE UNCHANGED <<debounce, nextId, accepted>>
  <2>1. \A i \in 1..(nextId' - 1) : Remembered(i)'
    <3> SUFFICES ASSUME NEW i \in 1..(nextId - 1) PROVE Remembered(i)'
      BY <1>1
    <3>1. CASE accepted[i].checked + Keep < clockMax
      BY <1>1, <3>1, <1>a, <1>b, <1>m DEF Remembered, Keep
    <3>2. CASE ~(accepted[i].checked + Keep < clockMax)
      BY <1>1, <3>2, <1>r DEF Remembered
    <3>3. QED
      BY <3>1, <3>2
  <2>2. DebounceSpacing'
    BY <1>1 DEF IInv, DebounceInv, DebounceSpacing, Keep
  <2>3. QED
    BY <1>s, <2>1, <2>2 DEF DebounceInv
<1>2. CASE CleanupDebounce(sw.now - Keep)
  <2>1. \A i \in 1..(nextId' - 1) : Remembered(i)'
    <3> SUFFICES ASSUME NEW i \in 1..(nextId - 1) PROVE Remembered(i)'
      BY <1>2 DEF CleanupDebounce
    <3> DEFINE k == <<accepted[i].reader, accepted[i].epc>>
    <3>1. accepted' = accepted
      BY <1>2 DEF CleanupDebounce
    <3>2. CASE accepted[i].checked + Keep < clockMax
      BY <3>1, <3>2, <1>a, <1>b, <1>m DEF Remembered, Keep
    <3>3. CASE k \in DOMAIN debounce /\ debounce[k] >= accepted[i].checked
      <4>1. CASE debounce[k] < sw.now - Keep
        <5>1. accepted[i].checked + Keep < clockMax'
          BY <3>3, <4>1, <1>a, <1>b, <1>m
        <5>2. QED
          BY <3>1, <5>1 DEF Remembered, Keep
      <4>2. CASE ~(debounce[k] < sw.now - Keep)
        <5>1. k \in DOMAIN debounce' /\ debounce'[k] = debounce[k]
          BY <1>2, <3>3, <4>2 DEF CleanupDebounce
        <5>2. QED
          BY <3>1, <3>3, <5>1 DEF Remembered
      <4>3. QED
        BY <4>1, <4>2
    <3>4. QED
      BY <1>r, <3>2, <3>3 DEF Remembered
  <2>2. DebounceSpacing'
    BY <1>2 DEF IInv, DebounceInv, DebounceSpacing, Keep, CleanupDebounce
  <2>3. QED
    BY <1>s, <2>1, <2>2 DEF DebounceInv
<1>3. ASSUME NEW r \in Readers, NEW e \in EPCs, NEW at \in Nat, NEW b \in Booths \cup {Empty},
             ~DebounceHit(r, e, at), InsertRow(r, e, at, b)
      PROVE  DebounceInv'
  <2> DEFINE Same(i) == accepted[i].reader = r /\ accepted[i].epc = e
  <2>1. nextId' = nextId + 1 /\ <<r, e>> \in DOMAIN debounce' /\ debounce'[<<r, e>>] = at
    BY <1>3 DEF InsertRow
  <2>2. \A k \in DOMAIN debounce : k # <<r, e>> => k \in DOMAIN debounce' /\ debounce'[k] = debounce[k]
    BY <1>3 DEF InsertRow
  <2>3. /\ accepted'[nextId].reader = r /\ accepted'[nextId].epc = e
        /\ accepted'[nextId].checked = at /\ accepted'[nextId].seen = clockMax
    BY <1>3, <1>a DEF InsertRow
  <2>4. <<r, e>> \in DOMAIN debounce => at >= debounce[<<r, e>>] + Debounce
    BY <1>3, <1>a DEF DebounceHit, Elapsed
  <2>5. \A i \in 1..(nextId - 1) : Same(i) =>
          at >= accepted[i].checked + Debounce \/ accepted[i].checked + Keep < clockMax
    BY <2>4, <1>a, <1>b, <1>r DEF Remembered
  <2>6. \A i \in 1..(nextId' - 1) : Remembered(i)'
    <3> SUFFICES ASSUME NEW i \in 1..nextId PROVE Remembered(i)'
      BY <2>1, <1>a
    <3>1. CASE i = nextId
      BY <3>1, <2>1, <2>3 DEF Remembered
    <3>2. CASE i # nextId /\ Same(i)
      <4>1. i \in 1..(nextId - 1) /\ accepted'[i] = accepted[i]
        BY <3>2, <1>a, <1>m
      <4>2. at >= accepted[i].checked \/ accepted[i].checked + Keep < clockMax'
        BY <4>1, <3>2, <2>5, <1>a, <1>b, <1>m
      <4>3. QED
        BY <4>1, <4>2, <3>2, <2>1 DEF Remembered, Keep
    <3>3. CASE i # nextId /\ ~Same(i)
      <4>1. i \in 1..(nextId - 1) /\ accepted'[i] = accepted[i]
        BY <3>3, <1>a, <1>m
      <4>2. <<accepted[i].reader, accepted[i].epc>> # <<r, e>>
        BY <3>3
      <4>3. CASE accepted[i].checked + Keep < clockMax
        BY <4>1, <4>3, <1>a, <1>b, <1>m DEF Remembered, Keep
      <4>4. CASE ~(accepted[i].checked + Keep < clockMax)
        BY <4>1, <4>2, <4>4, <1>r, <2>2 DEF Remembered
      <4>5. QED
        BY <4>3, <4>4
    <3>4. QED
      BY <3>1, <3>2, <3>3
  <2>7. DebounceSpacing'
    <3> SUFFICES ASSUME NEW i \in 1..nextId, NEW j \in 1..nextId, i < j,
                        accepted'[i].reader = accepted'[j].reader, accepted'[i].epc = accepted'[j].epc
                 PROVE  \/ accepted'[j].checked >= accepted'[i].checked + Debounce
                        \/ accepted'[i].checked + Keep < accepted'[j].seen
      BY <2>1, <1>a DEF DebounceSpacing, Keep
    <3>1. i \in 1..(nextId - 1) /\ accepted'[i] = accepted[i]
      BY <1>a, <1>m
    <3>2. CASE j = nextId
      BY <3>1, <3>2, <2>3, <2>5
    <3>3. CASE j # nextId
      <4>1. j \in 1..(nextId - 1) /\ accepted'[j] = accepted[j]
        BY <3>3, <1>a, <1>m
      <4>2. QED
        BY <3>1, <4>1 DEF IInv, DebounceInv, DebounceSpacing
    <3>4. QED
      BY <3>2, <3>3
  <2>8. QED
    BY <1>s, <2>6, <2>7 DEF DebounceInv
<1>4. QED
  BY <1>1, <1>2, <1>3, DebounceStep

----------------------------------------------------------------------------
(* Gates *)

\* A gate nothing touches stays in order.
LEMMA GateFrame ==
  ASSUME NEW q \in Readers, GateOK(q), Alive' => Alive,
         pf'[q] = pf[q], mr'[q] = mr[q], entry'[q] = entry[q], gateRow'[q] = gateRow[q],
         cfgToken'[q] = cfgToken[q]
  PROVE  GateOK(q)'
BY DEF GateOK

\* A step that touches no gate and no gate goroutine keeps all gates in order.
LEMMA GateFrameAll ==
  ASSUME GateInv, Alive' => Alive, UNCHANGED gateTaskVars, UNCHANGED <<entry, gateRow, cfgToken>>
  PROVE  GateInv'
BY GateFrame DEF GateInv, gateTaskVars

\* The sender keeps the gates in order (404, error bind).
LEMMA GateInvSend ==
  ASSUME IInv, SendStep
  PROVE  GateInv'
<1>a. (Alive' => Alive) /\ UNCHANGED gateTaskVars /\ UNCHANGED cfgToken /\ UNCHANGED <<pf, mr>>
  BY DEF SendStep, SenderStep, Alive, gateTaskVars
<1>b. GateInv
  BY DEF IInv
<1>c. /\ UNCHANGED storeVars => UNCHANGED gateRow
      /\ UNCHANGED registryVars => UNCHANGED entry
  BY DEF storeVars, registryVars
<1>1. CASE SenderSuspend
  <2>1. PICK r \in Readers : r = snd.reader /\ Sendable(entry[r].state)
    BY <1>1 DEF SenderSuspend, IInv, SenderInv, Holding, TypeOK, StoreTypeOK, Accepted
  <2>2. /\ entry'[r].state = "SUSPENDED_TOKEN"
        /\ \A q \in Readers \ {r} : entry'[q] = entry[q]
    BY <1>1, <2>1 DEF SenderSuspend, SetEntry, RevokedPut, IInv, TypeOK, RegistryTypeOK
  <2>3. UNCHANGED gateRow
    BY <1>1, <1>c DEF SenderSuspend
  <2>4. GateOK(r)'
    <3>1. GateOK(r)
      BY <1>b, <2>1 DEF GateInv
    <3>2. QED
      BY <3>1, <1>a, <2>1, <2>2, <2>3
         DEF GateOK, Sendable, SendableStates, Unsettled, Opened, Sticky
  <2>5. \A q \in Readers \ {r} : GateOK(q)'
    BY <1>a, <1>b, <2>2, <2>3, GateFrame DEF GateInv
  <2>6. QED
    BY <2>4, <2>5 DEF GateInv
<1>2. CASE SenderPersist
  <2>0. UNCHANGED entry
    BY <1>2, <1>c DEF SenderPersist
  <2>1. CASE UNCHANGED storeVars
    BY <1>a, <1>b, <1>c, <2>0, <2>1, GateFrameAll
  <2>2. CASE SetGate(snd.reader, RevokedPut)
    <3>1. PICK r \in Readers : r = snd.reader
      BY <1>2 DEF SenderPersist, IInv, SenderInv, Holding, TypeOK, StoreTypeOK, Accepted
    <3>2. /\ gateRow'[r].state = "SUSPENDED_TOKEN"
          /\ \A q \in Readers \ {r} : gateRow'[q] = gateRow[q]
      BY <2>2, <3>1 DEF SetGate, UpsertGate, RevokedPut, IInv, TypeOK, StoreTypeOK
    <3>3. GateOK(r)'
      BY <1>a, <1>b, <2>0, <3>1, <3>2 DEF GateInv, GateOK, Sticky
    <3>4. \A q \in Readers \ {r} : GateOK(q)'
      BY <1>a, <1>b, <2>0, <3>2, GateFrame DEF GateInv
    <3>5. QED
      BY <3>3, <3>4 DEF GateInv
  <2>3. QED
    BY <1>2, <2>1, <2>2 DEF SenderPersist, OrFail
<1>3. CASE UNCHANGED <<entry, gateRow>>
  BY <1>a, <1>b, <1>3, GateFrameAll
<1>4. CASE SenderLoop \/ SenderQuery \/ SenderIdle \/ SenderWait \/ SenderAnswer \/ SenderHalt
  <2>1. UNCHANGED storeVars /\ UNCHANGED entry
    BY <1>4, <1>c DEF SenderLoop, SenderQuery, SenderIdle, SenderWait, SenderAnswer, SenderHalt, HaltGlobal
  <2>2. QED
    BY <2>1, <1>3, <1>c
<1>5. CASE SenderExpire \/ SenderComplete \/ SenderRetry \/ SenderRevoked \/ SenderMark
  <2>1. UNCHANGED registryVars
    BY <1>5 DEF SenderExpire, SenderComplete, SenderRetry, SenderRevoked, SenderMark
  <2>2. \/ UNCHANGED storeVars
        \/ CompleteRow(snd.id) \/ RetryLater(snd.id, RetryAt) \/ MarkAttemptKeepDue(snd.id)
    BY <1>5 DEF SenderExpire, SenderComplete, SenderRetry, SenderRevoked, SenderMark, OrFail
  <2>3. UNCHANGED gateRow
    BY <2>2, <1>c DEF CompleteRow, DeleteRows, RetryLater, MarkAttemptKeepDue
  <2>4. QED
    BY <2>1, <2>3, <1>3, <1>c
<1>6. QED
  BY <1>1, <1>2, <1>4, <1>5 DEF SendStep, SenderStep

\* A preflight keeps the gates in order (Preflight.attempt).
LEMMA GateInvPreflight ==
  ASSUME IInv, PreflightStep
  PROVE  GateInv'
<1>a. (Alive' => Alive) /\ UNCHANGED <<cfgToken, mr>>
  BY DEF PreflightStep, Alive
<1>b. GateInv
  BY DEF IInv
<1>c. /\ UNCHANGED storeVars => UNCHANGED gateRow
      /\ UNCHANGED registryVars => UNCHANGED entry
  BY DEF storeVars, registryVars
<1>d. DOMAIN pf = Readers /\ DOMAIN entry = Readers /\ DOMAIN gateRow = Readers
  BY DEF IInv, TypeOK, PreflightTypeOK, RegistryTypeOK, StoreTypeOK
<1>e. PICK r \in Readers : PreflightSend(r) \/ PreflightAnswer(r) \/ PreflightPersist(r)
  BY DEF PreflightStep
<1>f. GateOK(r)
  BY <1>b DEF GateInv
<1>1. CASE PreflightSend(r)
  <2>1. UNCHANGED <<entry, gateRow>>
    BY <1>1, <1>c DEF PreflightSend
  <2>2. pf[r].pc \in {"attempt", "backoff"} /\ pf'[r].pc = "http"
    BY <1>1, <1>d DEF PreflightSend, Task
  <2>3. \A q \in Readers \ {r} : pf'[q] = pf[q]
    BY <1>1, <1>d DEF PreflightSend
  <2>4. GateOK(r)'
    BY <1>a, <1>f, <2>1, <2>2 DEF GateOK
  <2>5. QED
    BY <1>a, <1>b, <2>1, <2>3, <2>4, GateFrame DEF GateInv
<1>2. CASE PreflightAnswer(r)
  <2>1. PICK put \in GatePut :
          /\ Settle(r, put)
          /\ put.fp = cfgToken[r]
          /\ Sendable(put.state) => put.meta # Empty /\ put.meta.booth = BoothOf[cfgToken[r]]
    <3>1. \A c \in Cooldowns : /\ Confirmed(entry[r], cfgToken[r], c).fp = cfgToken[r]
                               /\ Confirmed(entry[r], cfgToken[r], c).meta
                                    = [booth |-> BoothOf[cfgToken[r]], cooldown |-> c]
      BY DEF Confirmed
    <3>2. \A c \in Cooldowns : Confirmed(entry[r], cfgToken[r], c).meta # Empty
      <4>1. Empty \notin GateMeta /\ TypeOK
        BY DomainAssumption DEF IInv
      <4>2. QED
        BY <3>1, <4>1, VerdictTypes
    <3>3. \A s \in {"PREFLIGHT_RETRY", "SUSPENDED_TOKEN", "SUSPENDED_CONFIG"} :
            /\ Failed(s, cfgToken[r]).fp = cfgToken[r]
            /\ ~Sendable(Failed(s, cfgToken[r]).state)
            /\ Failed(s, cfgToken[r]) \in GatePut
      BY VerdictTypes DEF Failed, Sendable, SendableStates, IInv, GateStates, SuspendedStates
    <3>4. \/ \E s \in {"PREFLIGHT_RETRY", "SUSPENDED_TOKEN", "SUSPENDED_CONFIG"} : Settle(r, Failed(s, cfgToken[r]))
          \/ \E c \in Cooldowns : Settle(r, Confirmed(entry[r], cfgToken[r], c))
      BY <1>2 DEF PreflightAnswer
    <3>5. \A c \in Cooldowns : Confirmed(entry[r], cfgToken[r], c) \in GatePut
      BY VerdictTypes DEF IInv
    <3>6. CASE \E s \in {"PREFLIGHT_RETRY", "SUSPENDED_TOKEN", "SUSPENDED_CONFIG"} :
                 Settle(r, Failed(s, cfgToken[r]))
      BY <3>3, <3>6
    <3>7. CASE \E c \in Cooldowns : Settle(r, Confirmed(entry[r], cfgToken[r], c))
      <4>1. PICK c \in Cooldowns : Settle(r, Confirmed(entry[r], cfgToken[r], c))
        BY <3>7
      <4>2. Confirmed(entry[r], cfgToken[r], c).meta.booth = BoothOf[cfgToken[r]]
        BY DEF Confirmed
      <4>3. QED
        BY <3>1, <3>2, <3>5, <4>1, <4>2
    <3>8. QED
      BY <3>4, <3>6, <3>7
  <2>2. cfgToken[r] # Empty
    BY DomainAssumption DEF IInv, TypeOK, RuntimeTypeOK
  <2>3. /\ entry'[r].state = put.state /\ entry'[r].fp = cfgToken[r]
        /\ put.meta # Empty => entry'[r].meta = put.meta
        /\ pf'[r] = [pc |-> "persist", put |-> put]
    BY <1>d, <2>1, <2>2 DEF Settle, SetEntry
  <2>4. \A q \in Readers \ {r} : pf'[q] = pf[q] /\ entry'[q] = entry[q]
    BY <1>d, <2>1 DEF Settle, SetEntry
  <2>5. UNCHANGED gateRow
    BY <1>2, <1>c DEF PreflightAnswer
  <2>6. entry[r].state \in Unsettled
    BY <1>2, <1>f DEF PreflightAnswer, GateOK
  <2>7. mr[r].pc # "persist" /\ ~(Alive /\ gateRow[r].state \in Sticky)
    BY <1>f, <2>6 DEF GateOK, Unsettled, Opened, Sticky, SendableStates
  <2>8. GateOK(r)'
    BY <1>a, <2>1, <2>3, <2>5, <2>7 DEF GateOK, Sendable, Opened
  <2>9. QED
    BY <1>a, <1>b, <2>4, <2>5, <2>8, GateFrame DEF GateInv
<1>3. CASE PreflightPersist(r)
  <2>1. UNCHANGED entry
    BY <1>3, <1>c DEF PreflightPersist
  <2>2. /\ pf[r].pc = "persist"
        /\ pf'[r].pc = IF pf[r].put.state = "PREFLIGHT_RETRY" THEN "backoff" ELSE "off"
    BY <1>3, <1>d DEF PreflightPersist, Task
  <2>3. gateRow'[r] = gateRow[r] \/ gateRow'[r].state = pf[r].put.state
    BY <1>3, <1>c, <1>d DEF PreflightPersist, OrFail, SetGate, UpsertGate
  <2>4. \A q \in Readers \ {r} : pf'[q] = pf[q] /\ gateRow'[q] = gateRow[q]
    BY <1>3, <1>c, <1>d DEF PreflightPersist, OrFail, SetGate
  <2>5. GateOK(r)'
    <3>1. pf'[r].pc = "backoff" => entry[r].state \in Unsettled
      BY <1>f, <2>2 DEF GateOK, Unsettled, SendableStates
    <3>2. Alive /\ gateRow'[r].state \in Sticky =>
            /\ entry[r].state = gateRow'[r].state /\ pf'[r].pc = "off" /\ mr[r].pc # "persist"
      <4>1. CASE gateRow'[r] = gateRow[r]
        BY <1>f, <2>2, <4>1 DEF GateOK
      <4>2. CASE gateRow'[r].state = pf[r].put.state
        BY <1>f, <2>2, <4>2 DEF GateOK, Sticky, SendableStates, Opened
      <4>3. QED
        BY <2>3, <4>1, <4>2
    <3>3. pf'[r].pc \in {"backoff", "off"}
      BY <2>2
    <3>4. QED
      BY <1>a, <1>f, <2>1, <3>1, <3>2, <3>3 DEF GateOK
  <2>6. QED
    BY <1>a, <1>b, <2>1, <2>4, <2>5, GateFrame DEF GateInv
<1>4. QED
  BY <1>e, <1>1, <1>2, <1>3

\* A meta refresh keeps the gates in order (MetaRefresher.tick, RefreshMeta).
LEMMA GateInvRefresh ==
  ASSUME IInv, RefreshStep
  PROVE  GateInv'
<1>a. (Alive' => Alive) /\ UNCHANGED <<cfgToken, pf>>
  BY DEF RefreshStep, Alive
<1>b. GateInv
  BY DEF IInv
<1>c. /\ UNCHANGED storeVars => UNCHANGED gateRow
      /\ UNCHANGED registryVars => UNCHANGED entry
  BY DEF storeVars, registryVars
<1>d. DOMAIN mr = Readers /\ DOMAIN entry = Readers /\ DOMAIN gateRow = Readers
      /\ \A q \in Readers : entry[q] \in GateEntry
  BY DEF IInv, TypeOK, PreflightTypeOK, RegistryTypeOK, StoreTypeOK
<1>e. PICK r \in Readers : RefreshSend(r) \/ RefreshAnswer(r) \/ RefreshPersist(r)
  BY DEF RefreshStep
<1>f. GateOK(r)
  BY <1>b DEF GateInv
<1>1. CASE UNCHANGED <<entry, gateRow>> /\ mr'[r].pc # "persist" /\ \A q \in Readers \ {r} : mr'[q] = mr[q]
  <2>1. GateOK(r)'
    BY <1>a, <1>f, <1>1 DEF GateOK
  <2>2. QED
    BY <1>a, <1>b, <1>1, <2>1, GateFrame DEF GateInv
<1>2. CASE RefreshSend(r)
  BY <1>1, <1>2, <1>c, <1>d DEF RefreshSend, Task
<1>3. CASE RefreshAnswer(r)
  <2>1. CASE mr' = [mr EXCEPT ![r] = Task("sleep")] /\ UNCHANGED registryVars
    BY <1>1, <1>3, <1>c, <1>d, <2>1 DEF RefreshAnswer, Task
  <2>2. ASSUME NEW c \in Cooldowns, NEW meta, meta = [booth |-> BoothOf[cfgToken[r]], cooldown |-> c],
               RefreshApplies(r, RefreshState(c), meta), RefreshMeta(r, RefreshState(c), meta),
               mr' = [mr EXCEPT ![r] = [pc |-> "persist",
                        put |-> [state |-> RefreshState(c), fp |-> entry[r].fp, meta |-> meta]]]
        PROVE  GateInv'
    <3>1. Sendable(entry[r].state) /\ RefreshState(c) \in SendableStates
      BY <2>2 DEF RefreshApplies, RefreshState, SendableStates
    <3>2. entry'[r] = [entry[r] EXCEPT !.state = RefreshState(c), !.meta = meta]
      BY <1>d, <2>2 DEF RefreshMeta
    <3>3. entry'[r].state = RefreshState(c) /\ entry'[r].fp = entry[r].fp /\ entry'[r].meta = meta
      BY <1>d, <3>2 DEF GateEntry
    <3>4. \A q \in Readers \ {r} : entry'[q] = entry[q] /\ mr'[q] = mr[q]
      BY <1>d, <2>2 DEF RefreshMeta
    <3>5. mr'[r].put.state = RefreshState(c)
      BY <1>d, <2>2
    <3>6. UNCHANGED gateRow
      BY <1>3, <1>c DEF RefreshAnswer
    <3>7. GateOK(r)'
      <4>1. pf[r].pc \notin {"attempt", "http", "backoff"}
        BY <1>f, <3>1 DEF GateOK, Sendable, SendableStates, Unsettled
      <4>2. pf[r].pc = "persist" => pf[r].put.state \in SendableStates
        BY <1>f, <3>1 DEF GateOK
      <4>3. ~(Alive /\ gateRow[r].state \in Sticky)
        BY <1>f, <3>1 DEF GateOK, Sendable, SendableStates, Sticky
      <4>4. entry'[r].fp = cfgToken[r] /\ entry'[r].meta.booth = BoothOf[cfgToken[r]]
        BY <1>f, <2>2, <3>1, <3>3 DEF GateOK
      <4>5. QED
        BY <1>a, <3>1, <3>3, <3>5, <3>6, <4>1, <4>2, <4>3, <4>4 DEF GateOK, Opened
    <3>8. QED
      BY <1>a, <1>b, <3>4, <3>6, <3>7, GateFrame DEF GateInv
  <2>3. QED
    BY <1>3, <2>1, <2>2 DEF RefreshAnswer
<1>4. CASE RefreshPersist(r)
  <2>1. UNCHANGED entry /\ mr[r].pc = "persist" /\ mr'[r].pc = "sleep"
    BY <1>4, <1>c, <1>d DEF RefreshPersist, Task
  <2>2. gateRow'[r] = gateRow[r] \/ gateRow'[r].state = mr[r].put.state
    BY <1>4, <1>c, <1>d DEF RefreshPersist, OrFail, SetGate, UpsertGate
  <2>3. \A q \in Readers \ {r} : mr'[q] = mr[q] /\ gateRow'[q] = gateRow[q]
    BY <1>4, <1>c, <1>d DEF RefreshPersist, OrFail, SetGate
  <2>4. GateOK(r)'
    <3>1. Alive => gateRow'[r].state \notin Sticky
      BY <1>f, <2>1, <2>2 DEF GateOK, Sticky, SendableStates
    <3>2. QED
      BY <1>a, <1>f, <2>1, <3>1 DEF GateOK
  <2>5. QED
    BY <1>a, <1>b, <2>1, <2>3, <2>4, GateFrame DEF GateInv
<1>5. QED
  BY <1>e, <1>2, <1>3, <1>4

\* Start-up puts the gates in order (app.Run).
LEMMA GateInvStart ==
  ASSUME IInv, Start
  PROVE  GateInv'
<1> SUFFICES ASSUME NEW r \in Readers PROVE GateOK(r)'
  BY DEF GateInv
<1>1. mr'[r].pc = "sleep"
  BY DEF Start, FreshProcesses, Task
<1>2. pf'[r].pc = IF Suspended(entry'[r].state) THEN "off" ELSE "attempt"
  BY DEF Start, Task
<1>3. \/ Suspended(gateRow[r].state) /\ entry'[r].state = gateRow[r].state
      \/ (Suspended(gateRow[r].state) => TokenReplaced(r)) /\ entry'[r].state = "PREFLIGHT_PENDING"
  BY StartFacts
<1>4. gateRow'[r] = gateRow[r] \/ gateRow'[r].state = "PREFLIGHT_PENDING"
  BY StartFacts DEF UpsertGate, ReplacedPut
<1>5. gateRow'[r].state \in Sticky => Suspended(gateRow[r].state) /\ entry'[r].state = gateRow'[r].state
  BY <1>3, <1>4 DEF Sticky, Suspended, SuspendedStates, TokenReplaced
<1>6. ~Sendable(entry'[r].state) /\ (~Suspended(entry'[r].state) => entry'[r].state \in Unsettled)
  BY <1>3 DEF Sendable, SendableStates, Suspended, SuspendedStates, Unsettled
<1>7. QED
  BY <1>1, <1>2, <1>5, <1>6 DEF GateOK, Sticky, Suspended, SuspendedStates

\* Gates and the goroutines that serve them stay in order.
LEMMA GateInvStep == IInv /\ Next => GateInv'
<1> SUFFICES ASSUME IInv, Next PROVE GateInv'
  OBVIOUS
<1>b. GateInv
  BY DEF IInv
<1>c. /\ UNCHANGED storeVars => UNCHANGED gateRow
      /\ UNCHANGED registryVars => UNCHANGED entry
  BY DEF storeVars, registryVars
<1>1. CASE SendStep
  BY <1>1, GateInvSend
<1>2. CASE GateStep
  BY <1>2, GateInvPreflight, GateInvRefresh DEF GateStep
<1>3. CASE Start
  BY <1>3, GateInvStart
<1>4. CASE ClockStep \/ AdmitStep \/ SweepStep \/ Cancel
  <2>1. (Alive' => Alive) /\ UNCHANGED cfgToken /\ UNCHANGED gateTaskVars /\ UNCHANGED registryVars
    BY <1>4 DEF ClockStep, Tick, ClockBack, AdmitStep, AdmissionStep, SweepStep, Cancel, Running, Alive
  <2>2. UNCHANGED gateRow
    BY <1>4, <1>c DEF ClockStep, AdmitStep, AdmissionStep, HandleCheck, HandleAdmit, HandleWake, InsertRow,
       SweepStep, SweepExpire, SweepCleanup, OrFail, ExpireBefore, DeleteRows, CleanupDebounce, Cancel
  <2>3. QED
    BY <1>b, <1>c, <2>1, <2>2, GateFrameAll
<1>5. CASE Crash \/ Stopped
  <2>1. \A r \in Readers : entry'[r] = FreshEntry /\ pf'[r].pc = "off" /\ mr'[r].pc = "sleep"
    BY <1>5 DEF Crash, Stopped, Die, FreshProcesses, Task
  <2>2. ~Alive'
    BY <1>5 DEF Crash, Stopped, Die, Alive
  <2>3. QED
    BY <2>1, <2>2 DEF GateInv, GateOK, FreshEntry, Sendable, SendableStates
<1>6. CASE OperatorStep
  <2>1. life = "down" /\ life' = "down" /\ UNCHANGED gateTaskVars /\ UNCHANGED registryVars
    BY <1>6 DEF OperatorStep, EditToken, ResumeSend, ResumeDiscard
  <2>2. \A r \in Readers : entry'[r] = FreshEntry /\ pf'[r].pc = "off" /\ mr'[r].pc = "sleep"
    BY <1>c, <2>1 DEF IInv, DownInv, gateTaskVars, Task
  <2>3. QED
    BY <2>1, <2>2 DEF GateInv, GateOK, FreshEntry, Sendable, SendableStates, Alive
<1>7. QED
  BY <1>1, <1>2, <1>3, <1>4, <1>5, <1>6 DEF Next

\* A gate goroutine neither closes an open gate nor reopens a closed one.
LEMMA GateKept ==
  ASSUME IInv, GateStep, NEW r \in Readers
  PROVE  /\ Sendable(entry[r].state) => Sendable(entry'[r].state)
         /\ Suspended(entry[r].state) => entry'[r].state = entry[r].state
<1>c. UNCHANGED registryVars => UNCHANGED entry
  BY DEF registryVars
<1>d. DOMAIN entry = Readers /\ \A q \in Readers : entry[q] \in GateEntry
  BY DEF IInv, TypeOK, RegistryTypeOK
<1>1. CASE UNCHANGED registryVars
  BY <1>1, <1>c
<1>2. ASSUME NEW q \in Readers, PreflightAnswer(q)
      PROVE  entry[q].state \in Unsettled /\ \A p \in Readers \ {q} : entry'[p] = entry[p]
  <2>1. entry[q].state \in Unsettled
    BY <1>2 DEF PreflightAnswer, IInv, GateInv, GateOK
  <2>2. \E put : SetEntry(q, put)
    BY <1>2 DEF PreflightAnswer, Settle
  <2>3. QED
    BY <1>d, <2>1, <2>2 DEF SetEntry
<1>3. ASSUME NEW q \in Readers, RefreshAnswer(q)
      PROVE  \/ UNCHANGED registryVars
             \/ /\ Sendable(entry[q].state) /\ Sendable(entry'[q].state)
                /\ \A p \in Readers \ {q} : entry'[p] = entry[p]
  <2>1. UNCHANGED registryVars \/ \E c \in Cooldowns, meta \in GateMeta :
          RefreshApplies(q, RefreshState(c), meta) /\ RefreshMeta(q, RefreshState(c), meta)
    BY <1>3, VerdictTypes DEF RefreshAnswer, IInv
  <2>2. ASSUME NEW c \in Cooldowns, NEW meta \in GateMeta,
               RefreshApplies(q, RefreshState(c), meta), RefreshMeta(q, RefreshState(c), meta)
        PROVE  /\ Sendable(entry[q].state) /\ Sendable(entry'[q].state)
               /\ \A p \in Readers \ {q} : entry'[p] = entry[p]
    <3>1. entry'[q].state = RefreshState(c) /\ \A p \in Readers \ {q} : entry'[p] = entry[p]
      BY <1>d, <2>2 DEF RefreshMeta, GateEntry
    <3>2. QED
      BY <2>2, <3>1 DEF RefreshApplies, RefreshState, Sendable, SendableStates
  <2>3. QED
    BY <2>1, <2>2
<1>4. \/ UNCHANGED registryVars
      \/ \E q \in Readers : PreflightAnswer(q)
      \/ \E q \in Readers : RefreshAnswer(q)
  BY DEF GateStep, PreflightStep, RefreshStep, PreflightSend, PreflightPersist, RefreshSend, RefreshPersist
<1>5. CASE \E q \in Readers : PreflightAnswer(q)
  BY <1>2, <1>5 DEF Unsettled, Sendable, SendableStates, Suspended, SuspendedStates
<1>6. CASE \E q \in Readers : RefreshAnswer(q)
  BY <1>1, <1>3, <1>6 DEF Sendable, SendableStates, Suspended, SuspendedStates
<1>7. QED
  BY <1>1, <1>4, <1>5, <1>6

----------------------------------------------------------------------------
(* The sender *)

\* What Goto leaves of the sender.
LEMMA GotoFacts ==
  ASSUME TypeOK, NEW pc, Goto(pc)
  PROVE  /\ snd'.pc = pc /\ snd'.id = snd.id /\ snd'.reader = snd.reader
         /\ snd'.checked = snd.checked /\ snd'.now = snd.now
<1>1. snd \in SenderRecord
  BY DEF TypeOK, SenderTypeOK
<1>2. QED
  BY <1>1 DEF Goto, SenderRecord

\* A sleeping sender holds no row.
LEMMA SleepFacts ==
  ASSUME NEW pc, NEW d, Sleep(pc, d)
  PROVE  snd'.pc = pc /\ snd'.id = 0 /\ snd'.now = 0
BY DEF Sleep, Idle

\* A sender that holds nothing has nothing to keep true.
LEMMA SenderFree ==
  ASSUME snd'.pc \in {"loop", "wait", "errwait"}, snd'.id = 0, snd'.now = 0, clockMax' \in Nat
  PROVE  SenderInv'
BY DEF SenderInv, Holding, Decisions, Terminal

\* What the sender remembers survives the steps of the others.
LEMMA SenderFrame ==
  ASSUME IInv, Next,
         snd'.pc = snd.pc, snd'.id = snd.id, snd'.reader = snd.reader, snd'.readers = snd.readers,
         snd'.checked = snd.checked, snd'.now = snd.now,
         UNCHANGED global,
         \A r \in Readers : /\ Sendable(entry[r].state) => Sendable(entry'[r].state)
                            /\ Suspended(entry[r].state) => entry'[r].state = entry[r].state
  PROVE  SenderInv'
<1>m. /\ clockMax' \in Nat /\ clockMax <= clockMax' /\ answered \subseteq answered'
      /\ \A i \in 1..(nextId - 1) : accepted'[i] = accepted[i]
      /\ 1..(nextId - 1) \subseteq 1..(nextId' - 1)
  BY Monotone, NextIdGrows DEF IInv, TypeOK, StoreTypeOK
<1>t. snd.now \in Nat /\ clockMax \in Nat /\ snd.now <= clockMax
  BY DEF IInv, TypeOK, SenderTypeOK, SenderRecord, RuntimeTypeOK, SenderInv
<1>s. SenderInv
  BY DEF IInv
<1>1. snd.pc \in Holding => snd.reader \in Readers
  BY <1>s DEF SenderInv, IInv, TypeOK, StoreTypeOK, Accepted
<1>2. snd.pc \in Holding \ {"persist"} => Sendable(entry'[snd.reader].state)
  BY <1>s, <1>1 DEF SenderInv
<1>3. snd.pc = "persist" => entry'[snd.reader].state = "SUSPENDED_TOKEN"
  BY <1>s, <1>1 DEF SenderInv, Suspended, SuspendedStates, Holding
<1>4. snd.pc = "query" => snd.readers \subseteq SendableReaders'
  BY <1>s DEF SenderInv, SendableReaders
<1>5. snd.pc \in Holding => /\ snd.id \in 1..(nextId' - 1)
                            /\ snd.reader = accepted'[snd.id].reader
                            /\ snd.checked = accepted'[snd.id].checked
                            /\ global' = "RUNNING"
  BY <1>s, <1>m DEF SenderInv
<1>6. snd.now <= clockMax'
  BY <1>m, <1>t
<1>7. snd.pc \in Terminal => snd.id \in answered'
  BY <1>s, <1>m DEF SenderInv
<1>8. /\ snd.pc \in {"query", "idle"} => global' = "RUNNING"
      /\ snd.pc = "expire" => snd.checked + MaxAge < snd.now
      /\ snd.pc \notin Holding => snd.id = 0
  BY <1>s DEF SenderInv
<1>9. QED
  BY <1>2, <1>3, <1>4, <1>5, <1>6, <1>7, <1>8 DEF SenderInv

\* The sender's own steps keep what it remembers true.
LEMMA SenderInvSend ==
  ASSUME IInv, SendStep
  PROVE  SenderInv'
<1>t. TypeOK /\ SenderInv /\ Next
  BY DEF IInv, Next
<1>m. /\ clockMax' \in Nat /\ clockMax \in Nat /\ clockMax' = clockMax
      /\ answered \subseteq answered'
      /\ \A i \in 1..(nextId - 1) : accepted'[i] = accepted[i]
      /\ 1..(nextId - 1) \subseteq 1..(nextId' - 1)
  <2>1. clockMax' = clockMax
    BY DEF SendStep, SenderStep
  <2>2. nextId \in Nat /\ nextId' \in Nat /\ nextId <= nextId' /\ clockMax \in Nat
    BY <1>t, NextIdGrows DEF TypeOK, StoreTypeOK, RuntimeTypeOK
  <2>3. 1..(nextId - 1) \subseteq 1..(nextId' - 1)
    BY <1>t, NextIdGrows DEF TypeOK, StoreTypeOK
  <2>4. /\ answered \subseteq answered'
        /\ \A i \in 1..(nextId - 1) : accepted'[i] = accepted[i]
    BY <1>t, Monotone
  <2>5. QED
    BY <2>1, <2>2, <2>3, <2>4
<1>c. UNCHANGED registryVars => UNCHANGED <<entry, global>>
  BY DEF registryVars
<1>1. CASE SenderLoop
  <2>1. CASE Sleep("wait", MaxIdle)
    BY <2>1, <1>m, SleepFacts, SenderFree
  <2>2. CASE global = "RUNNING" /\ snd' = [Idle EXCEPT !.pc = "query", !.now = clock, !.readers = SendableReaders]
    <3>1. snd'.pc = "query" /\ snd'.now = clock /\ snd'.readers = SendableReaders /\ snd'.id = 0
      BY <2>2 DEF Idle
    <3>2. UNCHANGED <<entry, global>>
      BY <1>1, <1>c DEF SenderLoop
    <3>3. SendableReaders' = SendableReaders
      BY <3>2 DEF SendableReaders
    <3>4. clock <= clockMax'
      BY <1>m, <1>t DEF TypeOK, RuntimeTypeOK
    <3>5. QED
      BY <2>2, <3>1, <3>2, <3>3, <3>4 DEF SenderInv, Holding, Decisions, Terminal
  <2>3. QED
    BY <1>1, <2>1, <2>2 DEF SenderLoop
<1>2. CASE SenderQuery
  <2>a. UNCHANGED <<entry, global>> /\ UNCHANGED storeVars
    BY <1>2, <1>c DEF SenderQuery
  <2>b. global = "RUNNING" /\ snd.readers \subseteq SendableReaders /\ snd.now <= clockMax /\ snd.now \in Nat
    BY <1>2, <1>t DEF SenderQuery, SenderInv, TypeOK, SenderTypeOK, SenderRecord
  <2>1. CASE Sleep("errwait", ErrWait)
    BY <2>1, <1>m, SleepFacts, SenderFree
  <2>2. CASE snd' = [Idle EXCEPT !.pc = "idle", !.now = snd.now]
    <3>1. snd'.pc = "idle" /\ snd'.now = snd.now /\ snd'.id = 0
      BY <2>2 DEF Idle
    <3>2. QED
      BY <2>a, <2>b, <3>1, <1>m DEF SenderInv, Holding, Decisions, Terminal
  <2>3. ASSUME NEW i \in DOMAIN queue, IsNextDue(i, snd.now, snd.readers),
               snd' = [Idle EXCEPT !.pc = IF queue[i].checked < snd.now - MaxAge THEN "expire" ELSE "post",
                                   !.now = snd.now, !.id = i, !.reader = queue[i].reader,
                                   !.checked = queue[i].checked, !.attempts = queue[i].attempts]
        PROVE  SenderInv'
    <3>1. /\ snd'.pc = IF queue[i].checked < snd.now - MaxAge THEN "expire" ELSE "post"
          /\ snd'.id = i /\ snd'.reader = queue[i].reader /\ snd'.checked = queue[i].checked
          /\ snd'.now = snd.now
      BY <2>3 DEF Idle
    <3>2. i \in 1..(nextId - 1) /\ queue[i].checked \in Nat /\ queue[i].reader \in Readers
      BY <1>t DEF TypeOK, StoreTypeOK, QueueRow
    <3>3. queue[i].reader = accepted'[i].reader /\ queue[i].checked = accepted'[i].checked
      BY <1>m, <3>2 DEF IInv, QueueInv
    <3>4. Sendable(entry'[queue[i].reader].state)
      BY <2>3, <2>a, <2>b DEF IsNextDue, Due, SendableReaders
    <3>5. snd'.pc = "expire" => queue[i].checked + MaxAge < snd.now
      BY <2>b, <3>1, <3>2, RuntimeAssumption
    <3>6. snd'.pc \in {"expire", "post"}
      BY <3>1
    <3>7. snd.now <= clockMax'
      BY <1>m, <2>b
    <3>8. QED
      BY <1>m, <2>a, <2>b, <3>1, <3>2, <3>3, <3>4, <3>5, <3>6, <3>7 DEF SenderInv, Holding, Decisions, Terminal
  <2>4. QED
    BY <1>2, <2>1, <2>2, <2>3 DEF SenderQuery
<1>3. CASE SenderIdle
  <2>1. \E d : \E pc \in {"wait", "errwait"} : Sleep(pc, d)
    BY <1>3 DEF SenderIdle
  <2>2. QED
    BY <2>1, <1>m, SleepFacts, SenderFree
<1>4. CASE SenderWait \/ SenderExpire \/ SenderComplete \/ SenderRetry \/ SenderPersist \/ SenderHalt
  <2>1. snd' = Idle
    BY <1>4 DEF SenderWait, SenderExpire, SenderComplete, SenderRetry, SenderPersist, SenderHalt
  <2>2. snd'.pc = "loop" /\ snd'.id = 0 /\ snd'.now = 0
    BY <2>1 DEF Idle
  <2>3. QED
    BY <2>2, <1>m, SenderFree
<1>5. CASE SenderAnswer \/ SenderRevoked \/ SenderMark
  <2>1. PICK pc \in Decisions \cup {"suspend", "halt"} :
          Goto(pc) /\ (pc \in Terminal => snd.id \in answered')
    <3>1. CASE SenderAnswer
      BY <3>1, AnswerFacts
    <3>2. CASE SenderRevoked \/ SenderMark
      <4>1. Goto("suspend") \/ Goto("halt")
        BY <3>2 DEF SenderRevoked, SenderMark
      <4>2. QED
        BY <4>1 DEF Terminal
    <3>3. QED
      BY <1>5, <3>1, <3>2
  <2>2. UNCHANGED <<entry, global>>
    BY <1>5, <1>c DEF SenderAnswer, SenderRevoked, SenderMark
  <2>3. snd.pc \in Holding \ {"persist"}
    BY <1>5 DEF SenderAnswer, SenderRevoked, SenderMark, Holding, Decisions
  <2>4. /\ snd'.pc = pc /\ snd'.id = snd.id /\ snd'.reader = snd.reader
        /\ snd'.checked = snd.checked /\ snd'.now = snd.now
    BY <2>1, <1>t, GotoFacts
  <2>5. /\ snd.id \in 1..(nextId' - 1) /\ snd.reader = accepted'[snd.id].reader
        /\ snd.checked = accepted'[snd.id].checked /\ global' = "RUNNING"
        /\ Sendable(entry'[snd.reader].state) /\ snd.now <= clockMax'
    BY <1>t, <1>m, <2>2, <2>3 DEF SenderInv
  <2>6. pc \in Holding \ {"persist", "expire"} /\ pc \notin {"query", "idle"}
    BY DEF Holding, Decisions
  <2>7. QED
    BY <2>1, <2>4, <2>5, <2>6 DEF SenderInv, Holding
<1>6. CASE SenderSuspend
  <2>1. /\ snd.id \in 1..(nextId' - 1) /\ snd.reader = accepted'[snd.id].reader
        /\ snd.checked = accepted'[snd.id].checked /\ global = "RUNNING"
        /\ snd.now <= clockMax' /\ snd.reader \in Readers
    BY <1>6, <1>t, <1>m DEF SenderSuspend, SenderInv, Holding, TypeOK, StoreTypeOK, Accepted
  <2>2. /\ snd'.pc = "persist" /\ snd'.id = snd.id /\ snd'.reader = snd.reader
        /\ snd'.checked = snd.checked /\ snd'.now = snd.now
    BY <1>6, <1>t, GotoFacts DEF SenderSuspend
  <2>3. global' = global /\ entry'[snd.reader].state = "SUSPENDED_TOKEN"
    BY <1>6, <1>t, <2>1 DEF SenderSuspend, SetEntry, RevokedPut, TypeOK, RegistryTypeOK
  <2>4. QED
    BY <2>1, <2>2, <2>3 DEF SenderInv, Holding, Decisions, Terminal
<1>7. QED
  BY <1>1, <1>2, <1>3, <1>4, <1>5, <1>6 DEF SendStep, SenderStep

\* What the sender remembers stays true, whoever steps.
LEMMA SenderInvStep == IInv /\ Next => SenderInv'
<1> SUFFICES ASSUME IInv, Next PROVE SenderInv'
  OBVIOUS
<1>c. /\ UNCHANGED registryVars => UNCHANGED <<entry, global>>
      /\ UNCHANGED senderVars => UNCHANGED snd
  BY DEF registryVars, senderVars
<1>m. clockMax' \in Nat
  BY Monotone DEF IInv
<1>1. CASE SendStep
  BY <1>1, SenderInvSend
<1>2. CASE GateStep
  <2>1. UNCHANGED snd
    BY <1>2, <1>c DEF GateStep, PreflightStep, RefreshStep
  <2>2. UNCHANGED global
    BY <1>2, <1>c DEF GateStep, PreflightStep, RefreshStep, PreflightSend, PreflightAnswer, PreflightPersist,
       RefreshSend, RefreshAnswer, RefreshPersist, Settle, SetEntry, RefreshMeta
  <2>3. QED
    BY <1>2, <2>1, <2>2, GateKept, SenderFrame
<1>3. CASE AdmitStep \/ SweepStep \/ Cancel \/ OperatorStep
  <2>1. UNCHANGED registryVars /\ UNCHANGED snd
    BY <1>3, <1>c DEF AdmitStep, AdmissionStep, SweepStep, Cancel, OperatorStep, EditToken, ResumeSend, ResumeDiscard
  <2>2. QED
    BY <2>1, <1>c, SenderFrame
<1>4. CASE ClockStep
  <2>1. UNCHANGED registryVars
    BY <1>4 DEF ClockStep
  <2>2. /\ snd'.pc = snd.pc /\ snd'.id = snd.id /\ snd'.reader = snd.reader /\ snd'.readers = snd.readers
        /\ snd'.checked = snd.checked /\ snd'.now = snd.now
    <3>1. snd \in SenderRecord
      BY DEF IInv, TypeOK, SenderTypeOK
    <3>2. UNCHANGED snd \/ snd' = [snd EXCEPT !.until = TimerMoved]
      BY <1>4 DEF ClockStep
    <3>3. QED
      BY <3>1, <3>2 DEF SenderRecord
  <2>3. QED
    BY <2>1, <2>2, <1>c, SenderFrame
<1>5. CASE Start \/ Crash \/ Stopped
  <2>1. snd' = Idle
    BY <1>5 DEF Start, Crash, Stopped, Die, FreshProcesses
  <2>2. snd'.pc = "loop" /\ snd'.id = 0 /\ snd'.now = 0
    BY <2>1 DEF Idle
  <2>3. QED
    BY <2>2, <1>m, SenderFree
<1>6. QED
  BY <1>1, <1>2, <1>3, <1>4, <1>5 DEF Next

----------------------------------------------------------------------------
(* A process that is down *)

\* Nothing but the database survives the process.
LEMMA DownInvStep == IInv /\ Next => DownInv'
<1> SUFFICES ASSUME IInv, Next, life' = "down"
             PROVE  /\ snd' = Idle
                    /\ entry' = [r \in Readers |-> FreshEntry]
                    /\ pf' = [r \in Readers |-> Task("off")]
                    /\ mr' = [r \in Readers |-> Task("sleep")]
  BY DEF DownInv
<1>c. /\ UNCHANGED registryVars => UNCHANGED entry
      /\ UNCHANGED senderVars => UNCHANGED snd
      /\ UNCHANGED gateTaskVars => UNCHANGED <<pf, mr>>
  BY DEF registryVars, senderVars, gateTaskVars
<1>1. CASE Crash \/ Stopped
  BY <1>1 DEF Crash, Stopped, Die, FreshProcesses
<1>2. CASE AdmitStep \/ SendStep \/ GateStep \/ SweepStep \/ Start \/ Cancel
  <2>1. Alive
    <3>1. CASE AdmitStep
      BY <3>1 DEF AdmitStep, AdmissionStep, HandleCheck, HandleAdmit, HandleWake, Running, Alive
    <3>2. CASE SendStep
      BY <3>2 DEF SendStep, SenderStep, SenderLoop, SenderQuery, SenderIdle, SenderWait, SenderExpire,
         SenderAnswer, SenderComplete, SenderRetry, SenderRevoked, SenderSuspend, SenderPersist,
         SenderMark, SenderHalt, Running, Alive
    <3>3. CASE GateStep
      BY <3>3 DEF GateStep, PreflightStep, RefreshStep, PreflightSend, PreflightAnswer, PreflightPersist,
         RefreshSend, RefreshAnswer, RefreshPersist, Running, Alive
    <3>4. CASE SweepStep \/ Start \/ Cancel
      BY <3>4 DEF SweepStep, SweepExpire, SweepCleanup, Start, Cancel, Running, Alive
    <3>5. QED
      BY <1>2, <3>1, <3>2, <3>3, <3>4
  <2>2. life' = life \/ life' # "down"
    BY <1>2 DEF AdmitStep, AdmissionStep, SendStep, SenderStep, GateStep, PreflightStep, RefreshStep,
       SweepStep, Start, Cancel
  <2>3. QED
    BY <2>1, <2>2 DEF Alive
<1>3. CASE OperatorStep
  <2>1. life = "down" /\ UNCHANGED registryVars /\ UNCHANGED senderVars /\ UNCHANGED gateTaskVars
    BY <1>3 DEF OperatorStep, EditToken, ResumeSend, ResumeDiscard
  <2>2. QED
    BY <2>1, <1>c DEF IInv, DownInv
<1>4. CASE ClockStep
  <2>1. life = "down" /\ UNCHANGED registryVars /\ UNCHANGED gateTaskVars
    BY <1>4 DEF ClockStep, Tick, ClockBack
  <2>2. snd' = Idle
    <3>1. snd = Idle /\ snd.until = 0
      BY <2>1 DEF IInv, DownInv, Idle
    <3>2. CASE ClockBack /\ snd' = [snd EXCEPT !.until = TimerMoved]
      <4>1. TimerMoved = 0
        BY <3>1, <3>2 DEF ClockBack, TimerMoved, IInv, TypeOK, RuntimeTypeOK
      <4>2. snd' = [snd EXCEPT !.until = snd.until]
        BY <3>1, <3>2, <4>1
      <4>3. snd \in SenderRecord
        BY DEF IInv, TypeOK, SenderTypeOK
      <4>4. [snd EXCEPT !.until = snd.until] = snd
        BY <4>3 DEF SenderRecord
      <4>5. QED
        BY <3>1, <4>2, <4>4
    <3>3. QED
      BY <1>4, <3>1, <3>2 DEF ClockStep
  <2>3. QED
    BY <2>1, <2>2, <1>c DEF IInv, DownInv
<1>5. QED
  BY <1>1, <1>2, <1>3, <1>4 DEF Next

----------------------------------------------------------------------------
(* The invariant *)

\* The initial states satisfy the inductive invariant.
LEMMA InitIInv == Init => IInv
<1> SUFFICES ASSUME Init PROVE IInv
  OBVIOUS
<1>1. TypeOK
  BY InitTypeOK
<1>2. SenderInv
  BY <1>1 DEF Init, SenderInit, RuntimeInit, Idle, SenderInv, Holding, Decisions, Terminal
<1>3. QueueInv
  BY DEF Init, StoreInit, QueueInv, NoSilentLoss
<1>4. DebounceInv
  BY DEF Init, StoreInit, RuntimeInit, SleepingSweeper, DebounceInv, DebounceSpacing
<1>5. GateInv
  BY DEF Init, RuntimeInit, RegistryInit, PreflightInit, GateInv, GateOK, FreshEntry, Task, Alive,
     Sendable, SendableStates
<1>6. DownInv
  BY DEF Init, SenderInit, RegistryInit, PreflightInit, DownInv
<1>7. QED
  BY <1>1, <1>2, <1>3, <1>4, <1>5, <1>6 DEF IInv

\* A stuttering step preserves the inductive invariant.
LEMMA StutterIInv == IInv /\ UNCHANGED vars => IInv'
<1> SUFFICES ASSUME IInv, UNCHANGED vars PROVE IInv'
  OBVIOUS
<1>1. /\ UNCHANGED <<clock, clockMax, life, cfgToken, spent>>
      /\ UNCHANGED <<queue, nextId, debounce, gateRow, accepted>>
      /\ UNCHANGED <<entry, global, changed>> /\ UNCHANGED <<adm, wake>> /\ UNCHANGED <<snd, answered>>
      /\ UNCHANGED <<pf, mr>> /\ UNCHANGED sw /\ UNCHANGED <<discarded, released>>
  BY DEF vars, runtimeVars, storeVars, registryVars, admissionVars, senderVars, gateTaskVars, operatorVars
<1>2. TypeOK'
  BY <1>1 DEF IInv, TypeOK, RuntimeTypeOK, StoreTypeOK, RegistryTypeOK, AdmissionTypeOK, SenderTypeOK,
     PreflightTypeOK, SweeperTypeOK
<1>3. SenderInv'
  BY <1>1 DEF IInv, SenderInv, SendableReaders
<1>4. QueueInv' /\ DebounceInv'
  BY <1>1 DEF IInv, QueueInv, NoSilentLoss, DebounceInv, Remembered, DebounceSpacing, Keep
<1>5. GateInv' /\ DownInv'
  BY <1>1 DEF IInv, GateInv, GateOK, Alive, DownInv
<1>6. QED
  BY <1>2, <1>3, <1>4, <1>5 DEF IInv

\* IInv, the conjunction of what each goroutine relies on between two of its
\* steps, holds in every reachable state.
THEOREM Invariance == Spec => []IInv
<1>1. Init => IInv
  BY InitIInv
<1>2. IInv /\ [Next]_vars => IInv'
  <2>1. IInv /\ Next => IInv'
    BY TypeStep, SenderInvStep, QueueInvStep, DebounceInvStep, GateInvStep, DownInvStep DEF IInv
  <2>2. QED
    BY <2>1, StutterIInv
<1>3. QED
  BY <1>1, <1>2, PTL DEF Spec

\* The tables, the registry and all goroutines stay in their domains
\* (store.go, gate.go, sender.go, preflight.go, metarefresh.go, app.go).
THEOREM TypeCorrect == Spec => []TypeOK
<1>1. IInv => TypeOK
  BY DEF IInv
<1>2. QED
  BY <1>1, Invariance, PTL

\* An accepted scan leaves the queue only by an answer of the server, by the
\* operator's discard, or past its maximum age.
THEOREM ScansAreNotLost == Spec => []NoSilentLoss
<1>1. IInv => NoSilentLoss
  BY DEF IInv, QueueInv
<1>2. QED
  BY <1>1, Invariance, PTL

\* A queued row, and the copy of it the sender works on, is the scan that was
\* accepted.
THEOREM RowsKeepIdentity == Spec => []RowIdentity
<1>1. IInv => RowIdentity
  <2> SUFFICES ASSUME IInv PROVE RowIdentity
    OBVIOUS
  <2>1. snd.id # 0 => snd.pc \in Holding
    BY DEF IInv, SenderInv
  <2>2. QED
    BY <2>1 DEF IInv, SenderInv, QueueInv, RowIdentity
<1>2. QED
  BY <1>1, Invariance, PTL

\* Accepted scans of one tag at one reader are debounceSec apart, unless the
\* clock had passed the time up to which the mark of the first is kept.
THEOREM ScansAreSpaced == Spec => []DebounceSpacing
<1>1. IInv => DebounceSpacing
  BY DEF IInv, DebounceInv
<1>2. QED
  BY <1>1, Invariance, PTL

\* A POST is in flight only for a reader whose gate is open, and never while
\* the sender is halted.
THEOREM PostsNeedOpenGate == Spec => []PostOnlyWhenOpen
<1>1. IInv => PostOnlyWhenOpen
  BY DEF IInv, SenderInv, PostOnlyWhenOpen, Holding
<1>2. QED
  BY <1>1, Invariance, PTL

\* A POST uses a token that the running process has verified, at the booth the
\* server reported for it.
THEOREM PostsUseVerifiedToken == Spec => []PostOnlyVerifiedToken
<1>1. IInv => PostOnlyVerifiedToken
  <2> SUFFICES ASSUME IInv, snd.pc = "post"
               PROVE  /\ entry[snd.reader].fp = cfgToken[snd.reader]
                      /\ entry[snd.reader].meta.booth = BoothOf[cfgToken[snd.reader]]
    BY DEF PostOnlyVerifiedToken
  <2>1. snd.reader \in Readers /\ Sendable(entry[snd.reader].state)
    BY DEF IInv, SenderInv, Holding, TypeOK, StoreTypeOK, Accepted
  <2>2. QED
    BY <2>1 DEF IInv, GateInv, GateOK
<1>2. QED
  BY <1>1, Invariance, PTL

\* Within the life of a process no late answer, and no other goroutine,
\* changes the state of a gate that is suspended.
THEOREM SuspensionsStick == Spec => SuspensionSticks
<1>1. IInv /\ [Next]_vars =>
        [\A r \in Readers :
           (Alive /\ life' # "down" /\ Suspended(entry[r].state)) => entry'[r].state = entry[r].state]_vars
  <2> SUFFICES ASSUME IInv, Next, NEW r \in Readers, Alive, life' # "down", Suspended(entry[r].state)
               PROVE  entry'[r].state = entry[r].state
    OBVIOUS
  <2>c. UNCHANGED registryVars => UNCHANGED entry
    BY DEF registryVars
  <2>1. CASE GateStep
    BY <2>1, GateKept
  <2>2. CASE SendStep
    <3>1. CASE SenderSuspend
      <4>1. snd.reader \in Readers /\ Sendable(entry[snd.reader].state)
        BY <3>1 DEF SenderSuspend, IInv, SenderInv, Holding, TypeOK, StoreTypeOK, Accepted
      <4>2. snd.reader # r
        BY <4>1 DEF Sendable, SendableStates, Suspended, SuspendedStates
      <4>3. QED
        BY <3>1, <4>1, <4>2 DEF SenderSuspend, SetEntry, IInv, TypeOK, RegistryTypeOK
    <3>2. CASE UNCHANGED entry
      BY <3>2
    <3>3. QED
      BY <2>2, <2>c, <3>1, <3>2 DEF SendStep, SenderStep, SenderLoop, SenderQuery, SenderIdle, SenderWait,
         SenderExpire, SenderAnswer, SenderComplete, SenderRetry, SenderRevoked, SenderPersist,
         SenderMark, SenderHalt, HaltGlobal
  <2>3. CASE ClockStep \/ AdmitStep \/ SweepStep \/ Cancel \/ OperatorStep
    <3>1. UNCHANGED registryVars
      BY <2>3 DEF ClockStep, AdmitStep, AdmissionStep, SweepStep, Cancel, OperatorStep, EditToken,
         ResumeSend, ResumeDiscard
    <3>2. QED
      BY <2>c, <3>1
  <2>4. CASE Start \/ Crash \/ Stopped
    BY <2>4 DEF Start, Crash, Stopped, Die, Alive
  <2>5. QED
    BY <2>1, <2>2, <2>3, <2>4 DEF Next
<1>2. QED
  BY <1>1, Invariance, PTL DEF Spec, SuspensionSticks

\* A stored REBIND or CONFIG suspension changes only while the process is
\* down, that is, by queue resume.
THEOREM StoredSuspensionsStick == Spec => StoredSuspensionNeedsResume
<1>1. IInv /\ [Next]_vars =>
        [\A r \in Readers :
           (/\ gateRow[r].state \in {"SUSPENDED_REBIND", "SUSPENDED_CONFIG"}
            /\ gateRow'[r].state # gateRow[r].state) => life = "down" /\ life' = "down"]_vars
  <2> SUFFICES ASSUME IInv, Next, NEW r \in Readers, gateRow[r].state \in Sticky
               PROVE  gateRow'[r].state = gateRow[r].state \/ (life = "down" /\ life' = "down")
    BY DEF Sticky
  <2>a. UNCHANGED storeVars => UNCHANGED gateRow
    BY DEF storeVars
  <2>b. Alive => entry[r].state \in Sticky /\ pf[r].pc = "off" /\ mr[r].pc # "persist"
    BY DEF IInv, GateInv, GateOK
  <2>d. DOMAIN gateRow = Readers
    BY DEF IInv, TypeOK, StoreTypeOK
  <2>1. CASE SendStep
    <3>1. CASE SenderPersist
      <4>1. snd.reader # r
        BY <2>b, <3>1 DEF SenderPersist, IInv, SenderInv, Sticky
      <4>2. UNCHANGED storeVars \/ SetGate(snd.reader, RevokedPut)
        BY <3>1 DEF SenderPersist, OrFail
      <4>3. QED
        BY <2>a, <2>d, <4>1, <4>2 DEF SetGate
    <3>2. CASE SenderLoop \/ SenderQuery \/ SenderIdle \/ SenderWait \/ SenderAnswer \/ SenderSuspend \/ SenderHalt
      BY <2>a, <3>2 DEF SenderLoop, SenderQuery, SenderIdle, SenderWait, SenderAnswer, SenderSuspend, SenderHalt
    <3>3. CASE SenderExpire \/ SenderComplete \/ SenderRetry \/ SenderRevoked \/ SenderMark
      <4>1. \/ UNCHANGED storeVars
            \/ CompleteRow(snd.id) \/ RetryLater(snd.id, RetryAt) \/ MarkAttemptKeepDue(snd.id)
        BY <3>3 DEF SenderExpire, SenderComplete, SenderRetry, SenderRevoked, SenderMark, OrFail
      <4>2. QED
        BY <2>a, <4>1 DEF CompleteRow, DeleteRows, RetryLater, MarkAttemptKeepDue
    <3>4. QED
      BY <2>1, <3>1, <3>2, <3>3 DEF SendStep, SenderStep
  <2>2. CASE GateStep
    <3>1. \/ UNCHANGED storeVars
          \/ \E q \in Readers : /\ Alive /\ (pf[q].pc = "persist" \/ mr[q].pc = "persist")
                               /\ \E put : SetGate(q, put)
      BY <2>2 DEF GateStep, PreflightStep, RefreshStep, PreflightSend, PreflightAnswer, PreflightPersist,
         RefreshSend, RefreshAnswer, RefreshPersist, OrFail
    <3>2. QED
      BY <2>a, <2>b, <2>d, <3>1 DEF SetGate
  <2>3. CASE ClockStep \/ AdmitStep \/ SweepStep \/ Crash \/ Cancel \/ Stopped
    BY <2>3, <2>a DEF ClockStep, AdmitStep, AdmissionStep, HandleCheck, HandleAdmit, HandleWake, InsertRow,
       SweepStep, SweepExpire, SweepCleanup, OrFail, ExpireBefore, DeleteRows, CleanupDebounce, Crash,
       Cancel, Stopped, Die
  <2>4. CASE Start
    BY <2>4, StartFacts DEF TokenReplaced, Sticky
  <2>5. CASE OperatorStep
    BY <2>5 DEF OperatorStep, EditToken, ResumeSend, ResumeDiscard
  <2>6. QED
    BY <2>1, <2>2, <2>3, <2>4, <2>5 DEF Next
<1>2. QED
  BY <1>1, Invariance, PTL DEF Spec, StoredSuspensionNeedsResume
=============================================================================
