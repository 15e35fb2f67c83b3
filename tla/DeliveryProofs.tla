--------------------------- MODULE DeliveryProofs ---------------------------
(***************************************************************************)
(* What follows from IInv for the delivery core, for every number of       *)
(* readers, tags, rows, faults and restarts: what a preflight decides      *)
(* lasts, a lift needs a new token, duplicates need a fault, no wake-up is *)
(* lost, the rebind guard guards, and the core implements CheckinDelivery. *)
(***************************************************************************)
EXTENDS MiddlewareProofs

----------------------------------------------------------------------------
(* Faults *)

\* A fault that occurs is counted, and no count goes back.
LEMMA SpendCounts ==
  ASSUME NEW k \in FaultKinds, spent \in [FaultKinds -> Nat], Spend(k)
  PROVE  spent'[k] = spent[k] + 1 /\ \A j \in FaultKinds : spent[j] <= spent'[j]
BY DEF Spend

\* No step forgets a fault.
LEMMA SpentGrows ==
  ASSUME TypeOK, Next
  PROVE  \A j \in FaultKinds : spent[j] \in Nat /\ spent'[j] \in Nat /\ spent[j] <= spent'[j]
<1>t. spent \in [FaultKinds -> Nat] /\ spent' \in [FaultKinds -> Nat]
  BY SpentStep DEF TypeOK, RuntimeTypeOK
<1>1. UNCHANGED spent \/ \E k \in FaultKinds : Spend(k)
  <2> USE DEF FaultKinds
  <2>1. CASE ClockStep
    BY <2>1 DEF ClockStep, Tick, ClockBack
  <2>2. CASE AdmitStep
    BY <2>2 DEF AdmitStep, AdmissionStep, HandleCheck, HandleAdmit, HandleWake
  <2>3. CASE SendStep
    <3>1. CASE SenderAnswer
      BY <3>1 DEF SenderAnswer, NetFault
    <3>2. QED
      BY <2>3, <3>1 DEF SendStep, SenderStep, SenderLoop, SenderQuery, SenderIdle, SenderWait, SenderExpire,
         SenderComplete, SenderRetry, SenderRevoked, SenderSuspend, SenderPersist, SenderMark, SenderHalt,
         OrFail
  <2>4. CASE GateStep
    BY <2>4 DEF GateStep, PreflightStep, RefreshStep, PreflightSend, PreflightAnswer, PreflightPersist,
       RefreshSend, RefreshAnswer, RefreshPersist, OrFail, NetFault
  <2>5. CASE SweepStep \/ Start \/ Crash \/ Cancel \/ Stopped
    BY <2>5 DEF SweepStep, SweepExpire, SweepCleanup, OrFail, Start, Crash, Cancel, Stopped
  <2>6. CASE OperatorStep
    BY <2>6 DEF OperatorStep, EditToken, ResumeSend, ResumeDiscard
  <2>7. QED
    BY <2>1, <2>2, <2>3, <2>4, <2>5, <2>6 DEF Next
<1>2. QED
  BY <1>t, <1>1, SpendCounts

\* A step after which there was no failed write had none itself.
LEMMA NoFailedWrite ==
  ASSUME TypeOK, spent'["db"] = 0
  PROVE  ~Spend("db")
<1>1. spent \in [FaultKinds -> Nat] /\ "db" \in FaultKinds
  BY DEF TypeOK, RuntimeTypeOK, FaultKinds
<1>2. QED
  BY <1>1, SpendCounts

----------------------------------------------------------------------------
(* Who moves a gate *)

\* A step that is none of reader r's gate.
Untouched(r) ==
  /\ entry'[r] = entry[r] /\ gateRow'[r] = gateRow[r] /\ pf'[r] = pf[r] /\ mr'[r] = mr[r]
  /\ cfgToken' = cfgToken /\ (Alive' <=> Alive)

\* Every step that moves the gate of r is one of its goroutines', the sender's
\* on a row of r, the operator's on r, or a start or end of the process.
LEMMA GateMoves ==
  ASSUME IInv, Next, NEW r \in Readers
  PROVE  \/ Untouched(r)
         \/ /\ PreflightSend(r) \/ PreflightAnswer(r) \/ PreflightPersist(r)
            /\ mr'[r] = mr[r] /\ cfgToken' = cfgToken /\ life' = life
         \/ /\ RefreshSend(r) \/ RefreshAnswer(r) \/ RefreshPersist(r)
            /\ pf'[r] = pf[r] /\ cfgToken' = cfgToken /\ life' = life
         \/ /\ SenderSuspend \/ SenderPersist
            /\ snd.reader = r
            /\ pf'[r] = pf[r] /\ mr'[r] = mr[r] /\ cfgToken' = cfgToken /\ life' = life
         \/ Start \/ Crash \/ Stopped
         \/ \E q \in Readers : EditToken(q)
         \/ ResumeSend(r) \/ ResumeDiscard(r)
<1>c. /\ UNCHANGED registryVars => UNCHANGED entry
      /\ UNCHANGED storeVars => UNCHANGED gateRow
      /\ UNCHANGED gateTaskVars => UNCHANGED <<pf, mr>>
      /\ life' = life => (Alive' <=> Alive)
  BY DEF registryVars, storeVars, gateTaskVars, Alive
<1>d. /\ DOMAIN pf = Readers /\ DOMAIN mr = Readers /\ DOMAIN gateRow = Readers /\ DOMAIN entry = Readers
  BY DEF IInv, TypeOK, PreflightTypeOK, RegistryTypeOK, StoreTypeOK
<1>e. ASSUME NEW q \in Readers, q # r, NEW put, SetEntry(q, put) PROVE entry'[r] = entry[r]
  BY <1>d, <1>e DEF SetEntry
<1>f. ASSUME NEW q \in Readers, q # r, NEW put, SetGate(q, put) PROVE gateRow'[r] = gateRow[r]
  BY <1>d, <1>f DEF SetGate
<1>1. CASE GateStep
  <2>1. CASE PreflightStep
    <3>1. PICK q \in Readers : PreflightSend(q) \/ PreflightAnswer(q) \/ PreflightPersist(q)
      BY <2>1 DEF PreflightStep
    <3>2. mr' = mr /\ cfgToken' = cfgToken /\ life' = life
      BY <2>1 DEF PreflightStep
    <3>3. CASE q # r
      <4>1. pf'[r] = pf[r]
        BY <1>d, <3>1, <3>3 DEF PreflightSend, PreflightAnswer, PreflightPersist, Settle
      <4>2. entry'[r] = entry[r]
        BY <1>c, <1>e, <3>1, <3>3 DEF PreflightSend, PreflightAnswer, PreflightPersist, Settle
      <4>3. gateRow'[r] = gateRow[r]
        BY <1>c, <1>f, <3>1, <3>3 DEF PreflightSend, PreflightAnswer, PreflightPersist, OrFail
      <4>4. QED
        BY <1>c, <3>2, <4>1, <4>2, <4>3 DEF Untouched
    <3>4. QED
      BY <3>1, <3>2, <3>3
  <2>2. CASE RefreshStep
    <3>1. PICK q \in Readers : RefreshSend(q) \/ RefreshAnswer(q) \/ RefreshPersist(q)
      BY <2>2 DEF RefreshStep
    <3>2. pf' = pf /\ cfgToken' = cfgToken /\ life' = life
      BY <2>2 DEF RefreshStep
    <3>3. CASE q # r
      <4>1. mr'[r] = mr[r]
        BY <1>d, <3>1, <3>3 DEF RefreshSend, RefreshAnswer, RefreshPersist
      <4>2. entry'[r] = entry[r]
        BY <1>c, <1>d, <3>1, <3>3 DEF RefreshSend, RefreshAnswer, RefreshPersist, RefreshMeta
      <4>3. gateRow'[r] = gateRow[r]
        BY <1>c, <1>f, <3>1, <3>3 DEF RefreshSend, RefreshAnswer, RefreshPersist, OrFail
      <4>4. QED
        BY <1>c, <3>2, <4>1, <4>2, <4>3 DEF Untouched
    <3>4. QED
      BY <3>1, <3>2, <3>3
  <2>3. QED
    BY <1>1, <2>1, <2>2 DEF GateStep
<1>2. CASE SendStep
  <2>1. pf'[r] = pf[r] /\ mr'[r] = mr[r] /\ cfgToken' = cfgToken /\ life' = life
    BY <1>2, <1>c DEF SendStep, SenderStep
  <2>2. CASE SenderSuspend \/ SenderPersist
    <3>1. snd.reader \in Readers
      BY <2>2 DEF SenderSuspend, SenderPersist, IInv, SenderInv, Holding, TypeOK, StoreTypeOK, Accepted
    <3>2. CASE snd.reader # r
      <4>1. entry'[r] = entry[r] /\ gateRow'[r] = gateRow[r]
        BY <1>c, <1>e, <1>f, <2>2, <3>1, <3>2 DEF SenderSuspend, SenderPersist, OrFail
      <4>2. QED
        BY <1>c, <2>1, <4>1 DEF Untouched
    <3>3. QED
      BY <2>1, <2>2, <3>2
  <2>3. CASE SenderExpire \/ SenderComplete \/ SenderRetry \/ SenderRevoked \/ SenderMark
    <3>1. \/ UNCHANGED storeVars
          \/ CompleteRow(snd.id) \/ RetryLater(snd.id, RetryAt) \/ MarkAttemptKeepDue(snd.id)
      BY <2>3 DEF SenderExpire, SenderComplete, SenderRetry, SenderRevoked, SenderMark, OrFail
    <3>2. UNCHANGED gateRow /\ UNCHANGED entry
      BY <1>c, <2>3, <3>1 DEF SenderExpire, SenderComplete, SenderRetry, SenderRevoked, SenderMark,
         CompleteRow, DeleteRows, RetryLater, MarkAttemptKeepDue
    <3>3. QED
      BY <1>c, <2>1, <3>2 DEF Untouched
  <2>4. CASE SenderLoop \/ SenderQuery \/ SenderIdle \/ SenderWait \/ SenderAnswer \/ SenderHalt
    <3>1. UNCHANGED gateRow /\ UNCHANGED entry
      BY <1>c, <2>4 DEF SenderLoop, SenderQuery, SenderIdle, SenderWait, SenderAnswer, SenderHalt, HaltGlobal
    <3>2. QED
      BY <1>c, <2>1, <3>1 DEF Untouched
  <2>5. QED
    BY <1>2, <2>2, <2>3, <2>4 DEF SendStep, SenderStep
<1>3. CASE ClockStep \/ AdmitStep \/ SweepStep \/ Cancel
  <2>1. (Alive' <=> Alive) /\ cfgToken' = cfgToken /\ UNCHANGED gateTaskVars /\ UNCHANGED registryVars
    BY <1>3 DEF ClockStep, Tick, ClockBack, AdmitStep, AdmissionStep, SweepStep, Cancel, Running, Alive
  <2>2. UNCHANGED gateRow
    BY <1>3, <1>c DEF ClockStep, AdmitStep, AdmissionStep, HandleCheck, HandleAdmit, HandleWake, InsertRow,
       SweepStep, SweepExpire, SweepCleanup, OrFail, ExpireBefore, DeleteRows, CleanupDebounce, Cancel
  <2>3. QED
    BY <1>c, <2>1, <2>2 DEF Untouched
<1>4. CASE OperatorStep
  <2>1. PICK q \in Readers : EditToken(q) \/ ResumeSend(q) \/ ResumeDiscard(q)
    BY <1>4 DEF OperatorStep
  <2>2. CASE q # r /\ (ResumeSend(q) \/ ResumeDiscard(q))
    <3>1. life' = life /\ cfgToken' = cfgToken /\ UNCHANGED gateTaskVars /\ UNCHANGED registryVars
      BY <2>2 DEF ResumeSend, ResumeDiscard
    <3>2. gateRow'[r] = gateRow[r]
      BY <1>c, <1>d, <2>2 DEF ResumeSend, ResumeDiscard, SetGate
    <3>3. QED
      BY <1>c, <3>1, <3>2 DEF Untouched
  <2>3. QED
    BY <2>1, <2>2
<1>5. QED
  BY <1>1, <1>2, <1>3, <1>4 DEF Next

\* What the preflight goroutine of r does to its gate.
LEMMA PreflightEffects ==
  ASSUME IInv, NEW r \in Readers, PreflightSend(r) \/ PreflightAnswer(r) \/ PreflightPersist(r)
  PROVE  \/ /\ pf[r].pc \in {"attempt", "backoff"} /\ pf'[r] = Task("http")
            /\ entry'[r] = entry[r] /\ gateRow'[r] = gateRow[r]
         \/ /\ pf[r].pc = "http" /\ gateRow'[r] = gateRow[r]
            /\ \E put \in GatePut :
                 /\ pf'[r] = [pc |-> "persist", put |-> put]
                 /\ entry'[r] = [state |-> put.state,
                                 fp    |-> IF put.fp = Empty THEN entry[r].fp ELSE put.fp,
                                 meta  |-> IF put.meta = Empty THEN entry[r].meta ELSE put.meta]
                 /\ \/ NetFault /\ put = Failed("PREFLIGHT_RETRY", cfgToken[r])
                    \/ put = Failed("SUSPENDED_TOKEN", cfgToken[r])
                    \/ put = Failed("SUSPENDED_CONFIG", cfgToken[r])
                    \/ \E c \in Cooldowns : put = Confirmed(entry[r], cfgToken[r], c)
         \/ /\ pf[r].pc = "persist" /\ entry'[r] = entry[r]
            /\ pf'[r] = Task("off") \/ pf'[r] = Task("backoff")
            /\ \/ gateRow'[r] = UpsertGate(gateRow[r], pf[r].put)
               \/ Spend("db") /\ gateRow'[r] = gateRow[r]
<1>c. /\ UNCHANGED registryVars => UNCHANGED entry
      /\ UNCHANGED storeVars => UNCHANGED gateRow
  BY DEF registryVars, storeVars
<1>d. DOMAIN pf = Readers /\ DOMAIN gateRow = Readers /\ DOMAIN entry = Readers
  BY DEF IInv, TypeOK, PreflightTypeOK, RegistryTypeOK, StoreTypeOK
<1>v. /\ \A s \in GateStates : Failed(s, cfgToken[r]) \in GatePut
      /\ \A c \in Cooldowns : Confirmed(entry[r], cfgToken[r], c) \in GatePut
  BY VerdictTypes DEF IInv
<1>g. {"PREFLIGHT_RETRY", "SUSPENDED_TOKEN", "SUSPENDED_CONFIG"} \subseteq GateStates
  BY DEF GateStates, SuspendedStates
<1>1. CASE PreflightSend(r)
  BY <1>1, <1>c, <1>d DEF PreflightSend
<1>2. CASE PreflightAnswer(r)
  <2>1. pf[r].pc = "http" /\ gateRow'[r] = gateRow[r]
    BY <1>2, <1>c DEF PreflightAnswer
  <2>2. PICK put \in GatePut :
          /\ Settle(r, put)
          /\ \/ NetFault /\ put = Failed("PREFLIGHT_RETRY", cfgToken[r])
             \/ put = Failed("SUSPENDED_TOKEN", cfgToken[r])
             \/ put = Failed("SUSPENDED_CONFIG", cfgToken[r])
             \/ \E c \in Cooldowns : put = Confirmed(entry[r], cfgToken[r], c)
    BY <1>2, <1>v, <1>g DEF PreflightAnswer
  <2>3. /\ pf'[r] = [pc |-> "persist", put |-> put]
        /\ entry'[r] = [state |-> put.state,
                        fp    |-> IF put.fp = Empty THEN entry[r].fp ELSE put.fp,
                        meta  |-> IF put.meta = Empty THEN entry[r].meta ELSE put.meta]
    BY <1>d, <2>2 DEF Settle, SetEntry
  <2>4. QED
    BY <2>1, <2>2, <2>3
<1>3. CASE PreflightPersist(r)
  <2>1. /\ pf[r].pc = "persist" /\ entry'[r] = entry[r]
        /\ pf'[r] = Task("off") \/ pf'[r] = Task("backoff")
    BY <1>3, <1>c, <1>d DEF PreflightPersist
  <2>2. gateRow'[r] = UpsertGate(gateRow[r], pf[r].put) \/ (Spend("db") /\ gateRow'[r] = gateRow[r])
    BY <1>3, <1>c, <1>d DEF PreflightPersist, OrFail, SetGate
  <2>3. QED
    BY <2>1, <2>2
<1>4. QED
  BY <1>1, <1>2, <1>3

\* What the meta refresher of r does to its gate.
LEMMA RefreshEffects ==
  ASSUME IInv, NEW r \in Readers, RefreshSend(r) \/ RefreshAnswer(r) \/ RefreshPersist(r)
  PROVE  \/ /\ mr'[r] = Task("http") \/ mr'[r] = Task("sleep")
            /\ entry'[r] = entry[r] /\ gateRow'[r] = gateRow[r]
         \/ /\ Sendable(entry[r].state) /\ gateRow'[r] = gateRow[r]
            /\ \E c \in Cooldowns : \E meta \in GateMeta :
                 /\ meta = [booth |-> BoothOf[cfgToken[r]], cooldown |-> c]
                 /\ RefreshState(c) \in SendableStates
                 /\ entry'[r] = [state |-> RefreshState(c), fp |-> entry[r].fp, meta |-> meta]
                 /\ mr'[r] = [pc |-> "persist",
                              put |-> [state |-> RefreshState(c), fp |-> entry[r].fp, meta |-> meta]]
         \/ /\ mr[r].pc = "persist" /\ entry'[r] = entry[r] /\ mr'[r] = Task("sleep")
            /\ \/ gateRow'[r] = UpsertGate(gateRow[r], mr[r].put)
               \/ Spend("db") /\ gateRow'[r] = gateRow[r]
<1>c. /\ UNCHANGED registryVars => UNCHANGED entry
      /\ UNCHANGED storeVars => UNCHANGED gateRow
  BY DEF registryVars, storeVars
<1>d. DOMAIN mr = Readers /\ DOMAIN gateRow = Readers /\ DOMAIN entry = Readers /\ entry[r] \in GateEntry
  BY DEF IInv, TypeOK, PreflightTypeOK, RegistryTypeOK, StoreTypeOK
<1>v. \A c \in Cooldowns : [booth |-> BoothOf[cfgToken[r]], cooldown |-> c] \in GateMeta
  BY VerdictTypes DEF IInv
<1>1. CASE RefreshSend(r)
  BY <1>1, <1>c, <1>d DEF RefreshSend
<1>2. CASE RefreshAnswer(r)
  <2>1. CASE mr' = [mr EXCEPT ![r] = Task("sleep")] /\ UNCHANGED registryVars
    BY <1>2, <1>c, <1>d, <2>1 DEF RefreshAnswer
  <2>2. ASSUME NEW c \in Cooldowns, NEW meta \in GateMeta, meta = [booth |-> BoothOf[cfgToken[r]], cooldown |-> c],
               RefreshApplies(r, RefreshState(c), meta), RefreshMeta(r, RefreshState(c), meta),
               mr' = [mr EXCEPT ![r] = [pc |-> "persist",
                        put |-> [state |-> RefreshState(c), fp |-> entry[r].fp, meta |-> meta]]]
        PROVE  /\ Sendable(entry[r].state) /\ RefreshState(c) \in SendableStates
               /\ entry'[r] = [state |-> RefreshState(c), fp |-> entry[r].fp, meta |-> meta]
               /\ mr'[r] = [pc |-> "persist",
                            put |-> [state |-> RefreshState(c), fp |-> entry[r].fp, meta |-> meta]]
    <3>1. Sendable(entry[r].state) /\ RefreshState(c) \in SendableStates
      BY <2>2 DEF RefreshApplies, RefreshState, SendableStates
    <3>2. entry'[r] = [entry[r] EXCEPT !.state = RefreshState(c), !.meta = meta]
      BY <1>d, <2>2 DEF RefreshMeta
    <3>3. entry'[r] = [state |-> RefreshState(c), fp |-> entry[r].fp, meta |-> meta]
      BY <1>d, <3>2 DEF GateEntry
    <3>4. QED
      BY <1>d, <2>2, <3>1, <3>3
  <2>3. gateRow'[r] = gateRow[r]
    BY <1>2, <1>c DEF RefreshAnswer
  <2>4. QED
    BY <1>2, <1>v, <2>1, <2>2, <2>3 DEF RefreshAnswer
<1>3. CASE RefreshPersist(r)
  <2>1. mr[r].pc = "persist" /\ entry'[r] = entry[r] /\ mr'[r] = Task("sleep")
    BY <1>3, <1>c, <1>d DEF RefreshPersist
  <2>2. gateRow'[r] = UpsertGate(gateRow[r], mr[r].put) \/ (Spend("db") /\ gateRow'[r] = gateRow[r])
    BY <1>3, <1>c, <1>d DEF RefreshPersist, OrFail, SetGate
  <2>3. QED
    BY <2>1, <2>2
<1>4. QED
  BY <1>1, <1>2, <1>3

\* What the sender does to the gate of the row it works on.
LEMMA RevokeEffects ==
  ASSUME IInv, SenderSuspend \/ SenderPersist, NEW r \in Readers, r = snd.reader
  PROVE  \/ /\ Sendable(entry[r].state) /\ gateRow'[r] = gateRow[r]
            /\ entry'[r] = [state |-> "SUSPENDED_TOKEN", fp |-> entry[r].fp, meta |-> entry[r].meta]
         \/ /\ entry[r].state = "SUSPENDED_TOKEN" /\ entry'[r] = entry[r]
            /\ \/ gateRow'[r] = [state |-> "SUSPENDED_TOKEN", fp |-> Empty, meta |-> gateRow[r].meta]
               \/ Spend("db") /\ gateRow'[r] = gateRow[r]
<1>c. /\ UNCHANGED registryVars => UNCHANGED entry
      /\ UNCHANGED storeVars => UNCHANGED gateRow
  BY DEF registryVars, storeVars
<1>d. DOMAIN gateRow = Readers /\ DOMAIN entry = Readers
  BY DEF IInv, TypeOK, RegistryTypeOK, StoreTypeOK
<1>1. CASE SenderSuspend
  <2>1. Sendable(entry[r].state)
    BY <1>1 DEF SenderSuspend, IInv, SenderInv, Holding
  <2>2. QED
    BY <1>1, <1>c, <1>d, <2>1 DEF SenderSuspend, SetEntry, RevokedPut
<1>2. CASE SenderPersist
  <2>1. entry[r].state = "SUSPENDED_TOKEN"
    BY <1>2 DEF SenderPersist, IInv, SenderInv
  <2>2. QED
    BY <1>2, <1>c, <1>d, <2>1 DEF SenderPersist, OrFail, SetGate, UpsertGate, RevokedPut
<1>3. QED
  BY <1>1, <1>2

----------------------------------------------------------------------------
(* Verdicts *)

\* What a preflight has decided against a gate, once written, is in the
\* database and stays there.
LEMMA VerdictStep == IInv /\ VerdictDurable /\ Next => VerdictDurable'
<1> SUFFICES ASSUME IInv, VerdictDurable, Next, NEW r \in Readers,
                    Alive', entry'[r].state \in Sticky, pf'[r].pc # "persist", spent'["db"] = 0
             PROVE  gateRow'[r].state = entry'[r].state
  BY DEF VerdictDurable, Sticky, Alive
<1>a. GateOK(r) /\ TypeOK
  BY DEF IInv, GateInv
<1>b. ~Spend("db") /\ spent["db"] = 0
  BY <1>a, NoFailedWrite, SpentGrows DEF FaultKinds
<1>v. Alive /\ entry[r].state \in Sticky /\ pf[r].pc # "persist" => gateRow[r].state = entry[r].state
  BY <1>b DEF VerdictDurable, Sticky
<1>s. Sticky \cap (Unsettled \cup Opened \cup SendableStates) = {}
  BY DEF Sticky, Unsettled, Opened, SendableStates
<1>1. CASE Untouched(r)
  BY <1>1, <1>v DEF Untouched
<1>2. CASE PreflightSend(r) \/ PreflightAnswer(r) \/ PreflightPersist(r)
  <2>1. CASE pf[r].pc \in {"attempt", "backoff"} /\ entry'[r] = entry[r]
    BY <1>a, <1>s, <2>1 DEF GateOK
  <2>2. CASE \E put \in GatePut : pf'[r] = [pc |-> "persist", put |-> put]
    BY <2>2
  <2>3. CASE /\ pf[r].pc = "persist" /\ entry'[r] = entry[r]
             /\ gateRow'[r] = UpsertGate(gateRow[r], pf[r].put)
    <3>1. pf[r].put.state = entry[r].state
      BY <1>a, <1>s, <2>3 DEF GateOK
    <3>2. QED
      BY <2>3, <3>1 DEF UpsertGate
  <2>4. QED
    BY <1>2, <1>b, <2>1, <2>2, <2>3, PreflightEffects
<1>3. CASE (RefreshSend(r) \/ RefreshAnswer(r) \/ RefreshPersist(r)) /\ pf'[r] = pf[r] /\ life' = life
  <2>1. CASE entry'[r] = entry[r] /\ gateRow'[r] = gateRow[r]
    BY <1>3, <1>v, <2>1 DEF Alive
  <2>2. CASE entry'[r].state \in SendableStates
    BY <1>s, <2>2
  <2>3. CASE mr[r].pc = "persist" /\ entry'[r] = entry[r]
    BY <1>a, <1>s, <2>3 DEF GateOK
  <2>4. CASE \E c \in Cooldowns : \E meta \in GateMeta :
               /\ RefreshState(c) \in SendableStates
               /\ entry'[r] = [state |-> RefreshState(c), fp |-> entry[r].fp, meta |-> meta]
    BY <2>2, <2>4
  <2>5. RefreshSend(r) \/ RefreshAnswer(r) \/ RefreshPersist(r)
    BY <1>3
  <2>6. QED
    BY <2>1, <2>3, <2>4, <2>5, RefreshEffects
<1>4. CASE (SenderSuspend \/ SenderPersist) /\ snd.reader = r
  <2>1. SenderSuspend \/ SenderPersist
    BY <1>4
  <2>2. r = snd.reader
    BY <1>4
  <2>3. entry'[r].state = "SUSPENDED_TOKEN"
    <3>1. \/ entry'[r] = [state |-> "SUSPENDED_TOKEN", fp |-> entry[r].fp, meta |-> entry[r].meta]
          \/ entry[r].state = "SUSPENDED_TOKEN" /\ entry'[r] = entry[r]
      BY <2>1, <2>2, RevokeEffects
    <3>2. QED
      BY <3>1
  <2>4. QED
    BY <2>3 DEF Sticky
<1>5. CASE Start
  BY <1>5, StartFacts DEF TokenReplaced, Sticky, Suspended, SuspendedStates
<1>6. CASE Crash \/ Stopped \/ (\E q \in Readers : EditToken(q)) \/ ResumeSend(r) \/ ResumeDiscard(r)
  BY <1>6 DEF Crash, Stopped, Die, EditToken, ResumeSend, ResumeDiscard, Alive
<1>7. QED
  BY <1>1, <1>2, <1>3, <1>4, <1>5, <1>6, GateMoves

\* A REBIND or CONFIG verdict whose write is done is in the database, whatever
\* other goroutines write before or after it (Registry.Set, RefreshMeta).
THEOREM VerdictsAreDurable == Spec => []VerdictDurable
<1>1. Init => VerdictDurable
  BY DEF Init, RuntimeInit, VerdictDurable, Alive
<1>2. IInv /\ VerdictDurable /\ [Next]_vars => VerdictDurable'
  <2>1. VerdictDurable /\ UNCHANGED vars => VerdictDurable'
    BY DEF vars, runtimeVars, storeVars, registryVars, gateTaskVars, VerdictDurable, Alive
  <2>2. QED
    BY <2>1, VerdictStep
<1>3. QED
  BY <1>1, <1>2, Invariance, PTL DEF Spec

----------------------------------------------------------------------------
(* Fingerprints *)

\* Until a token is edited, no step brings in another fingerprint.
LEMMA FingerprintStep == IInv /\ FingerprintInv /\ Next => FingerprintInv'
<1> SUFFICES ASSUME IInv, FingerprintInv, Next, spent'["token"] = 0, NEW r \in Readers
             PROVE  FingerprintOK(r)'
  BY DEF FingerprintInv
<1>t. TypeOK /\ spent \in [FaultKinds -> Nat] /\ "token" \in FaultKinds
  BY DEF IInv, TypeOK, RuntimeTypeOK, FaultKinds
<1>a. FingerprintOK(r)
  BY <1>t, SpentGrows DEF FingerprintInv
<1>b. ~Spend("token")
  BY <1>t, SpendCounts
<1>p. \A pc : Task(pc).put.fp = Empty
  BY DEF Task, NoPut
<1>1. CASE Untouched(r)
  BY <1>1, <1>a DEF Untouched, FingerprintOK
<1>2. CASE (PreflightSend(r) \/ PreflightAnswer(r) \/ PreflightPersist(r)) /\ mr'[r] = mr[r] /\ cfgToken' = cfgToken
  <2>0. PreflightSend(r) \/ PreflightAnswer(r) \/ PreflightPersist(r)
    BY <1>2
  <2>1. CASE pf'[r] = Task("http") /\ entry'[r] = entry[r] /\ gateRow'[r] = gateRow[r]
    BY <1>2, <1>a, <1>p, <2>1 DEF FingerprintOK
  <2>2. ASSUME NEW put \in GatePut,
               pf'[r] = [pc |-> "persist", put |-> put], gateRow'[r] = gateRow[r],
               entry'[r] = [state |-> put.state,
                            fp    |-> IF put.fp = Empty THEN entry[r].fp ELSE put.fp,
                            meta  |-> IF put.meta = Empty THEN entry[r].meta ELSE put.meta],
               \/ \E s : put = Failed(s, cfgToken[r])
               \/ \E c \in Cooldowns : put = Confirmed(entry[r], cfgToken[r], c)
        PROVE  FingerprintOK(r)'
    <3>1. put.fp = cfgToken[r]
      BY <2>2 DEF Failed, Confirmed
    <3>2. entry'[r].fp \in {Empty, cfgToken[r]} /\ pf'[r].put.fp = cfgToken[r]
      BY <1>a, <2>2, <3>1 DEF FingerprintOK
    <3>3. QED
      BY <1>2, <1>a, <2>2, <3>2 DEF FingerprintOK
  <2>3. CASE /\ entry'[r] = entry[r]
             /\ pf'[r] = Task("off") \/ pf'[r] = Task("backoff")
             /\ gateRow'[r] = UpsertGate(gateRow[r], pf[r].put) \/ gateRow'[r] = gateRow[r]
    BY <1>2, <1>a, <1>p, <2>3 DEF FingerprintOK, UpsertGate
  <2>4. QED
    BY <2>0, <2>1, <2>2, <2>3, PreflightEffects
<1>3. CASE (RefreshSend(r) \/ RefreshAnswer(r) \/ RefreshPersist(r)) /\ pf'[r] = pf[r] /\ cfgToken' = cfgToken
  <2>0. RefreshSend(r) \/ RefreshAnswer(r) \/ RefreshPersist(r)
    BY <1>3
  <2>1. CASE (mr'[r] = Task("http") \/ mr'[r] = Task("sleep")) /\ entry'[r] = entry[r] /\ gateRow'[r] = gateRow[r]
    BY <1>3, <1>a, <1>p, <2>1 DEF FingerprintOK
  <2>2. ASSUME NEW c \in Cooldowns, NEW meta \in GateMeta, gateRow'[r] = gateRow[r],
               entry'[r] = [state |-> RefreshState(c), fp |-> entry[r].fp, meta |-> meta],
               mr'[r] = [pc |-> "persist", put |-> [state |-> RefreshState(c), fp |-> entry[r].fp, meta |-> meta]]
        PROVE  FingerprintOK(r)'
    <3>1. entry'[r].fp = entry[r].fp /\ mr'[r].put.fp = entry[r].fp
      BY <2>2
    <3>2. QED
      BY <1>3, <1>a, <2>2, <3>1 DEF FingerprintOK
  <2>3. CASE /\ entry'[r] = entry[r] /\ mr'[r] = Task("sleep")
             /\ gateRow'[r] = UpsertGate(gateRow[r], mr[r].put) \/ gateRow'[r] = gateRow[r]
    BY <1>3, <1>a, <1>p, <2>3 DEF FingerprintOK, UpsertGate
  <2>4. QED
    BY <2>0, <2>1, <2>2, <2>3, RefreshEffects
<1>4. CASE /\ SenderSuspend \/ SenderPersist
           /\ snd.reader = r /\ pf'[r] = pf[r] /\ mr'[r] = mr[r] /\ cfgToken' = cfgToken
  <2>0. (SenderSuspend \/ SenderPersist) /\ r = snd.reader
    BY <1>4
  <2>1. /\ \/ gateRow'[r] = gateRow[r]
           \/ gateRow'[r] = [state |-> "SUSPENDED_TOKEN", fp |-> Empty, meta |-> gateRow[r].meta]
        /\ \/ entry'[r] = entry[r]
           \/ entry'[r] = [state |-> "SUSPENDED_TOKEN", fp |-> entry[r].fp, meta |-> entry[r].meta]
    BY <2>0, RevokeEffects
  <2>2. gateRow'[r].fp \in {Empty, gateRow[r].fp} /\ entry'[r].fp = entry[r].fp
    BY <2>1
  <2>3. QED
    BY <1>4, <1>a, <2>2 DEF FingerprintOK
<1>5. CASE Start
  <2>1. pf'[r].put.fp = Empty /\ mr'[r].put.fp = Empty /\ cfgToken' = cfgToken
    BY <1>5, <1>p DEF Start, FreshProcesses
  <2>2. entry'[r].fp = gateRow[r].fp
    BY <1>5, StartFacts
  <2>3. gateRow'[r].fp \in {gateRow[r].fp, cfgToken[r]}
    BY <1>5, StartFacts DEF UpsertGate, ReplacedPut
  <2>4. QED
    BY <1>a, <2>1, <2>2, <2>3 DEF FingerprintOK
<1>6. CASE Crash \/ Stopped
  <2>1. /\ pf'[r].put.fp = Empty /\ mr'[r].put.fp = Empty /\ cfgToken' = cfgToken /\ gateRow' = gateRow
        /\ entry'[r].fp = Empty
    BY <1>6, <1>p DEF Crash, Stopped, Die, FreshProcesses, storeVars, FreshEntry
  <2>2. QED
    BY <1>a, <2>1 DEF FingerprintOK
<1>7. CASE \E q \in Readers : EditToken(q)
  BY <1>7, <1>b DEF EditToken
<1>8. CASE ResumeSend(r) \/ ResumeDiscard(r)
  <2>1. entry' = entry /\ pf' = pf /\ mr' = mr /\ cfgToken' = cfgToken
    BY <1>8 DEF ResumeSend, ResumeDiscard, registryVars, gateTaskVars
  <2>2. DOMAIN gateRow = Readers
    BY <1>t DEF TypeOK, StoreTypeOK
  <2>3. gateRow'[r].fp = gateRow[r].fp
    BY <1>8, <2>2 DEF ResumeSend, ResumeDiscard, SetGate, UpsertGate, ResumedPut, storeVars
  <2>4. QED
    BY <1>a, <2>1, <2>3 DEF FingerprintOK
<1>9. QED
  BY <1>1, <1>2, <1>3, <1>4, <1>5, <1>6, <1>7, <1>8, GateMoves

\* Until a token is edited, every fingerprint recorded, held or owed is that of
\* the configured token.
LEMMA FingerprintInvariance == Spec => []FingerprintInv
<1>1. Init => FingerprintInv
  BY DEF Init, StoreInit, RegistryInit, PreflightInit, FingerprintInv, FingerprintOK, NoRow, FreshEntry, Task, NoPut
<1>2. IInv /\ FingerprintInv /\ [Next]_vars => FingerprintInv'
  <2>1. FingerprintInv /\ UNCHANGED vars => FingerprintInv'
    BY DEF vars, runtimeVars, storeVars, registryVars, gateTaskVars, FingerprintInv, FingerprintOK
  <2>2. QED
    BY <2>1, FingerprintStep
<1>3. QED
  BY <1>1, <1>2, Invariance, PTL DEF Spec

\* A start lifts a revoked token's suspension only if the operator has edited a
\* token since the fingerprint was recorded (app.Run, restore).
THEOREM LiftsNeedTokenEdit == Spec => LiftNeedsTokenEdit
<1>1. IInv /\ FingerprintInv /\ [Next]_vars =>
        [\A r \in Readers :
           (/\ life = "down" /\ life' = "up"
            /\ gateRow[r].state = "SUSPENDED_TOKEN" /\ gateRow[r].fp # Empty
            /\ ~Suspended(entry'[r].state)) => spent["token"] > 0]_vars
  <2> SUFFICES ASSUME IInv, FingerprintInv, Next, NEW r \in Readers, life = "down", life' = "up",
                      gateRow[r].state = "SUSPENDED_TOKEN", gateRow[r].fp # Empty, ~Suspended(entry'[r].state)
               PROVE  spent["token"] > 0
    OBVIOUS
  <2>1. Start
    <3>1. life' = life \/ Start \/ Crash \/ Cancel \/ Stopped
      BY DEF Next, ClockStep, Tick, ClockBack, AdmitStep, AdmissionStep, SendStep, SenderStep, GateStep,
         PreflightStep, RefreshStep, SweepStep, OperatorStep, EditToken, ResumeSend, ResumeDiscard
    <3>2. QED
      BY <3>1 DEF Crash, Cancel, Stopped, Die, Alive, Running
  <2>2. Suspended(gateRow[r].state)
    BY DEF Suspended, SuspendedStates
  <2>3. TokenReplaced(r)
    BY <2>1, <2>2, StartFacts
  <2>4. spent["token"] \in Nat
    BY DEF IInv, TypeOK, RuntimeTypeOK, FaultKinds
  <2>5. spent["token"] # 0
    BY <2>3 DEF TokenReplaced, FingerprintInv, FingerprintOK
  <2>6. QED
    BY <2>4, <2>5
<1>2. QED
  BY <1>1, Invariance, FingerprintInvariance, PTL DEF Spec, LiftNeedsTokenEdit

----------------------------------------------------------------------------
(* Duplicates *)

\* Without a crash and a failed write, an answered row is deleted before the
\* sender looks for the next one.
LEMMA AnsweredStep == IInv /\ AnsweredInv /\ Next => AnsweredInv'
<1> SUFFICES ASSUME IInv, AnsweredInv, Next, spent'["crash"] + spent'["db"] = 0
             PROVE  /\ \A i \in DOMAIN queue' \cap answered' : snd'.pc \in Terminal /\ snd'.id = i
                    /\ snd'.pc = "post" => snd'.id \notin answered'
  BY DEF AnsweredInv
<1>t. /\ TypeOK /\ spent \in [FaultKinds -> Nat] /\ "db" \in FaultKinds /\ "crash" \in FaultKinds
      /\ nextId \in Nat /\ answered \subseteq 1..(nextId - 1) /\ DOMAIN queue \subseteq 1..(nextId - 1)
      /\ snd \in SenderRecord
  BY DEF IInv, TypeOK, RuntimeTypeOK, FaultKinds, StoreTypeOK, SenderTypeOK
<1>n. /\ spent["crash"] \in Nat /\ spent["db"] \in Nat /\ spent'["crash"] \in Nat /\ spent'["db"] \in Nat
      /\ spent["crash"] <= spent'["crash"] /\ spent["db"] <= spent'["db"]
  BY <1>t, SpentGrows
<1>z. spent["crash"] + spent["db"] = 0 /\ spent'["crash"] = 0 /\ spent'["db"] = 0
  BY <1>n
<1>b. ~Spend("db") /\ ~Spend("crash")
  BY <1>t, <1>n, <1>z, SpendCounts
<1>a. /\ \A i \in DOMAIN queue \cap answered : snd.pc \in Terminal /\ snd.id = i
      /\ snd.pc = "post" => snd.id \notin answered
  BY <1>z DEF AnsweredInv
<1>q. DOMAIN queue' \subseteq DOMAIN queue \cup {nextId}
  BY QueueStep DEF RowsKept, InsertRow
<1>f. CASE answered' = answered /\ snd'.pc = snd.pc /\ snd'.id = snd.id
  BY <1>a, <1>f, <1>q, <1>t
<1>1. CASE SendStep
  <2>q. DOMAIN queue' \subseteq DOMAIN queue
    <3>1. \/ UNCHANGED storeVars
          \/ CompleteRow(snd.id) \/ RetryLater(snd.id, RetryAt) \/ MarkAttemptKeepDue(snd.id)
          \/ SetGate(snd.reader, RevokedPut)
      BY <1>1 DEF SendStep, SenderStep, SenderLoop, SenderQuery, SenderIdle, SenderWait, SenderAnswer,
         SenderExpire, SenderComplete, SenderRetry, SenderRevoked, SenderSuspend, SenderPersist,
         SenderMark, SenderHalt, OrFail
    <3>2. QED
      BY <3>1 DEF storeVars, CompleteRow, DeleteRows, RetryLater, MarkAttemptKeepDue, SetGate
  <2>1. CASE SenderAnswer
    <3>1. PICK d \in Decisions :
            Goto(d) /\ answered' = IF d \in Terminal THEN answered \cup {snd.id} ELSE answered
      BY <2>1, AnswerFacts
    <3>2. snd'.pc = d /\ snd'.id = snd.id
      BY <3>1, <1>t, GotoFacts
    <3>3. DOMAIN queue \cap answered = {}
      BY <1>a, <2>1 DEF SenderAnswer, Terminal
    <3>4. QED
      BY <2>q, <3>1, <3>2, <3>3 DEF Decisions
  <2>2. CASE SenderQuery
    <3>1. DOMAIN queue \cap answered = {} /\ answered' = answered
      BY <1>a, <2>2 DEF SenderQuery, Terminal
    <3>2. snd'.pc = "post" => snd'.id \in DOMAIN queue
      BY <2>2 DEF SenderQuery, Sleep, Idle
    <3>3. QED
      BY <2>q, <3>1, <3>2
  <2>3. CASE SenderComplete \/ SenderRevoked
    <3>1. DOMAIN queue' = DOMAIN queue \ {snd.id} /\ answered' = answered
      BY <1>b, <2>3 DEF SenderComplete, SenderRevoked, OrFail, CompleteRow, DeleteRows
    <3>2. snd'.pc # "post"
      BY <2>3, <1>t, GotoFacts DEF SenderComplete, SenderRevoked, Idle
    <3>3. QED
      BY <1>a, <3>1, <3>2
  <2>4. CASE SenderLoop \/ SenderIdle \/ SenderWait \/ SenderExpire \/ SenderRetry \/ SenderSuspend
               \/ SenderPersist \/ SenderMark \/ SenderHalt
    <3>1. snd.pc \notin Terminal /\ answered' = answered
      BY <2>4 DEF SenderLoop, SenderIdle, SenderWait, SenderExpire, SenderRetry, SenderSuspend,
         SenderPersist, SenderMark, SenderHalt, Terminal
    <3>2. snd'.pc # "post"
      <4>1. CASE SenderLoop
        BY <4>1 DEF SenderLoop, Sleep, Idle
      <4>2. CASE SenderIdle
        BY <4>2, SleepFacts DEF SenderIdle
      <4>3. CASE SenderSuspend \/ SenderMark
        BY <4>3, <1>t, GotoFacts DEF SenderSuspend, SenderMark
      <4>4. CASE snd' = Idle
        BY <4>4 DEF Idle
      <4>5. QED
        BY <2>4, <4>1, <4>2, <4>3, <4>4 DEF SenderWait, SenderExpire, SenderRetry, SenderPersist, SenderHalt
    <3>3. QED
      BY <1>a, <2>q, <3>1, <3>2
  <2>5. QED
    BY <1>1, <2>1, <2>2, <2>3, <2>4 DEF SendStep, SenderStep
<1>2. CASE ClockStep
  BY <1>2, <1>f, <1>t DEF ClockStep, SenderRecord
<1>3. CASE AdmitStep \/ GateStep \/ SweepStep \/ Cancel \/ OperatorStep
  <2>1. UNCHANGED <<snd, answered>>
    BY <1>3 DEF AdmitStep, GateStep, PreflightStep, RefreshStep, SweepStep, Cancel, OperatorStep, EditToken,
       ResumeSend, ResumeDiscard, senderVars
  <2>2. QED
    BY <1>f, <2>1
<1>4. CASE Start \/ Stopped
  <2>1. snd' = Idle /\ answered' = answered /\ queue' = queue
    BY <1>4 DEF Start, Stopped, Die, FreshProcesses, storeVars
  <2>2. snd.pc \in {"loop", "wait", "errwait"}
    BY <1>4 DEF Start, Stopped, IInv, DownInv, Idle
  <2>3. QED
    BY <1>a, <2>1, <2>2 DEF Terminal, Idle
<1>5. CASE Crash
  BY <1>5, <1>b DEF Crash
<1>6. QED
  BY <1>1, <1>2, <1>3, <1>4, <1>5 DEF Next

\* A row whose answer was heard is POSTed again only after a crash or a failed
\* write, whatever stops, retries, sweeps and edits there are (deliver, Complete).
THEOREM DuplicatesNeedFault == Spec => []DuplicateOnlyAfterFault
<1>1. Init => AnsweredInv
  BY DEF Init, StoreInit, SenderInit, Idle, AnsweredInv
<1>2. IInv /\ AnsweredInv /\ [Next]_vars => AnsweredInv'
  <2>1. AnsweredInv /\ UNCHANGED vars => AnsweredInv'
    BY DEF vars, runtimeVars, storeVars, senderVars, AnsweredInv
  <2>2. QED
    BY <2>1, AnsweredStep
<1>3. IInv /\ AnsweredInv => DuplicateOnlyAfterFault
  <2> SUFFICES ASSUME IInv, AnsweredInv, snd.pc = "post", snd.id \in answered
               PROVE  spent["crash"] + spent["db"] > 0
    BY DEF DuplicateOnlyAfterFault
  <2>1. spent["crash"] \in Nat /\ spent["db"] \in Nat
    BY DEF IInv, TypeOK, RuntimeTypeOK, FaultKinds
  <2>2. spent["crash"] + spent["db"] # 0
    BY DEF AnsweredInv
  <2>3. QED
    BY <2>1, <2>2
<1>4. QED
  BY <1>1, <1>2, <1>3, Invariance, PTL DEF Spec

----------------------------------------------------------------------------
(* Wake-ups *)

\* The sender goes to sleep no longer than to the earliest row it may send.
LEMMA IdleWakesUp ==
  ASSUME IInv, SendStep, SenderIdle, snd'.pc = "wait", NEW i \in RowsOf(SendableReaders)
  PROVE  snd'.until <= clock \/ snd'.until <= queue[i].next + snd'.lag
<1>t. clock \in Nat /\ snd.now \in Nat /\ MaxIdle \in Nat /\ \A j \in DOMAIN queue : queue[j].next \in Nat
  BY RuntimeAssumption DEF IInv, TypeOK, RuntimeTypeOK, SenderTypeOK, SenderRecord, StoreTypeOK, QueueRow
<1>1. PICK j \in DOMAIN queue : IsEarliest(j, SendableReaders) /\ Sleep("wait", Clamp(queue[j].next - snd.now))
  <2>1. CASE Sleep("errwait", MaxIdle)
    BY <2>1, SleepFacts
  <2>2. QED
    BY <2>1 DEF SenderIdle
<1>2. snd'.until = clock + Clamp(queue[j].next - snd.now) /\ snd'.lag = clock - snd.now
  BY <1>1 DEF Sleep, Idle
<1>3. queue[j].next <= queue[i].next
  BY <1>1 DEF IsEarliest
<1>4. i \in DOMAIN queue
  BY DEF RowsOf
<1> DEFINE d == queue[j].next - snd.now
<1>5. d \in Int /\ (Clamp(d) = 0 \/ (Clamp(d) \in Int /\ Clamp(d) <= d))
  BY <1>t DEF Clamp
<1> HIDE DEF d
<1>6. snd'.until = clock + Clamp(d)
  BY <1>2 DEF d
<1>7. CASE Clamp(d) = 0
  BY <1>6, <1>7, <1>t
<1>8. CASE Clamp(d) \in Int /\ Clamp(d) <= d
  <2>1. Clamp(d) <= queue[j].next - snd.now
    BY <1>8 DEF d
  <2>2. QED
    BY <1>2, <1>3, <1>4, <1>6, <1>8, <1>t, <2>1
<1>9. QED
  BY <1>5, <1>7, <1>8

\* While the sender sleeps, a row or a gate that matters to it comes with a signal.
LEMMA QuietSteps ==
  ASSUME IInv, Next, ~SendStep, snd'.pc = "wait", Running', wake' = 0, changed' = 0,
         \A r \in Readers : adm'[r].pc # "wake"
  PROVE  /\ snd.pc = "wait" /\ Running /\ wake = 0 /\ changed = 0 /\ global' = global /\ entry' = entry
         /\ \A r \in Readers : adm[r].pc # "wake"
         /\ DOMAIN queue' \subseteq DOMAIN queue /\ \A i \in DOMAIN queue' : queue'[i] = queue[i]
<1>c. /\ UNCHANGED registryVars => UNCHANGED <<entry, global, changed>>
      /\ UNCHANGED storeVars => UNCHANGED queue
      /\ UNCHANGED admissionVars => UNCHANGED <<adm, wake>>
      /\ UNCHANGED senderVars => UNCHANGED snd
  BY DEF registryVars, storeVars, admissionVars, senderVars
<1>d. DOMAIN adm = Readers
  BY DEF IInv, TypeOK, AdmissionTypeOK
<1>1. CASE AdmitStep
  <2>1. PICK r \in Readers : HandleCheck(r) \/ HandleAdmit(r) \/ HandleWake(r)
    BY <1>1 DEF AdmitStep, AdmissionStep
  <2>2. UNCHANGED <<entry, global, changed, snd, life>>
    BY <1>1, <1>c DEF AdmitStep, AdmissionStep
  <2>3. CASE HandleCheck(r)
    BY <1>c, <1>d, <2>2, <2>3 DEF HandleCheck, Running
  <2>4. CASE HandleAdmit(r)
    <3>1. adm[r].pc = "admit" /\ wake' = wake /\ \A q \in Readers \ {r} : adm'[q] = adm[q]
      BY <1>d, <2>4 DEF HandleAdmit
    <3>2. UNCHANGED storeVars
      BY <1>d, <2>4 DEF HandleAdmit, IdleHandler
    <3>3. QED
      BY <1>c, <2>2, <3>1, <3>2 DEF Running
  <2>5. CASE HandleWake(r)
    BY <2>5 DEF HandleWake
  <2>6. QED
    BY <2>1, <2>3, <2>4, <2>5
<1>2. CASE GateStep
  <2>1. UNCHANGED <<adm, wake, snd, life>>
    BY <1>2, <1>c DEF GateStep, PreflightStep, RefreshStep
  <2>2. UNCHANGED registryVars
    BY <1>2 DEF GateStep, PreflightStep, RefreshStep, PreflightSend, PreflightAnswer, PreflightPersist,
       RefreshSend, RefreshAnswer, RefreshPersist, Settle, SetEntry, RefreshMeta, Notify
  <2>3. UNCHANGED queue
    BY <1>2, <1>c DEF GateStep, PreflightStep, RefreshStep, PreflightSend, PreflightAnswer, PreflightPersist,
       RefreshSend, RefreshAnswer, RefreshPersist, OrFail, SetGate
  <2>4. QED
    BY <1>c, <2>1, <2>2, <2>3 DEF Running
<1>3. CASE SweepStep
  <2>1. UNCHANGED <<adm, wake, snd, life>> /\ UNCHANGED registryVars
    BY <1>3, <1>c DEF SweepStep
  <2>2. DOMAIN queue' \subseteq DOMAIN queue /\ \A i \in DOMAIN queue' : queue'[i] = queue[i]
    BY <1>3, <1>c DEF SweepStep, SweepExpire, SweepCleanup, OrFail, ExpireBefore, DeleteRows, CleanupDebounce
  <2>3. QED
    BY <1>c, <2>1, <2>2 DEF Running
<1>4. CASE ClockStep
  <2>1. UNCHANGED <<adm, wake, life, queue>> /\ UNCHANGED registryVars
    BY <1>4, <1>c DEF ClockStep, Tick, ClockBack
  <2>2. snd'.pc = snd.pc
    BY <1>4 DEF ClockStep, IInv, TypeOK, SenderTypeOK, SenderRecord
  <2>3. QED
    BY <1>c, <2>1, <2>2 DEF Running
<1>5. CASE Start \/ Crash \/ Stopped
  BY <1>5 DEF Start, Crash, Stopped, Die, FreshProcesses, Idle
<1>6. CASE Cancel \/ OperatorStep
  BY <1>6 DEF Cancel, OperatorStep, EditToken, ResumeSend, ResumeDiscard, Running
<1>7. QED
  BY <1>1, <1>2, <1>3, <1>4, <1>5, <1>6 DEF Next

\* The sender's sleep ends in time, or a signal is on its way.
LEMMA WakeupStep == IInv /\ NoLostWakeup /\ Next => NoLostWakeup'
<1> SUFFICES ASSUME IInv, NoLostWakeup, Next, snd'.pc = "wait", Running', global' = "RUNNING", wake' = 0,
                    changed' = 0, \A r \in Readers : adm'[r].pc # "wake",
                    NEW i \in RowsOf(SendableReaders)'
             PROVE  snd'.until <= clock' \/ snd'.until <= queue'[i].next + snd'.lag
  BY DEF NoLostWakeup
<1>t. clock \in Nat /\ snd \in SenderRecord /\ \A j \in DOMAIN queue : queue[j].next \in Nat
  BY DEF IInv, TypeOK, RuntimeTypeOK, SenderTypeOK, StoreTypeOK, QueueRow
<1>1. CASE SendStep
  <2>1. CASE SenderLoop
    BY <2>1 DEF SenderLoop, Sleep, Idle, registryVars
  <2>2. CASE SenderIdle
    <3>1. UNCHANGED <<queue, entry, clock>>
      BY <1>1, <2>2 DEF SendStep, SenderStep, SenderIdle, storeVars, registryVars
    <3>2. i \in RowsOf(SendableReaders)
      BY <3>1 DEF RowsOf, SendableReaders
    <3>3. QED
      BY <1>1, <2>2, <3>1, <3>2, IdleWakesUp
  <2>3. CASE SenderQuery
    BY <2>3 DEF SenderQuery, Sleep, Idle
  <2>4. CASE SenderAnswer \/ SenderRevoked \/ SenderSuspend \/ SenderMark
    <3>1. \E pc \in Decisions \cup {"suspend", "persist", "halt"} : Goto(pc)
      BY <2>4, AnswerFacts DEF SenderRevoked, SenderSuspend, SenderMark
    <3>2. QED
      BY <3>1, GotoFacts DEF IInv, Decisions
  <2>5. CASE snd' = Idle
    BY <2>5 DEF Idle
  <2>6. QED
    BY <1>1, <2>1, <2>2, <2>3, <2>4, <2>5 DEF SendStep, SenderStep, SenderWait, SenderExpire, SenderComplete,
       SenderRetry, SenderPersist, SenderHalt
<1>2. CASE ~SendStep
  <2>1. /\ snd.pc = "wait" /\ Running /\ wake = 0 /\ changed = 0 /\ global' = global /\ entry' = entry
        /\ \A r \in Readers : adm[r].pc # "wake"
        /\ DOMAIN queue' \subseteq DOMAIN queue /\ \A j \in DOMAIN queue' : queue'[j] = queue[j]
    BY <1>2, QuietSteps
  <2>2. i \in RowsOf(SendableReaders) /\ queue'[i] = queue[i] /\ i \in DOMAIN queue
    BY <2>1 DEF RowsOf, SendableReaders
  <2>3. snd.until <= clock \/ snd.until <= queue[i].next + snd.lag
    BY <2>1, <2>2 DEF NoLostWakeup
  <2>4. snd.until \in Nat /\ snd.lag \in Int /\ queue[i].next \in Nat
    BY <1>t, <2>2 DEF SenderRecord
  <2>5. CASE Tick /\ UNCHANGED snd
    BY <2>2, <2>3, <2>4, <2>5, <1>t DEF Tick
  <2>6. CASE ClockBack /\ snd' = [snd EXCEPT !.until = TimerMoved]
    <3>1. snd'.until = TimerMoved /\ snd'.lag = snd.lag
      BY <1>t, <2>6 DEF SenderRecord
    <3>2. clock' \in Nat /\ clock' < clock
      BY <2>6 DEF ClockBack
    <3>3. TimerMoved = 0 \/ (TimerMoved = snd.until - (clock - clock') /\ TimerMoved \in Nat)
      BY <1>t, <2>4, <3>2 DEF TimerMoved
    <3> HIDE DEF TimerMoved
    <3>4. QED
      BY <1>t, <2>2, <2>3, <2>4, <3>1, <3>2, <3>3
  <2>7. CASE UNCHANGED <<snd, clock>>
    BY <2>2, <2>3, <2>7
  <2>8. QED
    <3>1. CASE ClockStep
      BY <2>5, <2>6, <3>1 DEF ClockStep
    <3>2. CASE AdmitStep \/ GateStep \/ SweepStep \/ Cancel \/ OperatorStep
      BY <2>7, <3>2 DEF AdmitStep, AdmissionStep, GateStep, PreflightStep, RefreshStep, SweepStep, Cancel,
         OperatorStep, EditToken, ResumeSend, ResumeDiscard, senderVars
    <3>3. CASE Start \/ Crash \/ Stopped
      BY <3>3 DEF Start, Crash, Stopped, Die, FreshProcesses, Idle
    <3>4. QED
      BY <1>2, <3>1, <3>2, <3>3 DEF Next
<1>3. QED
  BY <1>1, <1>2

\* Whatever arrives, opens or is set back while the sender sleeps, it wakes in
\* time for every row it may send, or a signal is on its way (Wake, notify,
\* idleWait, waitSignal).
THEOREM WakeupsAreNotLost == Spec => []NoLostWakeup
<1>1. Init => NoLostWakeup
  BY DEF Init, SenderInit, Idle, NoLostWakeup
<1>2. IInv /\ NoLostWakeup /\ [Next]_vars => NoLostWakeup'
  <2>1. NoLostWakeup /\ UNCHANGED vars => NoLostWakeup'
    BY DEF vars, runtimeVars, storeVars, registryVars, admissionVars, senderVars, NoLostWakeup, Running,
       RowsOf, SendableReaders
  <2>2. QED
    BY <2>1, WakeupStep
<1>3. QED
  BY <1>1, <1>2, Invariance, PTL DEF Spec

----------------------------------------------------------------------------
(* Undecided gates and queued rows *)

\* The goroutine that leaves a gate undecided goes on; one that ends has
\* decided it.
LEMMA AbandonStep == IInv /\ NoGateAbandoned /\ Next => NoGateAbandoned'
<1> SUFFICES ASSUME IInv, NoGateAbandoned, Next, NEW r \in Readers, Alive', entry'[r].state \in Unsettled
             PROVE  Trying(r)'
  BY DEF NoGateAbandoned
<1>a. GateOK(r) /\ DOMAIN pf = Readers
  BY DEF IInv, GateInv, TypeOK, PreflightTypeOK
<1>b. Alive /\ entry[r].state \in Unsettled => Trying(r)
  BY DEF NoGateAbandoned
<1>s. Unsettled \cap (SendableStates \cup SuspendedStates) = {}
  BY DEF Unsettled, SendableStates, SuspendedStates
<1>1. CASE Untouched(r)
  BY <1>1, <1>b DEF Untouched, Trying
<1>2. CASE PreflightSend(r)
  BY <1>2, <1>a DEF PreflightSend, Task, Trying
<1>3. CASE PreflightAnswer(r)
  <2>1. pf[r].pc = "http"
    BY <1>3 DEF PreflightAnswer
  <2>2. PICK put \in GatePut :
          /\ pf'[r] = [pc |-> "persist", put |-> put]
          /\ entry'[r] = [state |-> put.state,
                          fp    |-> IF put.fp = Empty THEN entry[r].fp ELSE put.fp,
                          meta  |-> IF put.meta = Empty THEN entry[r].meta ELSE put.meta]
          /\ \/ NetFault /\ put = Failed("PREFLIGHT_RETRY", cfgToken[r])
             \/ put = Failed("SUSPENDED_TOKEN", cfgToken[r])
             \/ put = Failed("SUSPENDED_CONFIG", cfgToken[r])
             \/ \E c \in Cooldowns : put = Confirmed(entry[r], cfgToken[r], c)
    BY <1>3, <2>1, PreflightEffects
  <2>3. put.state = "PREFLIGHT_RETRY" \/ put.state \in SendableStates \cup SuspendedStates
    BY <2>2 DEF Failed, Confirmed, ActiveState, SendableStates, SuspendedStates
  <2>4. QED
    BY <1>s, <2>2, <2>3 DEF Trying
<1>4. CASE PreflightPersist(r)
  <2>1. entry'[r] = entry[r] /\ pf[r].pc = "persist" /\ Alive
    BY <1>4 DEF PreflightPersist, registryVars
  <2>2. pf[r].put.state = "PREFLIGHT_RETRY"
    BY <1>b, <2>1 DEF Trying
  <2>3. pf'[r].pc = "backoff"
    BY <1>4, <1>a, <2>2 DEF PreflightPersist, Task
  <2>4. QED
    BY <2>3 DEF Trying
<1>5. CASE (RefreshSend(r) \/ RefreshAnswer(r) \/ RefreshPersist(r)) /\ pf'[r] = pf[r] /\ life' = life
  <2>1. CASE entry'[r] = entry[r]
    BY <1>5, <1>b, <2>1 DEF Alive, Trying
  <2>2. CASE \E c \in Cooldowns : \E meta \in GateMeta :
               /\ RefreshState(c) \in SendableStates
               /\ entry'[r] = [state |-> RefreshState(c), fp |-> entry[r].fp, meta |-> meta]
    BY <1>s, <2>2
  <2>3. RefreshSend(r) \/ RefreshAnswer(r) \/ RefreshPersist(r)
    BY <1>5
  <2>4. QED
    BY <2>1, <2>2, <2>3, RefreshEffects
<1>6. CASE (SenderSuspend \/ SenderPersist) /\ snd.reader = r
  <2>1. SenderSuspend \/ SenderPersist
    BY <1>6
  <2>2. r = snd.reader
    BY <1>6
  <2>3. entry'[r].state = "SUSPENDED_TOKEN"
    <3>1. \/ entry'[r] = [state |-> "SUSPENDED_TOKEN", fp |-> entry[r].fp, meta |-> entry[r].meta]
          \/ entry[r].state = "SUSPENDED_TOKEN" /\ entry'[r] = entry[r]
      BY <2>1, <2>2, RevokeEffects
    <3>2. QED
      BY <3>1
  <2>4. QED
    BY <2>3 DEF Unsettled
<1>7. CASE Start
  <2>1. pf'[r] = Task("attempt")
    BY <1>7, <1>s DEF Start, Suspended
  <2>2. QED
    BY <2>1 DEF Task, Trying
<1>8. CASE Crash \/ Stopped \/ (\E q \in Readers : EditToken(q)) \/ ResumeSend(r) \/ ResumeDiscard(r)
  BY <1>8 DEF Crash, Stopped, Die, EditToken, ResumeSend, ResumeDiscard, Alive
<1>9. QED
  BY <1>1, <1>2, <1>3, <1>4, <1>5, <1>6, <1>7, <1>8, GateMoves

\* A gate that is not decided has a preflight that has not given up, over any
\* failed requests and writes, suspensions by other goroutines and restarts:
\* the safety part of GateSettles (app.go restore, Preflight.Run).
THEOREM UndecidedGatesAreTried == Spec => []NoGateAbandoned
<1>1. Init => NoGateAbandoned
  BY DEF Init, RuntimeInit, NoGateAbandoned, Alive
<1>2. IInv /\ NoGateAbandoned /\ [Next]_vars => NoGateAbandoned'
  <2>1. NoGateAbandoned /\ UNCHANGED vars => NoGateAbandoned'
    BY DEF vars, runtimeVars, registryVars, gateTaskVars, NoGateAbandoned, Trying, Alive
  <2>2. QED
    BY <2>1, AbandonStep
<1>3. QED
  BY <1>1, <1>2, Invariance, PTL DEF Spec

\* No queued row is left to nobody while the process runs: its reader is
\* suspended, or a preflight will decide its gate, or the sender will look at it
\* when it is due (Preflight.Run, Wake, notify, idleWait).
THEOREM NoRowIsStranded == Spec => []RowsAreInHand
<1>1. IInv /\ NoGateAbandoned /\ NoLostWakeup => RowsAreInHand
  <2> SUFFICES ASSUME IInv, NoGateAbandoned, NoLostWakeup, Running, global = "RUNNING", NEW i \in DOMAIN queue
               PROVE  LET gate == entry[queue[i].reader].state IN
                      \/ Suspended(gate)
                      \/ gate \in Unsettled /\ Trying(queue[i].reader)
                      \/ /\ Sendable(gate)
                         /\ snd.pc = "wait" => \/ Signalled
                                               \/ snd.until <= clock
                                               \/ snd.until <= queue[i].next + snd.lag
    BY DEF RowsAreInHand
  <2>1. PICK r \in Readers : r = queue[i].reader
    BY DEF IInv, TypeOK, StoreTypeOK, QueueRow
  <2>2. entry[r].state \in Unsettled \cup SendableStates \cup SuspendedStates
    BY DEF IInv, TypeOK, RegistryTypeOK, GateEntry, GateStates, Unsettled
  <2>3. entry[r].state \in Unsettled => Trying(r)
    BY DEF NoGateAbandoned, Running, Alive
  <2>4. CASE Sendable(entry[r].state) /\ snd.pc = "wait" /\ ~Signalled
    <3>1. wake = 0 /\ changed = 0 /\ \A q \in Readers : adm[q].pc # "wake"
      BY <2>4 DEF Signalled, IInv, TypeOK, RegistryTypeOK, AdmissionTypeOK
    <3>2. i \in RowsOf(SendableReaders)
      BY <2>1, <2>4 DEF RowsOf, SendableReaders
    <3>3. QED
      BY <2>1, <2>4, <3>1, <3>2 DEF NoLostWakeup
  <2>5. QED
    BY <2>1, <2>2, <2>3, <2>4 DEF Sendable, Suspended
<1>2. QED
  BY <1>1, Invariance, UndecidedGatesAreTried, WakeupsAreNotLost, PTL

----------------------------------------------------------------------------
(* The rebind guard *)

\* In an undisturbed step no write is lost and no request fails.
LEMMA UndisturbedStep ==
  ASSUME TypeOK, Next, Undisturbed'
  PROVE  Undisturbed /\ ~Spend("crash") /\ ~Spend("db") /\ ~NetFault
<1>t. spent \in [FaultKinds -> Nat] /\ {"crash", "db", "net", "cancel"} \subseteq FaultKinds
  BY DEF TypeOK, RuntimeTypeOK, FaultKinds
<1>1. \A k \in {"crash", "db", "net", "cancel"} :
        spent[k] \in Nat /\ spent'[k] \in Nat /\ spent[k] <= spent'[k]
  BY <1>t, SpentGrows
<1>2. \A k \in {"crash", "db", "net", "cancel"} : spent'[k] = 0
  <2>1. /\ spent'["crash"] \in Nat /\ spent'["db"] \in Nat /\ spent'["net"] \in Nat /\ spent'["cancel"] \in Nat
    BY <1>1
  <2>s. spent'["crash"] + spent'["db"] + spent'["net"] + spent'["cancel"] = 0
    BY DEF Undisturbed
  <2>2. spent'["crash"] = 0 /\ spent'["db"] = 0 /\ spent'["net"] = 0 /\ spent'["cancel"] = 0
    <3>1. \A a, b, c, d \in Nat : a + b + c + d = 0 => a = 0 /\ b = 0 /\ c = 0 /\ d = 0
      OBVIOUS
    <3>2. QED
      BY <2>1, <2>s, <3>1
  <2>3. QED
    BY <2>2
<1>3. \A k \in {"crash", "db", "net", "cancel"} : spent[k] = 0
  BY <1>1, <1>2
<1>4. \A k \in {"crash", "db", "net", "cancel"} : ~Spend(k)
  BY <1>t, <1>2, <1>3, SpendCounts
<1>5. QED
  BY <1>3, <1>4 DEF Undisturbed, NetFault

\* The configured token is a token, of a booth.
LEMMA TokenFacts ==
  ASSUME TypeOK, NEW r \in Readers
  PROVE  cfgToken[r] \in Tokens /\ cfgToken[r] # Empty /\ BoothOf[cfgToken[r]] \in Booths
BY DomainAssumption DEF TypeOK, RuntimeTypeOK

\* An opening write, done, guards the rows of the configured token's booth.
LEMMA OpeningWrite ==
  ASSUME TypeOK, NEW r \in Readers, NEW put, Opens(put, r), NEW row
  PROVE  Guards(UpsertGate(row, put), BoothOf[cfgToken[r]])
BY TokenFacts DEF Opens, Guards, UpsertGate

\* While the process is down, every gate is fresh and every task at rest.
LEMMA DownGates ==
  ASSUME IInv, life = "down", NEW r \in Readers
  PROVE  /\ entry[r] = FreshEntry /\ pf[r] = Task("off") /\ mr[r] = Task("sleep") /\ snd = Idle
         /\ ~Sendable(entry[r].state) /\ pf[r].pc = "off" /\ mr[r].pc = "sleep"
<1>1. entry[r] = FreshEntry /\ pf[r] = Task("off") /\ mr[r] = Task("sleep") /\ snd = Idle
  BY DEF IInv, DownInv
<1>2. QED
  BY <1>1 DEF FreshEntry, Task, Sendable, SendableStates

\* After a start or an end of the process no gate is open and no write is owed.
LEMMA BoundaryGates ==
  ASSUME IInv, Start \/ Crash \/ Stopped, NEW r \in Readers
  PROVE  ~Sendable(entry'[r].state) /\ pf'[r].pc # "persist" /\ mr'[r].pc = "sleep"
<1>1. CASE Start
  <2>1. pf'[r].pc # "persist" /\ mr'[r].pc = "sleep"
    BY <1>1 DEF Start, FreshProcesses, Task
  <2>2. Suspended(entry'[r].state) \/ entry'[r].state = "PREFLIGHT_PENDING"
    BY <1>1, StartFacts
  <2>3. QED
    BY <2>1, <2>2 DEF Suspended, SuspendedStates, Sendable, SendableStates
<1>2. CASE Crash \/ Stopped
  BY <1>2 DEF Crash, Stopped, Die, FreshProcesses, Task, FreshEntry, Sendable, SendableStates
<1>3. QED
  BY <1>1, <1>2

\* Writes owed for an open gate carry the configured token, and once done the
\* stored row does.
LEMMA GateBoothStep ==
  ASSUME IInv, Next, Undisturbed', NEW r \in Readers, GateBoothOK(r)
  PROVE  GateBoothOK(r)'
<1>a. TypeOK /\ GateOK(r)
  BY DEF IInv, GateInv
<1>b. ~Spend("db") /\ ~NetFault
  BY <1>a, UndisturbedStep
<1>1. CASE Untouched(r)
  BY <1>1 DEF Untouched, GateBoothOK, Opens, Guards
<1>2. CASE (PreflightSend(r) \/ PreflightAnswer(r) \/ PreflightPersist(r)) /\ mr'[r] = mr[r] /\ cfgToken' = cfgToken
  <2>0. PreflightSend(r) \/ PreflightAnswer(r) \/ PreflightPersist(r)
    BY <1>2
  <2>m. mr'[r].pc = "persist" => Opens(mr[r].put, r)'
    BY <1>2 DEF GateBoothOK, Opens
  <2>1. CASE pf[r].pc \in {"attempt", "backoff"} /\ pf'[r] = Task("http") /\ entry'[r] = entry[r]
    <3>1. pf'[r].pc = "http" /\ ~Sendable(entry'[r].state)
      BY <1>a, <2>1 DEF GateOK, Task, Unsettled, Sendable, SendableStates
    <3>2. QED
      BY <2>m, <3>1 DEF GateBoothOK
  <2>2. ASSUME NEW put \in GatePut, pf'[r] = [pc |-> "persist", put |-> put],
               put.state \in SendableStates => \E c \in Cooldowns : put = Confirmed(entry[r], cfgToken[r], c)
        PROVE  GateBoothOK(r)'
    <3>1. pf'[r].pc = "persist" /\ pf'[r].put = put
      BY <2>2
    <3>2. put.state \in SendableStates => Opens(put, r)
      <4> SUFFICES ASSUME NEW c \in Cooldowns, put = Confirmed(entry[r], cfgToken[r], c) PROVE Opens(put, r)
        BY <2>2
      <4>1. put.fp = cfgToken[r] /\ put.meta = [booth |-> BoothOf[cfgToken[r]], cooldown |-> c]
        BY DEF Confirmed
      <4>2. put.meta \in GateMeta
        BY <4>1, <1>a, VerdictTypes
      <4>3. put.meta # Empty
        BY <4>2, DomainAssumption
      <4>4. QED
        BY <4>1, <4>3 DEF Opens
    <3>3. Opens(put, r) => Opens(put, r)'
      BY <1>2 DEF Opens
    <3>4. QED
      BY <2>m, <3>1, <3>2, <3>3 DEF GateBoothOK
  <2>3. CASE /\ pf[r].pc = "persist" /\ entry'[r] = entry[r]
             /\ pf'[r] = Task("off") \/ pf'[r] = Task("backoff")
             /\ gateRow'[r] = UpsertGate(gateRow[r], pf[r].put)
    <3>1. pf'[r].pc # "persist"
      BY <2>3 DEF Task
    <3>2. Sendable(entry[r].state) => Opens(pf[r].put, r)
      BY <1>a, <2>3 DEF GateOK, GateBoothOK
    <3>3. Sendable(entry[r].state) => Guards(gateRow'[r], BoothOf[cfgToken[r]])
      BY <1>a, <2>3, <3>2, OpeningWrite
    <3>4. QED
      BY <1>2, <2>m, <2>3, <3>1, <3>3 DEF GateBoothOK, Guards
  <2>4. \A s \in {"SUSPENDED_TOKEN", "SUSPENDED_CONFIG"} : Failed(s, cfgToken[r]).state \notin SendableStates
    BY DEF Failed, SendableStates
  <2>5. QED
    BY <1>b, <2>0, <2>1, <2>2, <2>3, <2>4, PreflightEffects
<1>3. CASE (RefreshSend(r) \/ RefreshAnswer(r) \/ RefreshPersist(r)) /\ pf'[r] = pf[r] /\ cfgToken' = cfgToken
  <2>0. RefreshSend(r) \/ RefreshAnswer(r) \/ RefreshPersist(r)
    BY <1>3
  <2>p. pf'[r].pc = "persist" /\ pf'[r].put.state \in SendableStates => Opens(pf[r].put, r)'
    BY <1>3 DEF GateBoothOK, Opens
  <2>1. CASE (mr'[r] = Task("http") \/ mr'[r] = Task("sleep")) /\ entry'[r] = entry[r] /\ gateRow'[r] = gateRow[r]
    <3>1. mr'[r].pc # "persist"
      BY <2>1 DEF Task
    <3>2. QED
      BY <1>3, <2>p, <2>1, <3>1 DEF GateBoothOK, Guards
  <2>2. ASSUME Sendable(entry[r].state), gateRow'[r] = gateRow[r],
               NEW c \in Cooldowns, NEW meta \in GateMeta, meta = [booth |-> BoothOf[cfgToken[r]], cooldown |-> c],
               entry'[r] = [state |-> RefreshState(c), fp |-> entry[r].fp, meta |-> meta],
               mr'[r] = [pc |-> "persist", put |-> [state |-> RefreshState(c), fp |-> entry[r].fp, meta |-> meta]]
        PROVE  GateBoothOK(r)'
    <3>1. mr'[r].put.fp = cfgToken[r] /\ mr'[r].put.meta = meta
      BY <1>a, <2>2 DEF GateOK
    <3>2. meta # Empty /\ meta.booth = BoothOf[cfgToken[r]]
      BY <2>2, DomainAssumption
    <3>3. Opens(mr[r].put, r)'
      BY <1>3, <3>1, <3>2 DEF Opens
    <3>4. pf[r].pc # "persist" => Guards(gateRow[r], BoothOf[cfgToken[r]])
      BY <2>2 DEF GateBoothOK
    <3>5. QED
      BY <1>3, <2>p, <2>2, <3>3, <3>4 DEF GateBoothOK, Guards
  <2>3. CASE /\ mr[r].pc = "persist" /\ entry'[r] = entry[r] /\ mr'[r] = Task("sleep")
             /\ gateRow'[r] = UpsertGate(gateRow[r], mr[r].put)
    <3>1. mr'[r].pc # "persist"
      BY <2>3 DEF Task
    <3>2. Guards(gateRow'[r], BoothOf[cfgToken[r]])
      BY <1>a, <2>3, OpeningWrite DEF GateBoothOK
    <3>3. QED
      BY <1>3, <2>p, <3>1, <3>2 DEF GateBoothOK, Guards
  <2>4. QED
    BY <1>b, <2>0, <2>1, <2>2, <2>3, RefreshEffects
<1>4. CASE /\ SenderSuspend \/ SenderPersist
           /\ snd.reader = r /\ pf'[r] = pf[r] /\ mr'[r] = mr[r] /\ cfgToken' = cfgToken
  <2>0. (SenderSuspend \/ SenderPersist) /\ r = snd.reader
    BY <1>4
  <2>1. \/ entry'[r] = [state |-> "SUSPENDED_TOKEN", fp |-> entry[r].fp, meta |-> entry[r].meta]
        \/ entry[r].state = "SUSPENDED_TOKEN" /\ entry'[r] = entry[r]
    BY <2>0, RevokeEffects
  <2>2. ~Sendable(entry'[r].state)
    BY <2>1 DEF Sendable, SendableStates
  <2>3. QED
    BY <1>4, <2>2 DEF GateBoothOK, Opens
<1>5. CASE Start \/ Crash \/ Stopped
  BY <1>5, BoundaryGates DEF GateBoothOK
<1>6. CASE (\E q \in Readers : EditToken(q)) \/ ResumeSend(r) \/ ResumeDiscard(r)
  <2>1. life = "down" /\ UNCHANGED <<entry, pf, mr>>
    BY <1>6 DEF EditToken, ResumeSend, ResumeDiscard, registryVars, gateTaskVars
  <2>2. QED
    BY <2>1, DownGates DEF GateBoothOK
<1>7. QED
  BY <1>1, <1>2, <1>3, <1>4, <1>5, <1>6, GateMoves

\* The guard holds while a row of the booth is pending, until the operator
\* resumes the reader.
LEMMA RowGuardStep ==
  ASSUME IInv, Next, Undisturbed', NEW r \in Readers, NEW b \in Booths,
         GateBoothOK(r), RowGuarded(r, b), Pending(r) # {}, ~ResumeSend(r), ~ResumeDiscard(r)
  PROVE  RowGuarded(r, b)'
<1>a. TypeOK /\ GateOK(r) /\ entry[r] \in GateEntry /\ b # Empty
  BY DomainAssumption DEF IInv, GateInv, TypeOK, RegistryTypeOK
<1>b. ~Spend("db") /\ ~Spend("crash") /\ ~NetFault
  BY <1>a, UndisturbedStep
<1>s. (Unsettled \cup SendableStates) \cap SuspendedStates = {} /\ Unsettled \cap SendableStates = {}
  BY DEF Unsettled, SendableStates, SuspendedStates
<1>1. CASE Untouched(r)
  BY <1>1 DEF Untouched, RowGuarded, Guards
<1>2. CASE /\ PreflightSend(r) \/ PreflightAnswer(r) \/ PreflightPersist(r)
           /\ mr'[r] = mr[r] /\ cfgToken' = cfgToken /\ life' = life
  <2>0. PreflightSend(r) \/ PreflightAnswer(r) \/ PreflightPersist(r)
    BY <1>2
  <2>1. CASE /\ pf[r].pc \in {"attempt", "backoff"} /\ pf'[r] = Task("http")
             /\ entry'[r] = entry[r] /\ gateRow'[r] = gateRow[r]
    <3>1. pf'[r].pc # "persist" /\ pf[r].pc # "persist"
      BY <2>1 DEF Task
    <3>2. QED
      BY <1>2, <2>1, <3>1 DEF RowGuarded, Guards, Alive
  <2>2. ASSUME NEW put \in GatePut, pf[r].pc = "http", pf'[r] = [pc |-> "persist", put |-> put],
               entry'[r] = [state |-> put.state,
                            fp    |-> IF put.fp = Empty THEN entry[r].fp ELSE put.fp,
                            meta  |-> IF put.meta = Empty THEN entry[r].meta ELSE put.meta],
               \/ put = Failed("SUSPENDED_TOKEN", cfgToken[r])
               \/ put = Failed("SUSPENDED_CONFIG", cfgToken[r])
               \/ \E c \in Cooldowns : put = Confirmed(entry[r], cfgToken[r], c)
        PROVE  RowGuarded(r, b)'
    <3>1. entry'[r].state = put.state /\ pf'[r].pc = "persist" /\ pf'[r].put = put
      BY <2>2
    <3>2. Suspended(put.state) \/ (Sendable(put.state) /\ BoothOf[cfgToken[r]] = b)
      <4>1. CASE put = Failed("SUSPENDED_TOKEN", cfgToken[r]) \/ put = Failed("SUSPENDED_CONFIG", cfgToken[r])
        BY <4>1 DEF Failed, Suspended, SuspendedStates
      <4>2. ASSUME NEW c \in Cooldowns, put = Confirmed(entry[r], cfgToken[r], c)
            PROVE  Suspended(put.state) \/ (Sendable(put.state) /\ BoothOf[cfgToken[r]] = b)
        <5>1. Guards(entry[r], b)
          BY <1>a, <2>2, <2>0 DEF GateOK, RowGuarded, PreflightSend, PreflightAnswer, PreflightPersist, Running, Alive
        <5>2. CASE RebindSuspected(entry[r], cfgToken[r], BoothOf[cfgToken[r]])
          BY <4>2, <5>2 DEF Confirmed, Suspended, SuspendedStates
        <5>3. CASE ~RebindSuspected(entry[r], cfgToken[r], BoothOf[cfgToken[r]])
          <6>1. BoothOf[cfgToken[r]] = b
            BY <1>a, <5>1, <5>3 DEF Guards, RebindSuspected
          <6>2. Sendable(put.state)
            BY <4>2, <5>3 DEF Confirmed, ActiveState, Sendable, SendableStates
          <6>3. QED
            BY <6>1, <6>2
        <5>4. QED
          BY <5>2, <5>3
      <4>3. QED
        BY <2>2, <4>1, <4>2
    <3>3. entry'[r].state \notin Unsettled
      BY <1>s, <3>1, <3>2 DEF Sendable, Suspended
    <3>4. Sendable(entry'[r].state) => BoothOf[cfgToken[r]] = b
      BY <1>s, <3>1, <3>2 DEF Sendable, Suspended
    <3>5. QED
      BY <1>2, <3>1, <3>2, <3>3, <3>4 DEF RowGuarded
  <2>3. CASE /\ pf[r].pc = "persist" /\ entry'[r] = entry[r]
             /\ pf'[r] = Task("off") \/ pf'[r] = Task("backoff")
             /\ gateRow'[r] = UpsertGate(gateRow[r], pf[r].put)
    <3>1. pf'[r].pc # "persist"
      BY <2>3 DEF Task
    <3>2. Suspended(gateRow'[r].state) \/ Guards(gateRow'[r], b)
      <4>1. CASE Suspended(pf[r].put.state)
        BY <2>3, <4>1 DEF UpsertGate
      <4>2. CASE Sendable(pf[r].put.state) /\ BoothOf[cfgToken[r]] = b
        BY <1>a, <2>3, <4>2, OpeningWrite DEF GateBoothOK, Sendable
      <4>3. QED
        BY <2>3, <4>1, <4>2 DEF RowGuarded
    <3>3. QED
      BY <1>2, <2>3, <3>1, <3>2 DEF RowGuarded, Guards, Alive
  <2>4. QED
    BY <1>b, <2>0, <2>1, <2>2, <2>3, PreflightEffects
<1>3. CASE /\ RefreshSend(r) \/ RefreshAnswer(r) \/ RefreshPersist(r)
           /\ pf'[r] = pf[r] /\ cfgToken' = cfgToken /\ life' = life
  <2>0. RefreshSend(r) \/ RefreshAnswer(r) \/ RefreshPersist(r)
    BY <1>3
  <2>1. CASE (mr'[r] = Task("http") \/ mr'[r] = Task("sleep")) /\ entry'[r] = entry[r] /\ gateRow'[r] = gateRow[r]
    <3>1. mr'[r].pc # "persist"
      BY <2>1 DEF Task
    <3>2. QED
      BY <1>3, <2>1, <3>1 DEF RowGuarded, Guards, Alive
  <2>2. ASSUME Sendable(entry[r].state), gateRow'[r] = gateRow[r],
               NEW c \in Cooldowns, NEW meta \in GateMeta, RefreshState(c) \in SendableStates,
               entry'[r] = [state |-> RefreshState(c), fp |-> entry[r].fp, meta |-> meta]
        PROVE  RowGuarded(r, b)'
    <3>1. BoothOf[cfgToken[r]] = b
      BY <2>2 DEF RowGuarded
    <3>2. entry'[r].state \notin Unsettled
      BY <1>s, <2>2
    <3>3. QED
      BY <1>3, <2>2, <3>1, <3>2 DEF RowGuarded, Guards
  <2>3. CASE /\ mr[r].pc = "persist" /\ entry'[r] = entry[r] /\ mr'[r] = Task("sleep")
             /\ gateRow'[r] = UpsertGate(gateRow[r], mr[r].put)
    <3>1. mr'[r].pc # "persist"
      BY <2>3 DEF Task
    <3>2. Guards(gateRow'[r], b)
      BY <1>a, <2>3, OpeningWrite DEF GateBoothOK, RowGuarded
    <3>3. QED
      BY <1>3, <2>3, <3>1, <3>2 DEF RowGuarded, Guards, Alive
  <2>4. QED
    BY <1>b, <2>0, <2>1, <2>2, <2>3, RefreshEffects
<1>4. CASE /\ SenderSuspend \/ SenderPersist
           /\ snd.reader = r /\ pf'[r] = pf[r] /\ mr'[r] = mr[r] /\ cfgToken' = cfgToken /\ life' = life
  <2>0. (SenderSuspend \/ SenderPersist) /\ r = snd.reader
    BY <1>4
  <2>1. \/ entry'[r] = [state |-> "SUSPENDED_TOKEN", fp |-> entry[r].fp, meta |-> entry[r].meta]
        \/ entry[r].state = "SUSPENDED_TOKEN" /\ entry'[r] = entry[r]
    BY <2>0, RevokeEffects
  <2>2. entry'[r].state = "SUSPENDED_TOKEN"
    BY <2>1
  <2>3. \/ gateRow'[r] = gateRow[r]
        \/ gateRow'[r] = [state |-> "SUSPENDED_TOKEN", fp |-> Empty, meta |-> gateRow[r].meta]
    BY <2>0, RevokeEffects
  <2>4. pf[r].pc = "persist" \/ Suspended(gateRow'[r].state) \/ Guards(gateRow'[r], b)
    BY <2>3 DEF RowGuarded, Suspended, SuspendedStates
  <2>5. QED
    BY <1>4, <2>2, <2>4 DEF RowGuarded, Guards, Sendable, SendableStates, Unsettled
<1>5. CASE Start
  <2>1. life = "down" /\ pf[r].pc = "off"
    BY <1>5, DownGates DEF Start
  <2>2. Suspended(gateRow[r].state) \/ Guards(gateRow[r], b)
    BY <2>1 DEF RowGuarded
  <2>3. ~TokenReplaced(r)
    BY DEF TokenReplaced
  <2>4. gateRow'[r] = gateRow[r]
    BY <1>5, <2>3, StartFacts
  <2>5. /\ entry'[r] = [state |-> entry'[r].state, fp |-> gateRow[r].fp, meta |-> gateRow[r].meta]
        /\ \/ Suspended(gateRow[r].state) /\ entry'[r].state = gateRow[r].state
           \/ ~Suspended(gateRow[r].state)
    BY <1>5, <2>3, StartFacts
  <2>6. entry'[r].state \in Unsettled => Guards(entry'[r], b)
    BY <1>s, <2>2, <2>5 DEF Suspended, Guards
  <2>7. ~Sendable(entry'[r].state) /\ pf'[r].pc # "persist" /\ mr'[r].pc = "sleep"
    BY <1>5, BoundaryGates
  <2>8. QED
    BY <2>2, <2>4, <2>6, <2>7 DEF RowGuarded, Guards
<1>6. CASE Stopped
  <2>1. pf[r].pc # "persist" /\ gateRow' = gateRow /\ ~Alive'
    BY <1>6 DEF Stopped, Die, Alive, storeVars
  <2>2. Suspended(gateRow[r].state) \/ Guards(gateRow[r], b)
    BY <2>1 DEF RowGuarded
  <2>3. ~Sendable(entry'[r].state) /\ pf'[r].pc # "persist" /\ mr'[r].pc = "sleep"
    BY <1>6, BoundaryGates
  <2>4. QED
    BY <2>1, <2>2, <2>3 DEF RowGuarded, Guards
<1>7. CASE Crash
  BY <1>7, <1>b DEF Crash
<1>8. CASE \E q \in Readers : EditToken(q)
  <2>1. life = "down" /\ life' = "down" /\ UNCHANGED <<entry, pf, mr, gateRow>>
    BY <1>8 DEF EditToken, registryVars, gateTaskVars, storeVars
  <2>2. QED
    BY <2>1, DownGates DEF RowGuarded, Guards, Alive
<1>9. QED
  BY <1>1, <1>2, <1>3, <1>4, <1>5, <1>6, <1>7, <1>8, GateMoves

\* A scan admitted at an open gate is guarded from the start.
LEMMA NewRowGuarded ==
  ASSUME IInv, NEW r \in Readers, GateBoothOK(r), Sendable(entry[r].state)
  PROVE  RowGuarded(r, BoothOf[cfgToken[r]])
<1>a. GateOK(r)
  BY DEF IInv, GateInv
<1>1. entry[r].state \notin Unsettled
  BY DEF Sendable, SendableStates, Unsettled
<1>2. pf[r].pc = "persist" => Sendable(pf[r].put.state)
  BY <1>a DEF GateOK, Sendable
<1>3. pf[r].pc # "persist" => Guards(gateRow[r], BoothOf[cfgToken[r]])
  BY DEF GateBoothOK
<1>4. QED
  BY <1>1, <1>2, <1>3 DEF RowGuarded

\* What the operator has released stays released.
LEMMA ReleasedGrows ==
  ASSUME Next
  PROVE  released \subseteq released'
<1>1. CASE OperatorStep
  BY <1>1 DEF OperatorStep, EditToken, ResumeSend, ResumeDiscard, operatorVars
<1>2. CASE UNCHANGED operatorVars
  BY <1>2 DEF operatorVars
<1>3. QED
  BY <1>1, <1>2 DEF Next, ClockStep, AdmitStep, SendStep, GateStep, SweepStep, Start, Crash, Cancel,
     Stopped, Die

\* Only Store.Admit puts a row into the table, with the booth of the gate.
LEMMA OnlyAdmitInserts ==
  ASSUME TypeOK, Next, NEW i \in DOMAIN queue', i \notin DOMAIN queue
  PROVE  /\ AdmitStep
         /\ \E r \in Readers : HandleAdmit(r) /\ InsertRow(r, adm[r].epc, adm[r].at, ScanBooth(r))
<1>u. ~UNCHANGED storeVars
  BY DEF storeVars
<1>1. ~SendStep
  BY <1>u DEF SendStep, SenderStep, SenderLoop, SenderQuery, SenderIdle, SenderWait, SenderExpire, SenderAnswer,
     SenderComplete, SenderRetry, SenderRevoked, SenderSuspend, SenderPersist, SenderMark, SenderHalt,
     OrFail, CompleteRow, DeleteRows, RetryLater, MarkAttemptKeepDue, SetGate
<1>2. ~GateStep
  BY <1>u DEF GateStep, PreflightStep, RefreshStep, PreflightSend, PreflightAnswer, PreflightPersist,
     RefreshSend, RefreshAnswer, RefreshPersist, OrFail, SetGate
<1>3. ~(ClockStep \/ SweepStep \/ Start \/ Crash \/ Cancel \/ Stopped)
  BY <1>u DEF ClockStep, SweepStep, SweepExpire, SweepCleanup, ExpireBefore, DeleteRows, CleanupDebounce, OrFail,
     Start, Crash, Cancel, Stopped, Die
<1>4. ~OperatorStep
  BY <1>u DEF OperatorStep, EditToken, ResumeSend, ResumeDiscard, SetGate
<1>5. AdmitStep
  BY <1>1, <1>2, <1>3, <1>4 DEF Next
<1>6. QED
  BY <1>5, <1>u DEF AdmitStep, AdmissionStep, HandleCheck, HandleAdmit, HandleWake

\* A POST is started by the queue query and goes on with the row it was for.
LEMMA PostSteps ==
  ASSUME TypeOK, IInv, Next, snd'.pc = "post"
  PROVE  \/ SendStep /\ SenderQuery
         \/ snd.pc = "post" /\ snd'.id = snd.id /\ snd'.reader = snd.reader /\ cfgToken' = cfgToken
<1>t. snd \in SenderRecord
  BY DEF TypeOK, SenderTypeOK
<1>1. CASE SendStep
  <2>1. CASE SenderAnswer
    <3>1. PICK d \in Decisions : Goto(d)
      BY <2>1, AnswerFacts
    <3>2. snd'.pc = d
      BY <1>t, <3>1, GotoFacts
    <3>3. QED
      BY <3>2 DEF Decisions
  <2>2. CASE SenderRevoked \/ SenderSuspend \/ SenderMark
    <3>1. snd'.pc \in {"suspend", "persist", "halt"}
      BY <1>t, <2>2, GotoFacts DEF SenderRevoked, SenderSuspend, SenderMark
    <3>2. QED
      BY <3>1
  <2>3. CASE SenderLoop \/ SenderIdle
    BY <2>3 DEF SenderLoop, SenderIdle, Sleep, Idle
  <2>4. CASE snd' = Idle
    BY <2>4 DEF Idle
  <2>5. QED
    BY <1>1, <2>1, <2>2, <2>3, <2>4 DEF SendStep, SenderStep, SenderWait, SenderExpire,
       SenderComplete, SenderRetry, SenderPersist, SenderHalt
<1>2. CASE ClockStep
  <2>1. /\ snd' = snd \/ snd' = [snd EXCEPT !.until = TimerMoved]
        /\ cfgToken' = cfgToken
    BY <1>2 DEF ClockStep, Tick, ClockBack
  <2>2. QED
    BY <1>t, <2>1 DEF SenderRecord
<1>3. CASE Start \/ Crash \/ Stopped
  BY <1>3 DEF Start, Crash, Stopped, Die, FreshProcesses, Idle
<1>4. CASE OperatorStep
  <2>1. snd = Idle /\ snd' = snd
    BY <1>4 DEF OperatorStep, EditToken, ResumeSend, ResumeDiscard, IInv, DownInv, senderVars
  <2>2. QED
    BY <2>1 DEF Idle
<1>5. CASE AdmitStep \/ GateStep \/ SweepStep \/ Cancel
  <2>1. snd' = snd /\ cfgToken' = cfgToken
    BY <1>5 DEF AdmitStep, AdmissionStep, GateStep, PreflightStep, RefreshStep, SweepStep, Cancel, senderVars
  <2>2. QED
    BY <2>1
<1>6. QED
  BY <1>1, <1>2, <1>3, <1>4, <1>5 DEF Next

\* The rows still pending are guarded, or released by the operator.
LEMMA RowsGuardedStep ==
  ASSUME IInv, BoothInv, Next, Undisturbed',
         NEW i \in DOMAIN queue' \ released', accepted'[i].booth # Empty
  PROVE  RowGuarded(accepted[i].reader, accepted[i].booth)'
<1>t. /\ TypeOK /\ nextId \in Nat \ {0} /\ DOMAIN queue \subseteq 1..(nextId - 1)
      /\ \A j \in 1..(nextId - 1) : accepted[j] \in Accepted
  BY DEF IInv, TypeOK, StoreTypeOK
<1>u. Undisturbed /\ ~Spend("db")
  BY <1>t, UndisturbedStep
<1>g. \A r \in Readers : GateBoothOK(r)
  BY <1>u DEF BoothInv
<1>m. \A j \in 1..(nextId - 1) : accepted'[j] = accepted[j]
  BY <1>t, Monotone
<1>1. CASE i \in DOMAIN queue
  <2> DEFINE r == accepted[i].reader
             b == accepted[i].booth
  <2>1. accepted'[i] = accepted[i] /\ r \in Readers /\ b \in Booths
    BY <1>1, <1>t, <1>m DEF Accepted
  <2>2. i \in Pending(r)
    BY <1>1 DEF IInv, QueueInv, Pending
  <2>3. released \subseteq released'
    BY ReleasedGrows
  <2>4. RowGuarded(r, b)
    BY <1>1, <1>u, <2>1, <2>3 DEF BoothInv
  <2>5. ~ResumeSend(r)
    BY <1>u, <2>2 DEF ResumeSend
  <2>6. ~ResumeDiscard(r)
    BY <2>2 DEF ResumeDiscard
  <2>7. RowGuarded(r, b)'
    <3> HIDE DEF r, b
    <3>1. GateBoothOK(r) /\ Pending(r) # {}
      BY <1>g, <2>1, <2>2
    <3>2. r \in Readers /\ b \in Booths
      BY <2>1
    <3>3. \A q \in Readers, c \in Booths :
            (GateBoothOK(q) /\ RowGuarded(q, c) /\ Pending(q) # {} /\ ~ResumeSend(q) /\ ~ResumeDiscard(q))
              => RowGuarded(q, c)'
      BY RowGuardStep
    <3>4. QED
      BY <2>1, <2>4, <2>5, <2>6, <3>1, <3>2, <3>3 DEF r, b
  <2>8. QED
    BY <2>1, <2>7
<1>2. CASE i \notin DOMAIN queue
  <2>1. PICK r \in Readers : HandleAdmit(r) /\ InsertRow(r, adm[r].epc, adm[r].at, ScanBooth(r))
    BY <1>2, OnlyAdmitInserts DEF IInv
  <2>2. i = nextId /\ accepted'[i].reader = r /\ accepted'[i].booth = ScanBooth(r) /\ gateRow' = gateRow
    <3>1. i = nextId
      BY <1>2, <2>1 DEF InsertRow
    <3>2. nextId \in 1..nextId
      BY <1>t
    <3>3. QED
      BY <2>1, <3>1, <3>2 DEF InsertRow
  <2>3. Sendable(entry[r].state) /\ ScanBooth(r) = BoothOf[cfgToken[r]]
    BY <2>2 DEF ScanBooth
  <2>4. RowGuarded(r, BoothOf[cfgToken[r]])
    BY <1>g, <2>3, NewRowGuarded
  <2>5. UNCHANGED <<entry, pf, mr, cfgToken, life>>
    BY <1>2, OnlyAdmitInserts DEF IInv, AdmitStep, AdmissionStep, registryVars, gateTaskVars
  <2>6. RowGuarded(r, BoothOf[cfgToken[r]])'
    BY <2>2, <2>4, <2>5 DEF RowGuarded, Guards, Alive
  <2>7. accepted'[i].booth = BoothOf[cfgToken[r]]' /\ accepted'[i].reader = r
    BY <2>2, <2>3, <2>5
  <2>8. QED
    BY <2>6, <2>7
<1>3. QED
  BY <1>1, <1>2

\* No POST in flight carries a row to another booth's token.
LEMMA MisdeliveryStep ==
  ASSUME IInv, BoothInv, Next, Undisturbed'
  PROVE  NoMisdelivery'
<1>t. /\ TypeOK /\ nextId \in Nat /\ snd \in SenderRecord /\ DOMAIN queue \subseteq 1..(nextId - 1)
      /\ \A j \in 1..(nextId - 1) : accepted[j] \in Accepted
  BY DEF IInv, TypeOK, StoreTypeOK, SenderTypeOK
<1>u. Undisturbed
  BY <1>t, UndisturbedStep
<1>r. released \subseteq released'
  BY ReleasedGrows
<1>m. \A j \in 1..(nextId - 1) : accepted'[j] = accepted[j]
  BY <1>t, Monotone
<1>n. NoMisdelivery
  BY <1>u DEF BoothInv
<1>1. CASE snd'.pc # "post"
  BY <1>1 DEF NoMisdelivery
<1>2. CASE /\ snd.pc = "post" /\ snd'.id = snd.id /\ snd'.reader = snd.reader /\ cfgToken' = cfgToken
  <2>1. snd.id \in 1..(nextId - 1)
    BY <1>2 DEF IInv, SenderInv, Holding
  <2>2. accepted'[snd'.id] = accepted[snd.id]
    BY <1>2, <1>m, <2>1
  <2>3. QED
    BY <1>2, <1>n, <1>r, <2>2 DEF NoMisdelivery
<1>3. CASE SendStep /\ SenderQuery /\ snd'.pc = "post"
  <2>1. PICK id \in DOMAIN queue :
          /\ IsNextDue(id, snd.now, snd.readers)
          /\ snd'.id = id /\ snd'.reader = queue[id].reader
    BY <1>3 DEF SenderQuery, Sleep, Idle
  <2>2. queue[id].reader \in SendableReaders /\ queue[id].reader = accepted[id].reader
    BY <1>3, <2>1 DEF IInv, SenderInv, QueueInv, IsNextDue, Due, SenderQuery
  <2>3. Sendable(entry[accepted[id].reader].state)
    BY <2>2 DEF SendableReaders
  <2>4. id \notin released /\ accepted[id].booth # Empty
          => RowGuarded(accepted[id].reader, accepted[id].booth)
    BY <1>u, <2>1 DEF BoothInv
  <2>5. id \notin released /\ accepted[id].booth # Empty
          => BoothOf[cfgToken[accepted[id].reader]] = accepted[id].booth
    BY <2>3, <2>4 DEF RowGuarded
  <2>6. accepted'[snd'.id] = accepted[id] /\ snd'.reader = accepted[id].reader /\ cfgToken' = cfgToken
    <3>1. id \in 1..(nextId - 1)
      BY <1>t
    <3>2. cfgToken' = cfgToken
      BY <1>3 DEF SendStep, SenderStep
    <3>3. QED
      BY <1>m, <2>1, <2>2, <3>1, <3>2
  <2>7. QED
    BY <1>r, <2>1, <2>5, <2>6 DEF NoMisdelivery
<1>4. QED
  BY <1>1, <1>2, <1>3, <1>t, PostSteps

\* The rebind guard is kept by every step that loses no write and no answer.
LEMMA BoothStep == IInv /\ BoothInv /\ Next => BoothInv'
<1> SUFFICES ASSUME IInv, BoothInv, Next, Undisturbed'
             PROVE  /\ \A r \in Readers : GateBoothOK(r)'
                    /\ \A i \in DOMAIN queue' \ released' :
                         accepted'[i].booth # Empty => RowGuarded(accepted[i].reader, accepted[i].booth)'
                    /\ NoMisdelivery'
  BY DEF BoothInv
<1>t. TypeOK
  BY DEF IInv
<1>u. Undisturbed
  BY <1>t, UndisturbedStep
<1>g. \A r \in Readers : GateBoothOK(r)
  BY <1>u DEF BoothInv
<1>1. \A r \in Readers : GateBoothOK(r)'
  BY <1>g, GateBoothStep
<1>2. \A i \in DOMAIN queue' \ released' :
        accepted'[i].booth # Empty => RowGuarded(accepted[i].reader, accepted[i].booth)'
  BY RowsGuardedStep
<1>3. QED
  BY <1>1, <1>2, MisdeliveryStep

\* Without a crash, a failed write, a failed or a cut-off request, no scan is
\* POSTed with the token of another booth than it was taken at, unless the
\* operator released it (the rebind guard of Preflight.attempt, restore).
THEOREM RebindsAreGuarded == Spec => []RebindGuarded
<1>1. Init => BoothInv
  <2> SUFFICES ASSUME Init PROVE BoothInv
    OBVIOUS
  <2>1. \A r \in Readers : entry[r] = FreshEntry /\ pf[r] = Task("off") /\ mr[r] = Task("sleep")
    BY DEF Init, RegistryInit, PreflightInit
  <2>2. \A r \in Readers : GateBoothOK(r)
    BY <2>1 DEF GateBoothOK, FreshEntry, Task, Sendable, SendableStates
  <2>3. DOMAIN queue = {} /\ snd.pc = "loop"
    BY DEF Init, StoreInit, SenderInit, Idle
  <2>4. QED
    BY <2>2, <2>3 DEF BoothInv, NoMisdelivery
<1>2. IInv /\ BoothInv /\ [Next]_vars => BoothInv'
  <2>1. BoothInv /\ UNCHANGED vars => BoothInv'
    <3> SUFFICES ASSUME BoothInv, UNCHANGED vars PROVE BoothInv'
      OBVIOUS
    <3>1. /\ UNCHANGED <<life, cfgToken, spent, queue, gateRow, accepted, entry, snd, pf, mr, released>>
      BY DEF vars, runtimeVars, storeVars, registryVars, senderVars, gateTaskVars, operatorVars
    <3>2. QED
      BY <3>1 DEF BoothInv, Undisturbed, GateBoothOK, Opens, Guards, RowGuarded, Alive, NoMisdelivery
  <2>2. QED
    BY <2>1, BoothStep
<1>3. IInv /\ BoothInv => RebindGuarded
  BY DEF BoothInv, RebindGuarded
<1>4. QED
  BY <1>1, <1>2, <1>3, Invariance, PTL DEF Spec

----------------------------------------------------------------------------
(* The refinement *)

\* The latest time, the answers and the discards change in one kind of step each.
LEMMA GhostSteps ==
  ASSUME TypeOK, Next
  PROVE  \/ ClockStep
         \/ SendStep /\ SenderAnswer
         \/ \E r \in Readers : ResumeDiscard(r)
         \/ UNCHANGED <<clockMax, answered, discarded>>
<1>1. CASE SendStep
  BY <1>1 DEF SendStep, SenderStep, SenderLoop, SenderQuery, SenderIdle, SenderWait, SenderExpire,
     SenderComplete, SenderRetry, SenderRevoked, SenderSuspend, SenderPersist, SenderMark, SenderHalt,
     operatorVars
<1>2. CASE AdmitStep \/ GateStep \/ SweepStep \/ Cancel
  BY <1>2 DEF AdmitStep, AdmissionStep, GateStep, PreflightStep, RefreshStep, SweepStep, Cancel,
     senderVars, operatorVars
<1>3. CASE Start \/ Crash \/ Stopped
  BY <1>3 DEF Start, Crash, Stopped, Die, operatorVars
<1>4. CASE OperatorStep
  BY <1>4 DEF OperatorStep, EditToken, ResumeSend, senderVars, operatorVars
<1>5. QED
  BY <1>1, <1>2, <1>3, <1>4 DEF Next

----------------------------------------------------------------------------
(* Discarded rows *)

\* The initial state has no discarded row.
LEMMA InitDiscardInv == Init => DiscardInv
BY DEF Init, StoreInit, SenderInit, Idle, DiscardInv, Holding, Decisions

\* No step puts a discarded row back into the table or into the sender's hands.
LEMMA DiscardInvStep == IInv /\ DiscardInv /\ Next => DiscardInv'
<1> SUFFICES ASSUME IInv, DiscardInv, Next PROVE DiscardInv'
  OBVIOUS
<1>t. /\ TypeOK /\ nextId \in Nat \ {0} /\ discarded \subseteq 1..(nextId - 1)
      /\ snd \in SenderRecord
  BY DEF IInv, TypeOK, StoreTypeOK, SweeperTypeOK, SenderTypeOK
<1>i. Idle.pc \notin Holding
  BY DEF Idle, Holding, Decisions
<1>1. CASE \E r \in Readers : ResumeDiscard(r)
  <2>1. PICK r \in Readers : ResumeDiscard(r)
    BY <1>1
  <2>2. snd' = Idle
    BY <2>1 DEF ResumeDiscard, senderVars, IInv, DownInv
  <2>3. DOMAIN queue' = DOMAIN queue \ Pending(r) /\ discarded' = discarded \cup Pending(r)
    BY <2>1 DEF ResumeDiscard
  <2>4. QED
    BY <2>2, <2>3, <1>i DEF DiscardInv
<1>2. CASE UNCHANGED discarded
  <2>1. \A i \in DOMAIN queue' : i \notin discarded
    <3>1. CASE RowsKept
      BY <3>1 DEF RowsKept, DiscardInv
    <3>2. CASE \E r \in Readers, e \in EPCs, at \in Nat, b \in Booths \cup {Empty} : InsertRow(r, e, at, b)
      BY <3>2, <1>t DEF InsertRow, DiscardInv
    <3>3. QED
      BY <3>1, <3>2, QueueStep
  <2>2. snd'.pc \in Holding => snd'.id \notin discarded
    <3>1. CASE SendStep
      <4>1. CASE SenderQuery
        <5>1. \/ \E id \in DOMAIN queue : snd'.id = id
              \/ snd'.pc \in {"idle", "errwait"}
          BY <4>1 DEF SenderQuery, Sleep, Idle
        <5>2. QED
          BY <5>1 DEF Holding, Decisions, DiscardInv
      <4>2. CASE SenderLoop \/ SenderIdle \/ SenderWait \/ SenderExpire \/ SenderComplete
                   \/ SenderRetry \/ SenderPersist \/ SenderHalt
        <5>1. snd'.pc \in {"loop", "query", "wait", "errwait"}
          <6>1. CASE SenderLoop
            BY <6>1, SleepFacts DEF SenderLoop, Idle
          <6>2. CASE SenderIdle
            BY <6>2, SleepFacts DEF SenderIdle
          <6>3. CASE snd' = Idle
            BY <6>3 DEF Idle
          <6>4. QED
            BY <4>2, <6>1, <6>2, <6>3 DEF SenderWait, SenderExpire, SenderComplete, SenderRetry,
               SenderPersist, SenderHalt
        <5>2. QED
          BY <5>1 DEF Holding, Decisions
      <4>3. CASE SenderAnswer \/ SenderRevoked \/ SenderSuspend \/ SenderMark
        <5>1. snd.pc \in Holding
          BY <4>3 DEF SenderAnswer, SenderRevoked, SenderSuspend, SenderMark, Holding, Decisions
        <5>2. \E pc \in SenderPcs : Goto(pc)
          BY <4>3, AnswerFacts DEF SenderRevoked, SenderSuspend, SenderMark, SenderPcs
        <5>3. snd'.id = snd.id
          BY <5>2, <1>t, GotoFacts
        <5>4. QED
          BY <5>1, <5>3 DEF DiscardInv
      <4>4. QED
        BY <3>1, <4>1, <4>2, <4>3 DEF SendStep, SenderStep
    <3>2. CASE ClockStep
      BY <3>2, <1>t DEF ClockStep, SenderRecord, DiscardInv
    <3>3. CASE Start \/ Crash \/ Stopped
      BY <3>3, <1>i DEF Start, Crash, Stopped, Die, FreshProcesses
    <3>4. CASE AdmitStep \/ GateStep \/ SweepStep \/ Cancel \/ OperatorStep
      <4>1. UNCHANGED snd
        BY <3>4 DEF AdmitStep, GateStep, PreflightStep, RefreshStep, SweepStep, Cancel, OperatorStep,
           EditToken, ResumeSend, ResumeDiscard, senderVars
      <4>2. QED
        BY <4>1 DEF DiscardInv
    <3>5. QED
      BY <3>1, <3>2, <3>3, <3>4 DEF Next
  <2>3. QED
    BY <1>2, <2>1, <2>2 DEF DiscardInv
<1>3. CASE ClockStep \/ (SendStep /\ SenderAnswer)
  BY <1>2, <1>3 DEF ClockStep, SendStep, operatorVars
<1>4. QED
  BY <1>1, <1>2, <1>3, <1>t, GhostSteps

\* A discarded row is gone for good: neither in the table nor being sent.
THEOREM DiscardedStaysGone == Spec => []DiscardInv
<1>1. Init => DiscardInv
  BY InitDiscardInv
<1>2. IInv /\ DiscardInv /\ [Next]_vars => DiscardInv'
  <2>1. DiscardInv /\ UNCHANGED vars => DiscardInv'
    BY DEF vars, storeVars, senderVars, operatorVars, DiscardInv
  <2>2. QED
    BY <2>1, DiscardInvStep
<1>3. QED
  BY <1>1, <1>2, Invariance, PTL DEF Spec

----------------------------------------------------------------------------
(* The mapping *)

\* What the mapped variables are, for rows of the right type.
LEMMA MappedDomains ==
  /\ DOMAIN TakenScans = DOMAIN accepted /\ DOMAIN OwedScans = DOMAIN queue
  /\ \A i \in DOMAIN accepted : TakenScans[i] = ScanOf(accepted[i])
  /\ \A i \in DOMAIN queue : OwedScans[i] = ScanOf(queue[i])
BY DEF TakenScans, OwedScans

\* Initial states map to initial states.
LEMMA InitRefines == Init => Promise!Init
<1> SUFFICES ASSUME Init PROVE Promise!Init
  OBVIOUS
<1>1. DOMAIN accepted = {} /\ DOMAIN queue = {}
  BY DEF Init, StoreInit
<1>2. TakenScans = [i \in {} |-> 0] /\ OwedScans = [i \in {} |-> 0]
  BY <1>1 DEF TakenScans, OwedScans
<1>3. QED
  BY <1>2 DEF Init, RuntimeInit, SenderInit, Promise!Init, Promise!Nothing

\* Rows that are kept are owed unaltered, and the accepted scans are the same.
LEMMA KeptRefines ==
  ASSUME RowsKept
  PROVE  /\ TakenScans' = TakenScans
         /\ Promise!Without(OwedScans', OwedScans, DOMAIN queue \ DOMAIN queue')
<1>1. TakenScans' = TakenScans
  BY DEF RowsKept, TakenScans
<1>2. DOMAIN OwedScans' = DOMAIN OwedScans \ (DOMAIN queue \ DOMAIN queue')
  BY DEF RowsKept, OwedScans
<1>3. \A i \in DOMAIN OwedScans' : OwedScans'[i] = OwedScans[i]
  BY DEF RowsKept, RowKept, OwedScans, ScanOf
<1>4. QED
  BY <1>1, <1>2, <1>3 DEF Promise!Without

\* An insertion is an Accept of the promise.
LEMMA InsertRefines ==
  ASSUME IInv, UNCHANGED <<clockMax, answered, discarded>>,
         NEW r \in Readers, NEW e \in EPCs, NEW at \in Nat, NEW b \in Booths \cup {Empty},
         InsertRow(r, e, at, b)
  PROVE  Promise!Next
<1> DEFINE n == nextId - 1
           scan == [reader |-> r, epc |-> e, checked |-> at]
<1>1. n \in Nat /\ n + 1 = nextId /\ DOMAIN accepted = 1..n /\ DOMAIN queue \subseteq 1..n
  <2>1. StoreTypeOK
    BY DEF IInv, TypeOK
  <2>2. nextId \in Nat \ {0} /\ DOMAIN accepted = 1..n /\ DOMAIN queue \subseteq 1..n
    BY <2>1 DEF StoreTypeOK
  <2>3. QED
    BY <2>2
<1>2. /\ DOMAIN accepted' = 1..(n + 1) /\ DOMAIN queue' = DOMAIN queue \cup {n + 1}
      /\ n + 1 \notin DOMAIN queue /\ n + 1 \notin DOMAIN accepted
  BY <1>1 DEF InsertRow
<1>3. TakenScans'[n + 1] = scan /\ OwedScans'[n + 1] = scan
  BY <1>1, <1>2 DEF InsertRow, TakenScans, OwedScans, ScanOf
<1>4. Promise!Without(TakenScans, TakenScans', {n + 1})
  <2>1. \A i \in DOMAIN accepted : accepted'[i] = accepted[i] /\ i # n + 1
    BY <1>1, <1>2 DEF InsertRow
  <2>2. DOMAIN TakenScans = DOMAIN TakenScans' \ {n + 1}
    BY <1>1, <1>2 DEF TakenScans
  <2>3. \A i \in DOMAIN TakenScans : TakenScans[i] = TakenScans'[i]
    BY <1>1, <1>2, <2>1 DEF TakenScans
  <2>4. QED
    BY <2>2, <2>3 DEF Promise!Without
<1>5. Promise!Without(OwedScans, OwedScans', {n + 1})
  <2>1. \A i \in DOMAIN queue : queue'[i] = queue[i] /\ i # n + 1
    BY <1>1, <1>2 DEF InsertRow
  <2>2. DOMAIN OwedScans = DOMAIN OwedScans' \ {n + 1}
    BY <1>2 DEF OwedScans
  <2>3. \A i \in DOMAIN OwedScans : OwedScans[i] = OwedScans'[i]
    BY <1>2, <2>1 DEF OwedScans
  <2>4. QED
    BY <2>2, <2>3 DEF Promise!Without
<1>6. /\ DOMAIN TakenScans = 1..n /\ DOMAIN TakenScans' = 1..(n + 1)
      /\ DOMAIN OwedScans' = DOMAIN OwedScans \cup {n + 1}
  BY <1>1, <1>2 DEF TakenScans, OwedScans
<1>7. Promise!Accept(n)
  BY <1>3, <1>4, <1>5, <1>6 DEF Promise!Accept
<1>8. n \in {0} \cup DOMAIN TakenScans
  BY <1>1, <1>6
<1>9. QED
  BY <1>7, <1>8 DEF Promise!Next

\* Every step of the system is a step of the promise or changes nothing of it.
LEMMA StepRefines == IInv /\ DiscardInv /\ Next => [Promise!Next]_(Promise!promiseVars)
<1> SUFFICES ASSUME IInv, DiscardInv, Next PROVE Promise!Next \/ UNCHANGED Promise!promiseVars
  OBVIOUS
<1>t. TypeOK
  BY DEF IInv
<1>1. CASE ClockStep
  <2>1. TakenScans' = TakenScans /\ OwedScans' = OwedScans /\ UNCHANGED <<answered, discarded>>
    BY <1>1 DEF ClockStep, storeVars, operatorVars, TakenScans, OwedScans
  <2>2. clockMax \in Nat /\ clockMax' \in Nat /\ clockMax <= clockMax'
    BY <1>t, Monotone DEF TypeOK, RuntimeTypeOK
  <2>3. clockMax' = clockMax \/ clockMax' > clockMax
    BY <2>2
  <2>4. QED
    BY <2>1, <2>3 DEF Promise!Next, Promise!Pass, Promise!promiseVars
<1>2. CASE SendStep /\ SenderAnswer
  <2>1. TakenScans' = TakenScans /\ OwedScans' = OwedScans /\ UNCHANGED <<clockMax, discarded>>
    BY <1>2 DEF SendStep, SenderStep, SenderAnswer, storeVars, operatorVars, TakenScans, OwedScans
  <2>2. answered' = answered \/ answered' = answered \cup {snd.id}
    BY <1>2, AnswerFacts
  <2>3. snd.id \in DOMAIN TakenScans /\ snd.id \notin discarded
    BY <1>2, <1>t DEF SenderAnswer, IInv, SenderInv, DiscardInv, Holding, TypeOK, StoreTypeOK, TakenScans
  <2>4. QED
    BY <2>1, <2>2, <2>3 DEF Promise!Next, Promise!Answer, Promise!promiseVars
<1>3. CASE \E r \in Readers : ResumeDiscard(r)
  <2>1. PICK r \in Readers : ResumeDiscard(r)
    BY <1>3
  <2>2. /\ UNCHANGED <<clockMax, answered, nextId, accepted>>
        /\ DOMAIN queue' = DOMAIN queue \ Pending(r) /\ discarded' = discarded \cup Pending(r)
        /\ \A i \in DOMAIN queue' : queue'[i] = queue[i]
    BY <2>1 DEF ResumeDiscard, senderVars
  <2>3. TakenScans' = TakenScans
    BY <2>2 DEF TakenScans
  <2>4. DOMAIN OwedScans \ DOMAIN OwedScans' = Pending(r) /\ DOMAIN OwedScans' = DOMAIN OwedScans \ Pending(r)
    BY <2>2 DEF OwedScans, Pending
  <2>5. \A i \in DOMAIN OwedScans' : OwedScans'[i] = OwedScans[i]
    BY <2>2 DEF OwedScans
  <2>6. Promise!Without(OwedScans', OwedScans, Pending(r))
    BY <2>4, <2>5 DEF Promise!Without
  <2>7. Promise!Discard
    BY <2>2, <2>3, <2>4, <2>6 DEF Promise!Discard
  <2>8. QED
    BY <2>7 DEF Promise!Next
<1>4. CASE UNCHANGED <<clockMax, answered, discarded>>
  <2>1. CASE RowsKept
    <3> DEFINE ids == DOMAIN queue \ DOMAIN queue'
    <3>1. TakenScans' = TakenScans /\ Promise!Without(OwedScans', OwedScans, ids)
      BY <2>1, KeptRefines
    <3>2. ids = DOMAIN OwedScans \ DOMAIN OwedScans'
      BY DEF OwedScans
    <3>3. \A i \in ids : i \in answered \/ TakenScans[i].checked + MaxAge < clockMax
      <4> SUFFICES ASSUME NEW i \in ids
                   PROVE  i \in answered \/ TakenScans[i].checked + MaxAge < clockMax
        OBVIOUS
      <4>1. i \notin discarded /\ Gone(i)
        BY <2>1 DEF RowsKept, DiscardInv
      <4>2. i \in DOMAIN accepted
        BY <1>t DEF TypeOK, StoreTypeOK
      <4>3. TakenScans[i].checked = accepted[i].checked
        BY <4>2 DEF TakenScans, ScanOf
      <4>4. QED
        BY <1>4, <4>1, <4>3 DEF Gone
    <3>4. Promise!Settle
      BY <1>4, <3>1, <3>2, <3>3 DEF Promise!Settle
    <3>5. QED
      BY <3>4 DEF Promise!Next
  <2>2. CASE \E r \in Readers, e \in EPCs, at \in Nat, b \in Booths \cup {Empty} : InsertRow(r, e, at, b)
    BY <1>4, <2>2, InsertRefines
  <2>3. QED
    BY <2>1, <2>2, QueueStep
<1>5. QED
  BY <1>1, <1>2, <1>3, <1>4, <1>t, GhostSteps

\* The delivery core implements its promise: whatever crashes, fails, races or
\* is edited, scans are only accepted, answered, settled or discarded as
\* CheckinDelivery allows.
THEOREM DeliveryRefines == Spec => ImplementsDelivery
<1>1. Init => Promise!Init
  BY InitRefines
<1>2. IInv /\ DiscardInv /\ [Next]_vars => [Promise!Next]_(Promise!promiseVars)
  <2>1. UNCHANGED vars => UNCHANGED Promise!promiseVars
    BY DEF vars, runtimeVars, storeVars, senderVars, operatorVars, Promise!promiseVars, TakenScans, OwedScans
  <2>2. QED
    BY <2>1, StepRefines
<1>3. QED
  BY <1>1, <1>2, Invariance, DiscardedStaysGone, PTL DEF Spec, ImplementsDelivery, Promise!Spec

\* What the promise allows a step to do to scans that are settled or discarded.
LEMMA PromiseSteps ==
  /\ [Promise!Next]_(Promise!promiseVars) =>
       [(DOMAIN TakenScans \ DOMAIN OwedScans) \cap DOMAIN OwedScans' = {}]_(Promise!promiseVars)
  /\ [Promise!Next]_(Promise!promiseVars) =>
       [discarded \cap answered' \subseteq answered /\ discarded \subseteq discarded']_(Promise!promiseVars)
<1> SUFFICES ASSUME Promise!Next
             PROVE  /\ (DOMAIN TakenScans \ DOMAIN OwedScans) \cap DOMAIN OwedScans' = {}
                    /\ discarded \cap answered' \subseteq answered
                    /\ discarded \subseteq discarded'
  OBVIOUS
<1>1. ASSUME NEW n \in {0} \cup DOMAIN TakenScans, Promise!Accept(n)
      PROVE  /\ (DOMAIN TakenScans \ DOMAIN OwedScans) \cap DOMAIN OwedScans' = {}
             /\ answered' = answered /\ discarded' = discarded
  <2>1. n + 1 \notin DOMAIN TakenScans
    BY <1>1 DEF Promise!Accept, Promise!Without
  <2>2. QED
    BY <1>1, <2>1 DEF Promise!Accept
<1>2. CASE \E i \in DOMAIN TakenScans : Promise!Answer(i)
  BY <1>2 DEF Promise!Answer
<1>3. CASE Promise!Settle \/ Promise!Discard \/ Promise!Pass
  BY <1>3 DEF Promise!Settle, Promise!Discard, Promise!Pass, Promise!Without
<1>4. QED
  BY <1>1, <1>2, <1>3 DEF Promise!Next

\* No row comes back into the queue table once it was deleted, whether it was
\* answered, expired or discarded, over any crash, retry or restart (Complete,
\* ExpireBefore, DiscardPending, AUTOINCREMENT).
THEOREM SettledRowsStaySettled == Spec => Promise!SettledForGood
<1> QED BY DeliveryRefines, PromiseSteps, PTL DEF ImplementsDelivery, Promise!Spec, Promise!SettledForGood

\* A row the operator has discarded gets no answer later: none is in flight when
\* it is deleted, and none is POSTed again (QueueResume, deliver).
THEOREM DiscardedRowsGetNoAnswer == Spec => Promise!DiscardIsFinal
<1> QED BY DeliveryRefines, PromiseSteps, PTL DEF ImplementsDelivery, Promise!Spec, Promise!DiscardIsFinal
=============================================================================
