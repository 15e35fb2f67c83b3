----------------------------- MODULE Admission -----------------------------
(***************************************************************************)
(* internal/admission: Service.Handle, run by the session goroutine of     *)
(* each reader.  The gate is looked up, then the scan is admitted in a     *)
(* store transaction, then the sender is woken: three steps that the other *)
(* goroutines interleave with.                                             *)
(***************************************************************************)
EXTENDS GateRegistry

VARIABLES adm,    \* reader -> where its handler is, and with which scan
          wake    \* the sender's one-slot wake channel is full

admissionVars == <<adm, wake>>

Handler == [pc : {"idle", "admit", "wake"}, epc : EPCs \cup {Empty}, at : Nat]
IdleHandler == [pc |-> "idle", epc |-> Empty, at |-> 0]

AdmissionTypeOK ==
  /\ adm \in [Readers -> Handler]
  /\ \A r \in Readers : adm[r].pc = "admit" => adm[r].epc \in EPCs
  /\ wake \in {0, 1}

AdmissionInit ==
  /\ adm = [r \in Readers |-> IdleHandler]
  /\ wake = 0

\* A tag is read; a suspended reader's scan is dropped here (no step).
HandleCheck(r) ==
  /\ Running
  /\ adm[r].pc = "idle"
  /\ clock <= LastScan
  /\ ~Suspended(entry[r].state)
  /\ \E e \in EPCs : adm' = [adm EXCEPT ![r] = [pc |-> "admit", epc |-> e, at |-> clock]]
  /\ UNCHANGED <<wake, spent, storeVars>>

\* ghost: the booth a scan was taken at, known while the gate is confirmed.
ScanBooth(r) == IF Sendable(entry[r].state) THEN BoothOf[cfgToken[r]] ELSE Empty

\* Store.Admit: debounced, accepted, or failed.
HandleAdmit(r) ==
  LET e == adm[r].epc  at == adm[r].at IN
  /\ Alive
  /\ adm[r].pc = "admit"
  /\ \/ /\ DebounceHit(r, e, at)
        /\ adm' = [adm EXCEPT ![r] = IdleHandler]
        /\ UNCHANGED <<spent, storeVars>>
     \/ /\ ~DebounceHit(r, e, at)
        /\ nextId <= MaxId
        /\ InsertRow(r, e, at, ScanBooth(r))
        /\ adm' = [adm EXCEPT ![r] = [IdleHandler EXCEPT !.pc = "wake"]]
        /\ UNCHANGED spent
     \/ /\ Spend("db")
        /\ adm' = [adm EXCEPT ![r] = IdleHandler]
        /\ UNCHANGED storeVars
  /\ UNCHANGED wake

HandleWake(r) ==
  /\ Alive
  /\ adm[r].pc = "wake"
  /\ wake' = 1
  /\ adm' = [adm EXCEPT ![r] = IdleHandler]
  /\ UNCHANGED <<spent, storeVars>>

AdmissionStep ==
  /\ \E r \in Readers : HandleCheck(r) \/ HandleAdmit(r) \/ HandleWake(r)
  /\ UNCHANGED <<clock, clockMax, life, cfgToken, registryVars>>
=============================================================================
