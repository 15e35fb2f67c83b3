----------------------------- MODULE Preflight -----------------------------
(***************************************************************************)
(* internal/sender/preflight.go and metarefresh.go: for each reader, one   *)
(* goroutine that settles the gate after a start, and one that keeps its   *)
(* meta fresh afterwards.  A step that changes the registry leaves the     *)
(* SetGate it owes in put, executed by a later step.  The back-off timer   *)
(* and the 60 s period may elapse at any moment.                           *)
(***************************************************************************)
EXTENDS Sender

VARIABLES pf,   \* reader -> preflight goroutine
          mr    \* reader -> meta refresher goroutine

gateTaskVars == <<pf, mr>>

NoPut == [state |-> "PREFLIGHT_PENDING", fp |-> Empty, meta |-> Empty]
Task(pc) == [pc |-> pc, put |-> NoPut]

PreflightTypeOK ==
  /\ pf \in [Readers -> [pc : {"off", "attempt", "http", "persist", "backoff"}, put : GatePut]]
  /\ mr \in [Readers -> [pc : {"sleep", "http", "persist"}, put : GatePut]]

PreflightInit ==
  /\ pf = [r \in Readers |-> Task("off")]
  /\ mr = [r \in Readers |-> Task("sleep")]

----------------------------------------------------------------------------
(* Preflight.Run and attempt *)

PreflightSend(r) ==
  /\ Running
  /\ pf[r].pc \in {"attempt", "backoff"}
  /\ pf' = [pf EXCEPT ![r] = Task("http")]
  /\ UNCHANGED <<spent, storeVars, registryVars>>

\* Mutant: the fingerprint is compared the wrong way round.
MutRebindSameToken(prev, fp, booth) ==
  /\ prev.fp # Empty
  /\ prev.fp = fp
  /\ prev.meta.booth # Empty
  /\ prev.meta.booth # booth

\* The guard against sending another booth's pending rows.
RebindSuspected(prev, fp, booth) ==
  /\ prev.fp # Empty
  /\ prev.fp # fp
  /\ prev.meta.booth # Empty
  /\ prev.meta.booth # booth

ActiveState(cooldown) == IF cooldown > 0 THEN "ACTIVE" ELSE "ACTIVE_WARNING"

\* What a valid 200 for token fp, reporting this cooldown, makes of the gate.
Confirmed(prev, fp, cooldown) ==
  [state |-> IF RebindSuspected(prev, fp, BoothOf[fp]) THEN "SUSPENDED_REBIND"
             ELSE ActiveState(cooldown),
   fp    |-> fp,
   meta  |-> [booth |-> BoothOf[fp], cooldown |-> cooldown]]

Failed(state, fp) == [state |-> state, fp |-> fp, meta |-> Empty]

\* The memory half of Gates.Set; the other half is now owed.
Settle(r, put) ==
  /\ SetEntry(r, put)
  /\ pf' = [pf EXCEPT ![r] = [pc |-> "persist", put |-> put]]

\* What attempt makes of the outcome of its GET: transport failure or 5xx,
\* 404, a broken or unexpected answer, a valid 200.
PreflightAnswer(r) ==
  /\ Alive
  /\ pf[r].pc = "http"
  /\ \/ NetFault /\ Settle(r, Failed("PREFLIGHT_RETRY", cfgToken[r]))
     \/ Spend("revoke") /\ Settle(r, Failed("SUSPENDED_TOKEN", cfgToken[r]))
     \/ Spend("bug") /\ Settle(r, Failed("SUSPENDED_CONFIG", cfgToken[r]))
     \/ /\ \E c \in Cooldowns : Settle(r, Confirmed(entry[r], cfgToken[r], c))
        /\ UNCHANGED spent
  /\ UNCHANGED storeVars

\* Mutant: the goroutine ends although the gate is only to be retried.
MutPreflightGivesUp(r) ==
  /\ Alive
  /\ pf[r].pc = "persist"
  /\ OrFail(SetGate(r, pf[r].put))
  /\ pf' = [pf EXCEPT ![r] = Task("off")]
  /\ UNCHANGED registryVars

\* Mutant: a suspension is not written.
MutPersistOpenOnly(r) ==
  /\ Alive
  /\ pf[r].pc = "persist"
  /\ OrFail(IF Suspended(pf[r].put.state) THEN UNCHANGED storeVars ELSE SetGate(r, pf[r].put))
  /\ pf' = [pf EXCEPT ![r] = Task(IF pf[r].put.state = "PREFLIGHT_RETRY" THEN "backoff" ELSE "off")]
  /\ UNCHANGED registryVars

\* The owed SetGate (its error is ignored), then done or back off.
PreflightPersist(r) ==
  /\ Alive
  /\ pf[r].pc = "persist"
  /\ OrFail(SetGate(r, pf[r].put))
  /\ pf' = [pf EXCEPT ![r] = Task(IF pf[r].put.state = "PREFLIGHT_RETRY" THEN "backoff" ELSE "off")]
  /\ UNCHANGED registryVars

PreflightStep ==
  /\ \E r \in Readers : PreflightSend(r) \/ PreflightAnswer(r) \/ PreflightPersist(r)
  /\ UNCHANGED <<clock, clockMax, life, cfgToken, admissionVars, senderVars, mr>>

----------------------------------------------------------------------------
(* MetaRefresher.Run and tick *)

\* Only a sendable reader is queried.
RefreshSend(r) ==
  /\ Running
  /\ mr[r].pc = "sleep"
  /\ Sendable(entry[r].state)
  /\ Spend("refresh")
  /\ mr' = [mr EXCEPT ![r] = Task("http")]
  /\ UNCHANGED <<storeVars, registryVars>>

RefreshState(cooldown) == IF cooldown = 0 THEN "ACTIVE_WARNING" ELSE "ACTIVE"

\* A valid 200 is applied if RefreshMeta lets it; any other answer is ignored.
RefreshAnswer(r) ==
  /\ Alive
  /\ mr[r].pc = "http"
  /\ \/ \E c \in Cooldowns :
          LET meta == [booth |-> BoothOf[cfgToken[r]], cooldown |-> c] IN
          /\ RefreshApplies(r, RefreshState(c), meta)
          /\ RefreshMeta(r, RefreshState(c), meta)
          /\ mr' = [mr EXCEPT ![r] =
                      [pc |-> "persist",
                       put |-> [state |-> RefreshState(c), fp |-> entry[r].fp, meta |-> meta]]]
     \/ /\ mr' = [mr EXCEPT ![r] = Task("sleep")]
        /\ UNCHANGED registryVars
  /\ UNCHANGED <<spent, storeVars>>

RefreshPersist(r) ==
  /\ Alive
  /\ mr[r].pc = "persist"
  /\ OrFail(SetGate(r, mr[r].put))
  /\ mr' = [mr EXCEPT ![r] = Task("sleep")]
  /\ UNCHANGED registryVars

RefreshStep ==
  /\ \E r \in Readers : RefreshSend(r) \/ RefreshAnswer(r) \/ RefreshPersist(r)
  /\ UNCHANGED <<clock, clockMax, life, cfgToken, admissionVars, senderVars, pf>>
=============================================================================
