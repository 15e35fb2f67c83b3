---------------------------- MODULE GateRegistry ----------------------------
(***************************************************************************)
(* internal/gate: the in-memory registry of gates and the global sender    *)
(* state.  Set and RefreshMeta change memory under the registry mutex,     *)
(* signal the sender, and only then - outside the mutex - call SetGate.    *)
(* The memory half is here; the caller executes the returned GatePut in a  *)
(* later step of its own, so writes of two callers may reach the database  *)
(* in the order opposite to the one memory saw.                            *)
(***************************************************************************)
EXTENDS Store

VARIABLES entry,    \* reader -> GateEntry
          global,   \* "RUNNING" or "HALTED_REQUEST_BUG"
          changed   \* the sender's one-slot signal channel is full

registryVars == <<entry, global, changed>>

RegistryTypeOK ==
  /\ entry \in [Readers -> GateEntry]
  /\ global \in {"RUNNING", "HALTED_REQUEST_BUG"}
  /\ changed \in {0, 1}

FreshEntry == [state |-> "PREFLIGHT_PENDING", fp |-> Empty, meta |-> NoMeta]

\* NewRegistry; entries are filled in by the start-up restore.
RegistryInit ==
  /\ entry = [r \in Readers |-> FreshEntry]
  /\ global = "RUNNING"
  /\ changed = 0

\* Mutant: a gate that is not suspended counts as open.
MutSendableReaders == {r \in Readers : ~Suspended(entry[r].state)}

SendableReaders == {r \in Readers : Sendable(entry[r].state)}

\* The signal is a non-blocking send: a full slot stays full.
Notify == changed' = 1

\* Mutant: the sender is not told of the change.
MutSetSilently(r, put) ==
  /\ entry' = [entry EXCEPT ![r] =
                 [state |-> put.state,
                  fp    |-> IF put.fp = Empty THEN @.fp ELSE put.fp,
                  meta  |-> IF put.meta = Empty THEN @.meta ELSE put.meta]]
  /\ UNCHANGED <<changed, global>>

\* Registry.Set, memory half.  Here "" keeps the fingerprint.
SetEntry(r, put) ==
  /\ entry' = [entry EXCEPT ![r] =
                 [state |-> put.state,
                  fp    |-> IF put.fp = Empty THEN @.fp ELSE put.fp,
                  meta  |-> IF put.meta = Empty THEN @.meta ELSE put.meta]]
  /\ Notify
  /\ UNCHANGED global

\* Mutant: a late answer is applied whatever the gate has become.
MutRefreshAlways(r, state, meta) == ~(entry[r].state = state /\ entry[r].meta = meta)

\* RefreshMeta applies a late 200 only if the gate is still sendable and
\* something differs.
RefreshApplies(r, state, meta) ==
  /\ Sendable(entry[r].state)
  /\ ~(entry[r].state = state /\ entry[r].meta = meta)

RefreshMeta(r, state, meta) ==
  /\ entry' = [entry EXCEPT ![r] = [@ EXCEPT !.state = state, !.meta = meta]]
  /\ Notify
  /\ UNCHANGED global

HaltGlobal ==
  /\ global' = "HALTED_REQUEST_BUG"
  /\ Notify
  /\ UNCHANGED entry
=============================================================================
