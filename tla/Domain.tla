------------------------------- MODULE Domain -------------------------------
(***************************************************************************)
(* internal/domain: the vocabulary every component shares.  A pulse token  *)
(* is modelled by itself and its SHA-256 fingerprint by the token too (the *)
(* code only ever compares fingerprints); Empty stands for the empty       *)
(* string and for a nil *GateMeta.                                         *)
(***************************************************************************)
EXTENDS Integers, FiniteSets

CONSTANTS Readers,    \* reader ids of config.json
          EPCs,       \* tag ids
          Tokens,     \* pulse tokens the operator may configure
          Booths,     \* booths (gates) on the server
          BoothOf,    \* the booth the server has bound a token to
          Cooldowns,  \* cooldownSec values the server may report
          Empty       \* "" / nil

SendableStates  == {"ACTIVE", "ACTIVE_WARNING"}
SuspendedStates == {"SUSPENDED_TOKEN", "SUSPENDED_CONFIG", "SUSPENDED_REBIND"}
GateStates      == {"PREFLIGHT_PENDING", "PREFLIGHT_RETRY"}
                     \cup SendableStates \cup SuspendedStates

\* The sender may select rows of a reader in this state.
Sendable(state) == state \in SendableStates

\* No new scan is enqueued for a reader in this state.
Suspended(state) == state \in SuspendedStates

Decisions == {"COMPLETE", "DROP", "RETRY", "SUSPEND_READER", "HALT_GLOBAL"}

\* Decisions after which the server will not hear of the row again.
Terminal == {"COMPLETE", "DROP", "SUSPEND_READER"}

Fingerprints == Tokens \cup {Empty}
GateMeta     == [booth : Booths \cup {Empty}, cooldown : Int]
NoMeta       == [booth |-> Empty, cooldown |-> 0]

ASSUME DomainAssumption ==
  /\ Empty \notin Tokens
  /\ Empty \notin Booths
  /\ BoothOf \in [Tokens -> Booths]
  /\ Cooldowns \subseteq Int
  /\ Empty \notin GateMeta

\* A gate as the registry holds it in memory, and as gate_state stores it.
GateEntry == [state : GateStates, fp : Fingerprints, meta : GateMeta]

\* Arguments of a SetGate that is still to be executed; meta may be nil.
GatePut == [state : GateStates, fp : Fingerprints, meta : GateMeta \cup {Empty}]
=============================================================================
