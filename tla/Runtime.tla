------------------------------ MODULE Runtime ------------------------------
(***************************************************************************)
(* What every component runs on: the wall clock (clock.Clock), the life of *)
(* the process, the loaded configuration, and the faults of the            *)
(* environment.  Durations are scaled down but keep their order.           *)
(***************************************************************************)
EXTENDS Classifier

CONSTANTS Debounce,                      \* config debounceSec
          MinKeep,                       \* 10 minutes (app.go sweeper)
          MaxAge,                        \* config queueMaxAgeHours
          MaxIdle,                       \* 30 s cap of the sender's idle wait
          ErrWait,                       \* 5 s wait after a failed queue read
          Backoff1, Backoff2, Backoff3,  \* 5 s, 30 s, 2 min
          MaxClock,                      \* bound: last instant of the clock
          LastScan,                      \* bound: no tag is read after this instant
          MaxId,                         \* bound: number of rows ever inserted
          Budgets                        \* bound: how often each kind of fault or request may
                                         \* occur, one alternative per combination considered

\* crash, stop: process ends; net: HTTP call fails; cancel: HTTP call is cut
\* off by the stop; db: store call fails;
\* revoke: server answers 404 for a token; bug: server answers "error bind" or
\* breaks the preflight contract; token: operator edits a token; refresh,
\* sweep: a periodic meta query, a sweep; back: the clock is set back.
FaultKinds == {"crash", "stop", "net", "cancel", "db", "revoke", "bug", "token", "refresh", "sweep", "back"}

ASSUME RuntimeAssumption ==
  /\ {Debounce, MinKeep, MaxAge, MaxIdle, ErrWait, Backoff1, Backoff2, Backoff3} \subseteq Nat
  /\ {MaxClock, LastScan, MaxId} \subseteq Nat
  /\ Debounce > 0
  /\ Budgets \subseteq [FaultKinds -> Nat]

VARIABLES clock,      \* wall clock, shared by all goroutines
          clockMax,   \* ghost: the latest time the clock has shown
          life,       \* "down", "up", or "stopping" (context cancelled)
          cfgToken,   \* token configured for each reader
          spent       \* how often each kind of fault or request has occurred

runtimeVars == <<clock, clockMax, life, cfgToken, spent>>

RuntimeTypeOK ==
  /\ clock \in Nat
  /\ clockMax \in Nat
  /\ clock <= clockMax
  /\ life \in {"down", "up", "stopping"}
  /\ cfgToken \in [Readers -> Tokens]
  /\ spent \in [FaultKinds -> Nat]

\* No two readers share a token (config.go validate).
ValidTokens(t) == \A r, s \in Readers : t[r] = t[s] => r = s

RuntimeInit ==
  /\ clock = 0
  /\ clockMax = 0
  /\ life = "down"
  /\ cfgToken \in {t \in [Readers -> Tokens] : ValidTokens(t)}
  /\ spent = [k \in FaultKinds |-> 0]

Running == life = "up"
Alive   == life # "down"

Affordable(f) == \E b \in Budgets : \A k \in FaultKinds : f[k] <= b[k]

Spend(kind) == /\ spent' = [spent EXCEPT ![kind] = @ + 1]
               /\ Affordable(spent')

\* An HTTP call fails in transport: a network fault, or the cancelled context.
NetFault == \/ Spend("net")
            \/ life = "stopping" /\ Spend("cancel")

Tick ==
  /\ clock < MaxClock
  /\ clock' = clock + 1
  /\ clockMax' = IF clockMax < clock' THEN clock' ELSE clockMax
  /\ UNCHANGED <<life, cfgToken, spent>>

\* The system clock is set back (NTP step, operator).
ClockBack ==
  /\ Spend("back")
  /\ clock' \in {t \in 0..MaxClock : t < clock}
  /\ UNCHANGED <<clockMax, life, cfgToken>>
=============================================================================
