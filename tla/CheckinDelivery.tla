-------------------------- MODULE CheckinDelivery --------------------------
(***************************************************************************)
(* What the middleware promises, without gates, goroutines, processes or   *)
(* a database: a scan that was accepted is owed, unaltered, until the      *)
(* server has answered for it, or it is too old, or the operator discards  *)
(* it; a scan that has been discarded is not sent any more.  Middleware    *)
(* implements this (ImplementsDelivery in MiddlewareInv).                  *)
(***************************************************************************)
EXTENDS Integers

CONSTANTS Scan,    \* what a scan is: a record with the time it was taken, checked
          MaxAge   \* the age past which a scan may be given up

VARIABLES taken,      \* 1..n -> Scan: the scans accepted so far
          owed,       \* those still to be delivered, as they will be sent
          answered,   \* those the server has answered for
          discarded,  \* those the operator has discarded
          now         \* the latest time the clock has shown

promiseVars == <<taken, owed, answered, discarded, now>>

Nothing == [i \in {} |-> 0]

Init ==
  /\ taken = Nothing /\ owed = Nothing
  /\ answered = {} /\ discarded = {}
  /\ now = 0

\* f is g without the numbers in ids.
Without(f, g, ids) ==
  /\ DOMAIN f = DOMAIN g \ ids
  /\ \A i \in DOMAIN f : f[i] = g[i]

\* A scan is accepted: the next number is owed from now on.
Accept(n) ==
  /\ DOMAIN taken = 1..n /\ DOMAIN taken' = 1..(n + 1)
  /\ Without(taken, taken', {n + 1})
  /\ taken'[n + 1] \in Scan
  /\ DOMAIN owed' = DOMAIN owed \cup {n + 1}
  /\ Without(owed, owed', {n + 1})
  /\ owed'[n + 1] = taken'[n + 1]
  /\ UNCHANGED <<answered, discarded, now>>

\* The server answers for a scan, possibly not for the first time.
Answer(i) ==
  /\ i \in DOMAIN taken \ discarded
  /\ answered' = answered \cup {i}
  /\ UNCHANGED <<taken, owed, discarded, now>>

\* The program forgets scans it no longer owes.
Settle ==
  /\ \E ids \in {DOMAIN owed \ DOMAIN owed'} :
       /\ Without(owed', owed, ids)
       /\ \A i \in ids : i \in answered \/ taken[i].checked + MaxAge < now
  /\ UNCHANGED <<taken, answered, discarded, now>>

\* The operator discards scans that are still owed.
Discard ==
  /\ \E ids \in {DOMAIN owed \ DOMAIN owed'} :
       /\ Without(owed', owed, ids)
       /\ discarded' = discarded \cup ids
  /\ UNCHANGED <<taken, answered, now>>

Pass == now' > now /\ UNCHANGED <<taken, owed, answered, discarded>>

Next ==
  \/ \E n \in {0} \cup DOMAIN taken : Accept(n)
  \/ \E i \in DOMAIN taken : Answer(i)
  \/ Settle \/ Discard \/ Pass

Spec == Init /\ [][Next]_promiseVars

\* A scan that is no longer owed never is again: what was delivered, given up or
\* discarded does not come back into the queue.
SettledForGood == [][(DOMAIN taken \ DOMAIN owed) \cap DOMAIN owed' = {}]_promiseVars

\* The server never answers for a scan after the operator has discarded it.
DiscardIsFinal == [][discarded \cap answered' \subseteq answered /\ discarded \subseteq discarded']_promiseVars
=============================================================================
