---------------------------- MODULE MCMiddleware ----------------------------
(***************************************************************************)
(* The model-checked instances of Middleware.  Token tA belongs to booth   *)
(* bA, every other token to booth bB.  Each instance names the             *)
(* combinations of faults and requests it allows, each of them once, but   *)
(* for the two stops of RebindFaults.                                      *)
(***************************************************************************)
EXTENDS MiddlewareInv, TLC

CONSTANTS tA, tB, bA, bB

MCBoothOf == [t \in Tokens |-> IF t = tA THEN bA ELSE bB]

Once(kinds) == [k \in FaultKinds |-> IF k \in kinds THEN 1 ELSE 0]

TimeFaults     == {Once({"sweep"}), Once({"back"}), Once({"net"})}
GateFaults     == {Once({"crash", "revoke", "bug", "refresh", "token"}),
                   Once({"crash", "revoke", "db", "token"}),
                   Once({"stop", "cancel", "revoke", "token", "refresh"})}
DeliveryFaults == {Once({"crash", "net"}), Once({"bug", "net"}), Once({"db"}), Once({"stop", "cancel"}), Once({"sweep", "net"})}
RebindFaults   == {[Once({"stop", "cancel", "token"}) EXCEPT !["stop"] = 2]}
=============================================================================
