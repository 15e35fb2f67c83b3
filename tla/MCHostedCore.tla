---------------------------- MODULE MCHostedCore ----------------------------
(***************************************************************************)
(* Instances of HostedCore for TLC.                                        *)
(***************************************************************************)
EXTENDS HostedCore, TLC

CONSTANTS g1, g2, t1

\* One reader has a session, the other still has the placeholder.
FirstTokens == g1 :> t1 @@ g2 :> Zero
=============================================================================
