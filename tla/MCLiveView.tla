----------------------------- MODULE MCLiveView -----------------------------
(* Conditions of the core: in order, and with one reader suspended.         *)
EXTENDS LiveView

Fine == [sender |-> "RUNNING", gates |-> {"ACTIVE"}, down |-> "no", skew |-> "ok",
         expiring |-> FALSE, backlog |-> FALSE]

Conditions == {Fine, [Fine EXCEPT !.gates = {"ACTIVE", "SUSPENDED_TOKEN"}]}

\* Many changes and a quiet log, one of each, a busy log with a steady core, and a
\* change of which an answer brings older or newer news.
Mix == {[flips |-> 2, back |-> 1, losses |-> 1, asks |-> 0, lines |-> 0],
        [flips |-> 1, back |-> 0, losses |-> 0, asks |-> 0, lines |-> 1],
        [flips |-> 0, back |-> 0, losses |-> 1, asks |-> 0, lines |-> 2],
        [flips |-> 1, back |-> 0, losses |-> 1, asks |-> 1, lines |-> 0]}
=============================================================================
