------------------------------ MODULE MCWizard ------------------------------
(* Step lists for the wizard: the dependent steps, and the others.         *)
EXTENDS Wizard

FieldLists == {<<"2", "3a">>, <<"2", "3b">>, <<"0", "1">>, <<"4">>}

Mix == {[lists |-> FieldLists, runs |-> 2, lines |-> 1, asks |-> 0, gui |-> "up", page |-> FALSE],
        [lists |-> FieldLists, runs |-> 1, lines |-> 2, asks |-> 0, gui |-> "bare", page |-> FALSE],
        [lists |-> {<<"4">>}, runs |-> 2, lines |-> 0, asks |-> 0, gui |-> "up", page |-> TRUE],
        [lists |-> {<<"2", "3a">>}, runs |-> 1, lines |-> 1, asks |-> 1, gui |-> "up", page |-> TRUE]}
=============================================================================
