------------------------------ MODULE Labelling ------------------------------
(***************************************************************************)
(* What the decision about the field promises to the strategy that reads   *)
(* its result: cells get a class one at a time, a class once given stays,  *)
(* and no class of block (1, 2, 3) is given more often than the rules of   *)
(* the game allow.  FieldDecision implements it.                           *)
(***************************************************************************)
EXTENDS Naturals, FiniteSets

CONSTANTS Cells, Limit

VARIABLE label     \* label[i]: the class of cell i, 0 while it has none

Classes == 1..4
Blocks == 1..3     \* class 4 is the empty cell

Given(c) == {i \in Cells : label[i] = c}

Init == label = [i \in Cells |-> 0]

Give(i, c) ==
  /\ label[i] = 0
  /\ c \in Blocks => Cardinality(Given(c)) < Limit[c]
  /\ label' = [label EXCEPT ![i] = c]

Next == \E i \in Cells, c \in Classes : Give(i, c)

Spec == Init /\ [][Next]_label
==============================================================================
