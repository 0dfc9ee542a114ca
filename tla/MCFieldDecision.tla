--------------------------- MODULE MCFieldDecision ---------------------------
(***************************************************************************)
(* FieldDecision on a field of four cells: one block of class 1, one of    *)
(* class 2, none of class 3 and two empty cells.  The network names the    *)
(* first class or the last, so that the second is given by inference only. *)
(***************************************************************************)
EXTENDS FieldDecision

MCCells == 1..4
MCLimit == <<1, 1, 0, 2>>
MCDetections ==
  { <<100, 100, 0, 40>>,                    \* certain
    <<40, 100, 100, 100>>,                  \* too many
    <<40, 60, 0, 100>>,                     \* too few, some likelier
    <<100, 0, 0, 0>> }                      \* one block seen
MCConfs == {50, 80, 99, 100}
MCKinds == {1, 4}
==============================================================================
