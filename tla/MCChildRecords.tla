--------------------------- MODULE MCChildRecords ---------------------------
(* One child, or two who take the turns by turns.  Workers are alike. *)
EXTENDS ChildRecords, TLC

CONSTANTS c1, c2

OnlyChild == [r \in Turns \cup Verifies |-> c1]
Siblings  == [r \in Turns \cup Verifies |-> IF r = 2 THEN c2 ELSE c1]
MCSymmetry == Permutations(Workers)
=============================================================================
