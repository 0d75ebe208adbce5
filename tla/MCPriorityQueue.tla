-------------------------- MODULE MCPriorityQueue ---------------------------
(* Small instances of PriorityQueue. *)
EXTENDS PriorityQueue

CONSTANTS m1, m2, m3  \* message ids

TwoIds   == {m1, m2}
ThreeIds == {m1, m2, m3}

\* The ids are interchangeable: nothing compares them but for equality.
IdSymmetry == Permutations(Ids)

=============================================================================
