-------------------------- MODULE MCSessionManager --------------------------
(* Small instances of SessionManager. *)
EXTENDS SessionManager, TLC

CONSTANTS sm1, sm2, s1, s2, c1, c2, c3, c4  \* managers, session ids, heap cells

TwoManagers == {sm1, sm2}
TwoSessions == {s1, s2}
FourCells   == {c1, c2, c3, c4}

\* An empty run of bytes, and two that differ.
ThreeRuns == {<<>>, <<1>>, <<2>>}

\* Managers, ids and cells are compared for equality alone.
Interchangeable == Permutations(Managers) \cup Permutations(SessionIds)
                   \cup Permutations(Cells)

=============================================================================
