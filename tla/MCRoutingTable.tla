--------------------------- MODULE MCRoutingTable ---------------------------
(* Small instances of RoutingTable. *)
EXTENDS RoutingTable

CONSTANTS r1, r2, r3, d1, d2  \* route ids and destinations

ThreeIds == {r1, r2, r3}
TwoDests == {d1, d2}

\* No hop, and a hop that does not fit into 16 bits.
SomeHops == {<<>>, <<65538>>}

\* Ids and destinations are compared for equality alone.
RouteSymmetry == Permutations(Ids) \cup Permutations(Dests)

=============================================================================
