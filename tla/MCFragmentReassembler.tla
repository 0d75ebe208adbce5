----------------------- MODULE MCFragmentReassembler ------------------------
(* Small instances of FragmentReassembler. *)
EXTENDS FragmentReassembler, TLC

CONSTANTS a1, a2, a3,          \* heap cells
          m1, m2,              \* messages
          bytes, noise, empty, \* payloads: two of the same length, an empty one
          huge                 \* and one over MAX_FRAGMENT_PAYLOAD

Cells == {a1, a2, a3}
Msgs  == {m1, m2}
Texts == {bytes, noise, empty, huge}
Sizes == (bytes :> 1) @@ (noise :> 1) @@ (empty :> 0) @@ (huge :> 1025)

\* The allocator treats all cells alike, nothing reads the bytes, and message
\* ids are only compared for equality.
Symmetry == Permutations(Cells) \cup Permutations({bytes, noise}) \cup Permutations(Msgs)

=============================================================================
