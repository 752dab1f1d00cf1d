-------------------------- MODULE MCLargeSegments --------------------------
(***************************************************************************)
(* LargeSegments for TLC.  Producers, addresses and route entries are      *)
(* interchangeable.                                                        *)
(***************************************************************************)
EXTENDS LargeSegments, TLC

Symmetry == Permutations(Producers) \cup Permutations(Bases)
            \cup Permutations(Entries)
=============================================================================
