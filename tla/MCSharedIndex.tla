---------------------------- MODULE MCSharedIndex ----------------------------
(* Processes are alike, and so are pins.                                    *)
EXTENDS SharedIndex, TLC

Symmetry == Permutations(Procs) \cup Permutations(Cids)

=============================================================================
