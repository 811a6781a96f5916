----------------------------- MODULE MCPinIndex -----------------------------
(* Hosts are alike: placement is any choice, so they may be permuted.       *)
EXTENDS PinIndex, TLC

Symmetry == Permutations(Hosts)

=============================================================================
