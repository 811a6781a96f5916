----------------------------- MODULE MCPinHost -----------------------------
(* Small hosts for TLC: CIDs are 1..n, and CID c names an object of c bytes.*)
EXTENDS PinHost, TLC

Symmetry == Permutations(Workers)

(* A publisher may understate: every object is declared to be one byte.     *)
MCUnderstated == [c \in Cids |-> {1}]

MCSize == [c \in Cids |-> c]

=============================================================================
