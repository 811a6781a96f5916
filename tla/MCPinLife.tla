----------------------------- MODULE MCPinLife -----------------------------
(* Sizes scaled down so that milli-GB round: 3 bytes of 8 a "GiB", 4 milli  *)
(* to a unit, make 2 milli-GB rounded up and 1 rounded down.                *)
EXTENDS PinLife, TLC

MCDigest == [t \in 0..MaxTip |-> 3 * t + 1]

HostSymmetry == Permutations(Hosts)

=============================================================================
