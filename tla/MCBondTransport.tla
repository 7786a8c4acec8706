-------------------------- MODULE MCBondTransport --------------------------
(* Instances of BondTransport for TLC. *)
EXTENDS BondTransport, TLC

LaneSymmetry == Permutations(Lanes)
============================================================================
