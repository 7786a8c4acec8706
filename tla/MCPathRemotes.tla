--------------------------- MODULE MCPathRemotes ---------------------------
(* An instance of PathRemotes for TLC. *)
EXTENDS PathRemotes, TLC

CONSTANTS s1, s2

WanIDs == s1 :> 0 @@ s2 :> 1

AddrSymmetry == Permutations(Addrs)
=============================================================================
