----------------------------- MODULE MCPathMTU -----------------------------
(* An instance of PathMTU for TLC. *)
EXTENDS PathMTU
=============================================================================
