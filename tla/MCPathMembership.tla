-------------------------- MODULE MCPathMembership --------------------------
(* An instance of PathMembership for TLC. *)
EXTENDS PathMembership

CONSTANTS a, b, c

BootTwo == <<a, b>>
Files == {<<a, c>>, <<c>>, <<b, a>>}
=============================================================================
