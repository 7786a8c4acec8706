--------------------------- MODULE MCHubFailover ---------------------------
(* An instance of HubResolution, the two controllers together, for TLC. *)
EXTENDS HubResolution

CONSTANTS a1, a2

\* No name resolved at boot.  The first has both addresses, and the second shares
\* one of them.
MCInit ==
  /\ ResolvedInit
  /\ record = <<<<a1, a2>>, <<a2>>>> /\ addrs = [s \in Specs |-> <<>>]
  /\ alive = {a1}
MCSpec == MCInit /\ [][ResolvedNext]_allvars /\ ResolvedFairness
============================================================================
