--------------------------- MODULE MCExitSelector ---------------------------
(* An instance of ExitSelector for TLC. *)
EXTENDS ExitSelector

CONSTANTS x1, x2

\* The configuration order.
TwoExits == <<x1, x2>>

\* The world has come to some state before the selector first acts: Verdict,
\* SessionChange and RTTChange lead to it from Init.
MCInit ==
  /\ Boot
  /\ down \in [Exits -> BOOLEAN] /\ established \in SUBSET Exits
  /\ rtt \in [Exits -> 0..MaxRTT]
MCSpec == MCInit /\ [][Next]_vars /\ Fairness
=============================================================================
