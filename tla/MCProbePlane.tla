---------------------------- MODULE MCProbePlane ----------------------------
(* An instance of ProbePlane for TLC. *)
EXTENDS ProbePlane, TLC

CONSTANT MaxTurns  \* bound: events of the four kinds of Turns

PathSymmetry == Permutations(Paths)

\* The peer's re-Opens, this end's restarts and re-Opens, the padded probes and
\* the replies so far.
Turns == (peer.gen - 1) + local
         + Cardinality({m \in sent : m.kind # "echo" /\ (m.kind = "reply" \/ m.hello = NoEpoch)})

\* Either one path is used, with MaxTurns turns, or all are, with none.
OnePathOrNoTurns ==
    \/ Cardinality({m.path : m \in sent}) <= 1 /\ Turns <= MaxTurns
    \/ Turns = 0
=============================================================================
