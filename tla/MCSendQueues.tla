---------------------------- MODULE MCSendQueues ----------------------------
(* An instance of SendQueues for TLC. *)
EXTENDS SendQueues

Lane(rate, suspect, found) == [rate |-> rate, suspect |-> suspect, found |-> found]
SlowLane == Lane(40, FALSE, TRUE)
FastLane == Lane(100, FALSE, TRUE)

SomeLanes ==
  {<<>>, <<Lane(40, TRUE, TRUE)>>, <<SlowLane, FastLane>>, <<Lane(40, FALSE, FALSE), FastLane>>}

SomeOffers ==
  [realtime : {0, 39, 300}, small : {300}, budget : {20}, bulk : BOOLEAN]
=============================================================================
