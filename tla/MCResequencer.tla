--------------------------- MODULE MCResequencer ---------------------------
(* An instance of Resequencer for TLC: a run of sequence numbers, and some  *)
(* far enough from it to advance the window and to re-pin the stream.       *)
EXTENDS Resequencer

Arrivals == {1, 2, 3, 4, 5, 17, 18}
Bounds == {1}
=============================================================================
