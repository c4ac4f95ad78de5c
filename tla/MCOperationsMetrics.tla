------------------------- MODULE MCOperationsMetrics --------------------------
(* Instances of OperationsMetrics for TLC. *)
EXTENDS OperationsMetrics

CONSTANTS g1, g2, r1, r2, r3

Processes == {g1, g2}
TwoRequests == {r1, r2}
ThreeRequests == {r1, r2, r3}
OneBoundary == {1}
TwoBoundaries == {1, 2}
FastAndSlow == {1, 2}
AllLatencies == {1, 2, 3}
OneDay == {1}
OneOrTwo == {1, 2}
Shortest == [request |-> 1, metric |-> 1]
Usual == [request |-> 1, metric |-> 2]
=============================================================================
