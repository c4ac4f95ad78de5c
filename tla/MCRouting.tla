------------------------------ MODULE MCRouting ------------------------------
(* The instance of Routing for TLC. *)
EXTENDS Routing, TLC

CONSTANTS r1, r2, q1, q2, quota, denied, odd

MCRequest == {r1, r2, q1, q2}
MCQaRequest == {q1, q2}
MCGeneration == {r2}
MCStatus == {quota, denied, odd}
MCAuthStatus == {denied}
MCDocument == {{quota}, {odd}}
MCDefault == {quota}
MCStores == {"database", "file"}
Alike == Permutations({q1, q2})
=============================================================================
