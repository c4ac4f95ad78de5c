----------------------------- MODULE MCKeyVault ------------------------------
(* Instances of KeyVault for TLC.                                           *)
EXTENDS KeyVault, TLC

CONSTANTS k1, k2, k3, k4, t1, t2

TwoKeys == {k1, k2}
FourKeys == {k1, k2, k3, k4}
TwoTasks == {t1, t2}
NoTasks == {}
Symmetry == Permutations(Key) \cup Permutations(Task)

AllFaults == FaultKinds
NoFaults == {}
Recovered == {"error", "crash"}
Disconnects == {"cancel"}
=============================================================================
