------------------------------ MODULE MCQaRuns ------------------------------
(* The instance of QaRuns for TLC: a run of each kind. *)
EXTENDS QaRuns, TLC

CONSTANTS t1, p1, h1, c1, c2, o1, o2

MCTraffic == {t1}
MCPersistence == {p1}
MCHermes == {h1}
MCCase == {c1, c2}
MCOwner == {o1, o2}
Owners == Permutations(MCOwner)
MCFaults == {"lost", "crash", "session", "cleanup", "unspawned"}
(* The safety run leaves the histories and the replaced processes to the live one. *)
Process(o) == IF Living(o) \/ proc[o] = "unborn" THEN proc[o] ELSE "dead"
Unnamed ==
  <<status, cases, baseline, runner, timer, receipt, [o \in Owner |-> Process(o)],
    target, lock, scope, displaced>>

MCOneCase == {c1}
MCLiveFaults == {"error", "crash", "session"}
=============================================================================
