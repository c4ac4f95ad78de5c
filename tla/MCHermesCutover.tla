-------------------------- MODULE MCHermesCutover ---------------------------
(* Instances of HermesCutover for TLC. *)
EXTENDS HermesCutover, TLC

CONSTANTS h1, h2, h3, r1, r2

MCHelper == {h1, h2, h3}
MCRun == {r1, r2}
Helpers == Permutations(MCHelper)
Runs == Permutations(MCRun)
Symmetry == Helpers \cup Runs
Expected == {"error", "lost", "late", "sync", "crash"}
UnsyncedCommit == {"commit_sync"}
=============================================================================
