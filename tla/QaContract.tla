----------------------------- MODULE QaContract -----------------------------
(***************************************************************************)
(* What the rest of the system may rely on about QA runs: one run at a     *)
(* time, a verdict that is final, and a failed Hermes run that may still be *)
(* passed by the helper whose cutover is committed.                        *)
(***************************************************************************)
CONSTANTS Run, HermesRuns

VARIABLE verdict

Verdict == {"absent", "open", "passed", "failed"}

Init == verdict = [r \in Run |-> "absent"]

Create(r) ==
  /\ verdict[r] = "absent" /\ \A q \in Run : verdict[q] # "open"
  /\ verdict' = [verdict EXCEPT ![r] = "open"]

Close(r) ==
  /\ verdict[r] = "open"
  /\ \E v \in {"passed", "failed"} : verdict' = [verdict EXCEPT ![r] = v]

Reconcile(r) ==
  /\ r \in HermesRuns /\ verdict[r] = "failed"
  /\ verdict' = [verdict EXCEPT ![r] = "passed"]

Next == \E r \in Run : Create(r) \/ Close(r) \/ Reconcile(r)

Spec == Init /\ [][Next]_verdict
=============================================================================
