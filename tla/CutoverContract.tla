-------------------------- MODULE CutoverContract ---------------------------
(***************************************************************************)
(* What a cutover of Hermes promises: generations are tried one at a time,  *)
(* each is committed or undone once and for all, and the token of Hermes    *)
(* changes only with a commit, to that of the committed generation.         *)
(***************************************************************************)
CONSTANTS Generation, Original

VARIABLES verdict, token

Init ==
  /\ verdict = [g \in Generation |-> "none"]
  /\ token = Original

Begin(g) ==
  /\ verdict[g] = "none" /\ \A k \in Generation : verdict[k] # "open"
  /\ verdict' = [verdict EXCEPT ![g] = "open"] /\ UNCHANGED token

Commit(g) ==
  /\ verdict[g] = "open"
  /\ verdict' = [verdict EXCEPT ![g] = "committed"] /\ token' = g

Undo(g) ==
  /\ verdict[g] = "open"
  /\ verdict' = [verdict EXCEPT ![g] = "undone"] /\ UNCHANGED token

Next == \E g \in Generation : Begin(g) \/ Commit(g) \/ Undo(g)

Spec == Init /\ [][Next]_<<verdict, token>>
=============================================================================
