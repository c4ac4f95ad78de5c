------------------------- MODULE MCDownstreamClients --------------------------
(* Instances of DownstreamClients for TLC. *)
EXTENDS DownstreamClients, TLC

CONSTANTS c1, c2, r1, r2, r3, a1, a2, read, chat, p1, p2

OneClient == {c1}
TwoClients == {c1, c2}
SameLabel == [c \in Client |-> "qa-run"]
TwoRequests == {r1, r2}
ThreeRequests == {r1, r2, r3}
NoRequests == {}
NoCatalog == {}
Catalog == {r2}
AllChat == [r \in Request |-> chat]
AllP1 == [r \in Request |-> p1]
WideAndNarrow == {{read, chat}, {read}}
Wide == {{read, chat}}
OneAdmin == {a1}
TwoAdmins == {a1, a2}
Profiles == {p1, p2}

OnlyLimited ==
  {[NoLimits EXCEPT !.rpm_limit = 1, !.model_allowlist = {p1}],
   [NoLimits EXCEPT !.request_limit_day = 1]}
Unrestricted == {NoLimits}
Tightened ==
  {[f \in {"expires_at", "max_concurrency"} |-> IF f = "expires_at" THEN 2 ELSE 1]}
Expiring == {[f \in {"expires_at"} |-> 2]}

NoFaults == {}
Recovered == FaultKinds

Symmetry == Permutations(Request)
=============================================================================
