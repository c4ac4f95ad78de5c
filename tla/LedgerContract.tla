--------------------------- MODULE LedgerContract ---------------------------
(***************************************************************************)
(* What the rest of the system may rely on about the ledger of requests,    *)
(* whoever writes it.  A request calls one provider key at a time, none     *)
(* twice, and no other once the provider has answered with output; it is    *)
(* decided once, and it succeeds only with a call that succeeds.  Several   *)
(* requests may move at once: a cleanup closes all that a dead process left *)
(* behind.                                                                  *)
(***************************************************************************)
CONSTANTS Request, Key, FixturedRequests

VARIABLES
  verdict,  \* of each request
  tried,    \* the keys it has called
  call,     \* how its latest call stands
  answered  \* whether a call has answered with provider output

Init ==
  /\ verdict = [r \in Request |-> "none"]
  /\ tried = [r \in Request |-> {}]
  /\ call = [r \in Request |-> "none"]
  /\ answered = [r \in Request |-> FALSE]

Stand(r, v, c) == verdict'[r] = v /\ call'[r] = c
Calls(r, k) == tried'[r] = tried[r] \cup {k} /\ answered'[r] = FALSE
CallsNobody(r) == tried'[r] = tried[r]
Quiet(r) == CallsNobody(r) /\ answered'[r] = answered[r]

Stays(r) == Stand(r, verdict[r], call[r]) /\ Quiet(r)

Accept(r) ==
  /\ verdict[r] = "none"
  /\ \E k \in Key : Calls(r, k)
  /\ Stand(r, "started", "started")

Reject(r) ==
  /\ verdict[r] = "none"
  /\ Stand(r, "failed", call[r]) /\ Quiet(r)

(* Also the call of a request that was abandoned may still answer. *)
Answer(r) ==
  /\ call[r] = "started"
  /\ Stand(r, verdict[r], "started") /\ CallsNobody(r) /\ answered'[r] = TRUE

CallFails(r) ==
  /\ call[r] = "started" /\ ~answered[r]
  /\ Stand(r, verdict[r], "failed") /\ Quiet(r)

CallNext(r) ==
  /\ verdict[r] = "started" /\ ~answered[r]
  /\ call[r] \in {"failed", "abandoned_after_restart"}
  /\ \E k \in Key \ tried[r] : Calls(r, k)
  /\ Stand(r, "started", "started")

Finish(r) ==
  /\ verdict[r] = "started" /\ call[r] = "started"
  /\ \E v \in {"succeeded", "failed"} : Stand(r, v, v)
  /\ Quiet(r)

(* Its handler or its client is gone: cancelled only if it was answered. *)
Drop(r) ==
  /\ verdict[r] = "started" /\ CallsNobody(r)
  /\ \E v \in {"failed", "cancelled"} :
       /\ v = "cancelled" => answered'[r]
       /\ \/ call[r] = "started" /\ Stand(r, v, v) /\ answered'[r] \in {answered[r], TRUE}
          \/ call[r] # "started" /\ Stand(r, v, call[r]) /\ answered'[r] = answered[r]

(* A refused fixture is decided and leaves its call to a cleanup. *)
Refuse(r) ==
  /\ r \in FixturedRequests /\ verdict[r] = "started"
  /\ Stand(r, "failed", call[r]) /\ Quiet(r)

(* Its process is dead: call and request are given up, together or apart. *)
AbandonCall(r) ==
  /\ call[r] = "started"
  /\ Stand(r, verdict[r], "abandoned_after_restart") /\ Quiet(r)

AbandonRequest(r) ==
  /\ verdict[r] = "started"
  /\ \/ Stand(r, "abandoned_after_restart", call[r])
     \/ call[r] = "started" /\ Stand(r, "abandoned_after_restart", "abandoned_after_restart")
  /\ Quiet(r)

Moves(r) ==
  \/ Accept(r) \/ Reject(r) \/ Answer(r) \/ CallFails(r) \/ CallNext(r)
  \/ Finish(r) \/ Drop(r) \/ Refuse(r) \/ AbandonCall(r) \/ AbandonRequest(r)

Next == \A r \in Request : Stays(r) \/ Moves(r)

Spec == Init /\ [][Next]_<<verdict, tried, call, answered>>
=============================================================================
