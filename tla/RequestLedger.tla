---------------------------- MODULE RequestLedger ----------------------------
(***************************************************************************)
(* The durable request ledger of the gateway: the PostgreSQL tables        *)
(* proxy_requests, request_attempts, downstream_request_permits and        *)
(* gateway_instances, the gateway processes (owners) that hold a lease on   *)
(* them, one handler per downstream request, and the recovery paths that   *)
(* close what a handler leaves behind: Drop recovery, the permit release   *)
(* retry, the owner watchdog and the cleanup of a starting process.        *)
(*                                                                         *)
(* A database operation is one step.  It commits and answers; or it fails  *)
(* and changes nothing ("error"); or it commits and the answer is lost     *)
(* ("lost", which is also a handler cancelled while it awaits the commit). *)
(* Which upstream key is eligible is left to the environment here.  The     *)
(* outcome "rejected" of a row is merged into "failed".                     *)
(***************************************************************************)
EXTENDS Naturals, Sequences, FiniteSets

CONSTANTS
  Owner,            \* gateway process incarnations, one owner_id each
  Request,          \* downstream requests
  Key,              \* upstream keys, the retired ones included
  ClientRequests,   \* requests that may present the one limited downstream credential
  AnonymousRequests,\* requests that may come without one (require_downstream_token off)
  StreamRequests,   \* requests with stream = true
  FixturedRequests, \* requests that may consume an after_first_frame QA fixture
  MaxConcurrency,   \* max_concurrency of the downstream credential
  MaxUpstreamKeys,  \* MAX_UPSTREAM_KEYS, hence the most attempts of a request
  Faults,           \* which of FaultKinds the environment may inject
  NoOwner,          \* owner_id IS NULL
  NoKey

FaultKinds == {"error", "lost", "session", "lapse"}

ASSUME LedgerAssumption ==
  /\ NoOwner \notin Owner /\ NoKey \notin Key
  /\ ClientRequests \subseteq Request /\ AnonymousRequests \subseteq Request
  /\ StreamRequests \subseteq Request
  /\ FixturedRequests \subseteq Request
  /\ MaxConcurrency \in Nat \ {0} /\ MaxUpstreamKeys \in Nat \ {0}
  /\ Faults \subseteq FaultKinds

VARIABLES
  proc,      \* state of each gateway process
  lease,     \* its gateway_instances row: none, last_seen_at recent, or older than 30s
  lapsed,    \* owners whose lease ran out while they were alive (history)
  lock,      \* the owner whose session holds the vault advisory lock
  watchdog,  \* the next statement of each watchdog loop
  row,       \* proxy_requests
  attempts,  \* request_attempts of each request, by attempt_no
  permit,    \* downstream_request_permits
  handler    \* the handler task of each request and, after it, its Drop task

ownerVars == <<proc, lease, lapsed, lock, watchdog>>
tables == <<row, attempts, permit>>
vars == <<proc, lease, lapsed, lock, watchdog, row, attempts, permit, handler>>

-----------------------------------------------------------------------------

Closed == {"succeeded", "failed", "cancelled", "abandoned_after_restart"}
Class == {"none", "reported", "handler_abandoned", "evidence_unavailable",
          "downstream_cancelled", "qa_fixture_contract_error", "owner_lease_expired"}

(* pc of the handler task; "dropping" and "release_retry" are the tasks     *)
(* that Drop spawns after the handler is gone.                              *)
BeforeRow == {"idle", "granted"}
Serving == {"started", "trying", "priming", "streaming", "retry", "between", "finishing",
            "closing"}
Winding == {"releasing", "dropping", "release_retry", "done"}

Row == [outcome: {"none", "started"} \cup Closed, class: Class, failovers: Nat,
        owner: Owner \cup {NoOwner}]
Attempt == [key: Key, outcome: {"started"} \cup Closed, response_started: BOOLEAN,
            owner: Owner \cup {NoOwner}]
Permit == [state: {"none", "held", "released"}, owner: Owner \cup {NoOwner}]
Handler == [pc: BeforeRow \cup Serving \cup Winding, owner: Owner \cup {NoOwner},
            key: Key \cup {NoKey}, permit: BOOLEAN, class: Class,
            target: {"succeeded", "failed"}, guard: BOOLEAN, ttfb: BOOLEAN]

TypeOK ==
  /\ proc \in [Owner -> {"unborn", "alive", "dead"}]
  /\ lease \in [Owner -> {"absent", "fresh", "expired"}]
  /\ lapsed \subseteq Owner
  /\ lock \in Owner \cup {NoOwner}
  /\ watchdog \in [Owner -> {"sleep", "attempts", "permits", "requests"}]
  /\ row \in [Request -> Row]
  /\ attempts \in [Request -> Seq(Attempt)]
  /\ permit \in [Request -> Permit]
  /\ handler \in [Request -> Handler]

FreshHandler(o) ==
  [pc |-> "granted", owner |-> o, key |-> NoKey, permit |-> FALSE,
   class |-> "handler_abandoned", target |-> "failed", guard |-> FALSE, ttfb |-> FALSE]

Init ==
  /\ proc = [o \in Owner |-> "unborn"]
  /\ lease = [o \in Owner |-> "absent"]
  /\ lapsed = {}
  /\ lock = NoOwner
  /\ watchdog = [o \in Owner |-> "sleep"]
  /\ row = [r \in Request |->
              [outcome |-> "none", class |-> "none", failovers |-> 0, owner |-> NoOwner]]
  /\ attempts = [r \in Request |-> <<>>]
  /\ permit = [r \in Request |-> [state |-> "none", owner |-> NoOwner]]
  /\ handler = [r \in Request |-> [FreshHandler(NoOwner) EXCEPT !.pc = "idle"]]

-----------------------------------------------------------------------------
(* Reading the tables *)

RowAlwaysOpen(r) == TRUE
RowIsOpen(r) == row[r].outcome = "started"

OpenAttempts(r) == {i \in DOMAIN attempts[r] : attempts[r][i].outcome = "started"}
OwnUnansweredAttempts(r) ==
  {i \in OpenAttempts(r) : /\ attempts[r][i].owner = handler[r].owner
                           /\ ~attempts[r][i].response_started}
OwnOpenAttempts(r) == {i \in OpenAttempts(r) : attempts[r][i].owner = handler[r].owner}

(* ... finished_at IS NULL ORDER BY created_at DESC LIMIT 1 *)
CurrentAttempt(r) ==
  LET own == {i \in OwnOpenAttempts(r) : attempts[r][i].key = handler[r].key}
  IN  {i \in own : \A j \in own : j <= i}

TriedKeys(r) == {attempts[r][i].key : i \in DOMAIN attempts[r]}
FailoverCount(r) == IF Len(attempts[r]) = 0 THEN 0 ELSE Len(attempts[r]) - 1
HeldPermits == {r \in Request : permit[r].state = "held"}
Identified(r) == permit[r].state # "none"
OwnersWithoutLock == Owner \ {lock}
PrunedOwners == {o \in Owner : lease[o] = "absent"}
StaleOwners == {o \in Owner : lease[o] # "fresh"}

(* Writing them *)

WithOutcome(s, I, outcome) ==
  [i \in DOMAIN s |-> IF i \in I THEN [s[i] EXCEPT !.outcome = outcome] ELSE s[i]]

CloseAttempts(r, I, outcome) ==
  attempts' = [attempts EXCEPT ![r] = WithOutcome(attempts[r], I, outcome)]

CloseRow(r, outcome, class) ==
  row' = [row EXCEPT ![r] = [outcome |-> outcome, class |-> class,
                             failovers |-> FailoverCount(r), owner |-> row[r].owner]]

NewAttempt(k, o) == [key |-> k, outcome |-> "started", response_started |-> FALSE, owner |-> o]

(* The three cleanup statements, for the owners in P whose lease is gone. *)
AbandonedUnansweredAttempts(P) ==
  [r \in Request |->
     WithOutcome(attempts[r],
                 {i \in OpenAttempts(r) : /\ attempts[r][i].owner \in P
                                          /\ ~attempts[r][i].response_started},
                 "abandoned_after_restart")]
AbandonedAttempts(P) ==
  [r \in Request |->
     WithOutcome(attempts[r], {i \in OpenAttempts(r) : attempts[r][i].owner \in P},
                 "abandoned_after_restart")]
AbandonedRows(P) ==
  [r \in Request |->
     IF RowIsOpen(r) /\ row[r].owner \in P \cup {NoOwner}
       THEN [outcome |-> "abandoned_after_restart", class |-> "owner_lease_expired",
             failovers |-> FailoverCount(r), owner |-> row[r].owner]
       ELSE row[r]]
ReleasedPermitsAndStrays(P) ==
  [r \in Request |->
     IF /\ permit[r].state = "held"
        /\ permit[r].owner \in P \cup {NoOwner} \/ row[r].outcome = "none"
       THEN [permit[r] EXCEPT !.state = "released"] ELSE permit[r]]
ReleasedPermits(P) ==
  [r \in Request |->
     IF permit[r].state = "held" /\ permit[r].owner \in P \cup {NoOwner}
       THEN [permit[r] EXCEPT !.state = "released"] ELSE permit[r]]

-----------------------------------------------------------------------------
(* Where a handler goes next *)

Goto(r, pc) == handler' = [handler EXCEPT ![r].pc = pc]
GotoAs(r, pc, class) == handler' = [handler EXCEPT ![r].pc = pc, ![r].class = class]

(* No task of the request is left; what it held in memory is gone. *)
Ended(o) == [FreshHandler(o) EXCEPT !.pc = "done"]
End(r) == handler' = [handler EXCEPT ![r] = Ended(handler[r].owner)]

(* The handler has nothing left to recover: its permit, if any, goes to the retry task. *)
ForgetPermit(r) == End(r)
LeavePermit(r) ==
  IF handler[r].permit
    THEN handler' = [handler EXCEPT ![r] =
                       [FreshHandler(@.owner) EXCEPT !.pc = "release_retry", !.permit = TRUE]]
    ELSE End(r)

(* Dropping a RequestEvidence that is not terminal spawns its Drop task. *)
Abandon(r) == Goto(r, "dropping")
AbandonAs(r, class) == GotoAs(r, "dropping", class)

DropOutcome(class) == IF class = "downstream_cancelled" THEN "cancelled" ELSE "failed"

May(fault) == fault \in Faults

-----------------------------------------------------------------------------
(* Admission *)

(* A request without a downstream credential takes no permit. *)
AdmitAnonymous(r, o) ==
  /\ handler[r].pc = "idle" /\ proc[o] = "alive" /\ r \in AnonymousRequests
  /\ handler' = [handler EXCEPT ![r] = FreshHandler(o)]
  /\ UNCHANGED <<ownerVars, tables>>

AcquirePermit(r, o) ==
  /\ handler[r].pc = "idle" /\ proc[o] = "alive" /\ r \in ClientRequests
  /\ \/ /\ lease[o] # "absent"
        /\ Cardinality(HeldPermits) < MaxConcurrency
        /\ permit' = [permit EXCEPT ![r] = [state |-> "held", owner |-> o]]
        /\ \/ handler' = [handler EXCEPT ![r] = [FreshHandler(o) EXCEPT !.permit = TRUE]]
           \/ /\ May("lost")
              /\ handler' = [handler EXCEPT ![r] = Ended(o)]
     \/ /\ \/ Cardinality(HeldPermits) >= MaxConcurrency
           \/ lease[o] = "absent"
           \/ May("error")
        /\ handler' = [handler EXCEPT ![r] = Ended(o)]
        /\ UNCHANGED permit
  /\ UNCHANGED <<ownerVars, row, attempts>>

(* Selection, cursor, parent row and first attempt are one transaction. *)
SelectAndStart(r) ==
  /\ handler[r].pc = "granted"
  /\ LET o == handler[r].owner IN
     \/ /\ lease[o] = "fresh"
        /\ \E k \in Key :
             /\ row' = [row EXCEPT ![r] = [outcome |-> "started", class |-> "none",
                                           failovers |-> 0, owner |-> o]]
             /\ attempts' = [attempts EXCEPT ![r] = <<NewAttempt(k, o)>>]
             /\ \/ handler' = [handler EXCEPT ![r].pc = "started", ![r].key = k]
                \/ May("lost") /\ LeavePermit(r)
     \/ /\ lease[o] # "absent"
        /\ row' = [row EXCEPT ![r] = [outcome |-> "failed", class |-> "reported",
                                      failovers |-> 0, owner |-> o]]
        /\ LeavePermit(r)
        /\ UNCHANGED attempts
     \/ /\ May("error") \/ lease[o] = "absent"
        /\ LeavePermit(r)
        /\ UNCHANGED <<row, attempts>>
  /\ UNCHANGED <<ownerVars, permit>>

(* A credential revoked or expired meanwhile, or a failing store, ends the request. *)
RecordAcceptedUse(r) ==
  /\ handler[r].pc = "started"
  /\ \/ Goto(r, "trying")
     \/ Identified(r) /\ GotoAs(r, "closing", "reported")
  /\ UNCHANGED <<ownerVars, tables>>

-----------------------------------------------------------------------------
(* One provider attempt *)

MarkResponseStarted(r) ==
  attempts' = [attempts EXCEPT ![r] =
    [i \in DOMAIN attempts[r] |->
       IF i \in CurrentAttempt(r) THEN [attempts[r][i] EXCEPT !.response_started = TRUE]
                                  ELSE attempts[r][i]]]

(* An armed after_first_frame fixture: a stream fails after its first frame; *)
(* a request that is not a stream is refused through RequestEvidence::fail.  *)
InjectedPostFrameFailure(r) ==
  /\ handler[r].pc = "trying" /\ r \in FixturedRequests /\ Len(attempts[r]) = 1
  /\ Identified(r) /\ r \in StreamRequests
  /\ \/ /\ CurrentAttempt(r) # {}
        /\ MarkResponseStarted(r)
        /\ \/ GotoAs(r, "finishing", "evidence_unavailable")
           \/ May("lost") /\ Abandon(r)
     \/ /\ CurrentAttempt(r) = {} \/ May("error")
        /\ Abandon(r)
        /\ UNCHANGED attempts
  /\ UNCHANGED <<ownerVars, row, permit>>

RefuseFixture(r) ==
  /\ handler[r].pc = "trying" /\ r \in FixturedRequests /\ Len(attempts[r]) = 1
  /\ Identified(r) /\ r \notin StreamRequests
  /\ \/ /\ RowIsOpen(r)
        /\ CloseRow(r, "failed", "qa_fixture_contract_error")
        /\ \/ Goto(r, "releasing")
           \/ May("lost") /\ AbandonAs(r, "evidence_unavailable")
     \/ /\ ~RowIsOpen(r) \/ May("error")
        /\ AbandonAs(r, "evidence_unavailable")
        /\ UNCHANGED row
  /\ UNCHANGED <<ownerVars, attempts, permit>>

RetryableFailureOrStreamError(r) ==
  /\ handler[r].pc \in {"trying", "priming", "streaming"}
  /\ handler' = [handler EXCEPT ![r].pc = "retry", ![r].class = "evidence_unavailable",
                                ![r].guard = FALSE]
  /\ UNCHANGED <<ownerVars, tables>>

(* A failure the routing policy retries; the key's health was recorded. *)
RetryableFailure(r) ==
  /\ handler[r].pc \in {"trying", "priming"}
  /\ handler' = [handler EXCEPT ![r].pc = "retry", ![r].class = "evidence_unavailable",
                                ![r].guard = FALSE]
  /\ UNCHANGED <<ownerVars, tables>>

(* The vault mutation that records the outcome fails: the handler returns. *)
HealthUpdateFailed(r) ==
  /\ handler[r].pc \in {"trying", "priming"}
  /\ AbandonAs(r, "evidence_unavailable")
  /\ UNCHANGED <<ownerVars, tables>>

ConclusiveAnswer(r) ==
  /\ handler[r].pc = "trying"
  /\ \E target \in {"succeeded", "failed"} :
       /\ target = "succeeded" => r \notin StreamRequests
       /\ handler' = [handler EXCEPT ![r].pc = "finishing", ![r].target = target,
                                     ![r].class = "evidence_unavailable"]
  /\ UNCHANGED <<ownerVars, tables>>

BeginPrimingCommitted(r) ==
  /\ handler[r].pc = "trying" /\ r \in StreamRequests
  /\ handler' = [handler EXCEPT ![r].pc = "priming", ![r].guard = TRUE,
                                ![r].class = "downstream_cancelled"]
  /\ UNCHANGED <<ownerVars, tables>>

(* The provider accepted a stream: the guard owns the evidence from here. *)
BeginPriming(r) ==
  /\ handler[r].pc = "trying" /\ r \in StreamRequests
  /\ handler' = [handler EXCEPT ![r].pc = "priming", ![r].guard = TRUE]
  /\ UNCHANGED <<ownerVars, tables>>

(* First validated frame: record it, then hand the body to the HTTP server. *)
HandOffStream(r) ==
  /\ handler[r].pc = "priming"
  /\ LET HandTo(pc, class) == handler' =
           [handler EXCEPT ![r].pc = pc, ![r].class = class, ![r].ttfb = TRUE]
     IN  \/ /\ CurrentAttempt(r) # {}
            /\ MarkResponseStarted(r)
            /\ \/ HandTo("streaming", "downstream_cancelled")
               \/ May("lost") /\ HandTo("dropping", "evidence_unavailable")
         \/ /\ CurrentAttempt(r) = {} \/ May("error")
            /\ HandTo("dropping", "evidence_unavailable")
            /\ UNCHANGED attempts
  /\ UNCHANGED <<ownerVars, row, permit>>

StreamEnded(r) ==
  /\ handler[r].pc = "streaming"
  /\ \E target \in {"succeeded", "failed"} :
       handler' = [handler EXCEPT ![r].pc = "finishing", ![r].target = target]
  /\ UNCHANGED <<ownerVars, tables>>

-----------------------------------------------------------------------------
(* Failover *)

(* Another eligible key: close this attempt alone and return to the loop. *)
FailOver(r) ==
  /\ handler[r].pc = "retry"
  /\ lease[handler[r].owner] = "fresh" /\ Len(attempts[r]) < MaxUpstreamKeys
  /\ \E k \in Key \ TriedKeys(r) :
       \/ /\ CurrentAttempt(r) # {}
          /\ CloseAttempts(r, CurrentAttempt(r), "failed")
          /\ \/ handler' = [handler EXCEPT ![r].pc = "between", ![r].key = k]
             \/ May("lost") /\ Abandon(r)
       \/ /\ CurrentAttempt(r) = {} \/ May("error")
          /\ Abandon(r)
          /\ UNCHANGED attempts
  /\ UNCHANGED <<ownerVars, row, permit>>

NoFailoverLeft(r) ==
  /\ handler[r].pc = "retry"
  /\ handler' = [handler EXCEPT ![r].pc = "finishing", ![r].target = "failed"]
  /\ UNCHANGED <<ownerVars, tables>>

(* INSERT ... SELECT FROM proxy_requests WHERE outcome='started', owner_id a foreign key. *)
OwnerMayInsert(r) == lease[handler[r].owner] # "absent"
MayInsertAttempt(r) == RowIsOpen(r) /\ lease[handler[r].owner] # "absent"

StartNextAttempt(r) ==
  /\ handler[r].pc = "between"
  /\ LET o == handler[r].owner IN
     \/ /\ MayInsertAttempt(r)
        /\ attempts' = [attempts EXCEPT ![r] = Append(@, NewAttempt(handler[r].key, o))]
        /\ \/ GotoAs(r, "trying", "handler_abandoned")
           \/ May("lost") /\ Abandon(r)
     \/ /\ ~MayInsertAttempt(r) \/ May("error")
        /\ Abandon(r)
        /\ UNCHANGED attempts
  /\ UNCHANGED <<ownerVars, row, permit>>

-----------------------------------------------------------------------------
(* The terminal transactions *)

(* The typed finalizer failed: a stream tries the open-attempts transaction *)
(* before its guard is dropped, a plain handler returns and is dropped.     *)
Unsettled(r) ==
  IF handler[r].guard THEN GotoAs(r, "closing", "evidence_unavailable") ELSE Abandon(r)

FinishWithoutRowCheck(r) ==
  /\ handler[r].pc = "finishing" /\ CurrentAttempt(r) # {}
  /\ CloseAttempts(r, CurrentAttempt(r), handler[r].target)
  /\ IF RowIsOpen(r) THEN CloseRow(r, handler[r].target, "reported") ELSE UNCHANGED row
  /\ Goto(r, "releasing")
  /\ UNCHANGED <<ownerVars, permit>>

(* request_and_attempt_finished: the current attempt and the parent row. *)
FinishWithAttempt(r) ==
  /\ handler[r].pc = "finishing"
  /\ \/ /\ CurrentAttempt(r) # {} /\ RowIsOpen(r)
        /\ CloseAttempts(r, CurrentAttempt(r), handler[r].target)
        /\ CloseRow(r, handler[r].target, "reported")
        /\ \/ Goto(r, "releasing")
           \/ May("lost") /\ Unsettled(r)
     \/ /\ CurrentAttempt(r) = {} \/ ~RowIsOpen(r) \/ May("error")
        /\ Unsettled(r)
        /\ UNCHANGED <<row, attempts>>
  /\ UNCHANGED <<ownerVars, permit>>

(* proxy_request_and_open_attempts_finished: every open attempt of this     *)
(* owner and the row; a known ttfb marks the attempts as answered.          *)
CloseWithOpenAttempts(r) ==
  /\ RowIsOpen(r)
  /\ attempts' = [attempts EXCEPT ![r] =
       [i \in DOMAIN attempts[r] |->
          IF i \in OwnOpenAttempts(r)
            THEN [attempts[r][i] EXCEPT !.outcome = DropOutcome(handler[r].class),
                                        !.response_started = @ \/ handler[r].ttfb]
            ELSE attempts[r][i]]]
  /\ CloseRow(r, DropOutcome(handler[r].class), handler[r].class)

FinishWithOpenAttempts(r) ==
  /\ handler[r].pc = "closing"
  /\ \/ /\ CloseWithOpenAttempts(r)
        /\ \/ Goto(r, "releasing")
           \/ May("lost") /\ Abandon(r)
     \/ /\ ~RowIsOpen(r) \/ May("error")
        /\ Abandon(r)
        /\ UNCHANGED <<row, attempts>>
  /\ UNCHANGED <<ownerVars, permit>>

(* release_permit_now: a failed release is handed to the retry task. *)
ReleasePermitNow(r) ==
  /\ handler[r].pc = "releasing"
  /\ \/ /\ permit' = IF handler[r].permit THEN [permit EXCEPT ![r].state = "released"]
                                          ELSE permit
        /\ End(r)
     \/ /\ handler[r].permit /\ (May("error") \/ May("lost"))
        /\ Goto(r, "release_retry")
        /\ UNCHANGED permit
  /\ UNCHANGED <<ownerVars, row, attempts>>

-----------------------------------------------------------------------------
(* Drop: the client went away, or the handler returned without a terminal row *)

HandlerDropped(r) ==
  /\ handler[r].pc \in {"granted", "releasing"} \cup Serving
  /\ IF handler[r].pc \in Serving THEN Abandon(r) ELSE LeavePermit(r)
  /\ UNCHANGED <<ownerVars, tables>>

(* The Drop task tries the closing transaction once, a StreamAttemptGuard   *)
(* once more through the RequestEvidence it owns, and only logs a failure.  *)
DropRecovery(r) ==
  /\ handler[r].pc = "dropping"
  /\ \/ CloseWithOpenAttempts(r) /\ LeavePermit(r)
     \/ /\ ~RowIsOpen(r) \/ May("error")
        /\ IF handler[r].guard THEN handler' = [handler EXCEPT ![r].guard = FALSE]
                               ELSE LeavePermit(r)
        /\ UNCHANGED <<row, attempts>>
  /\ UNCHANGED <<ownerVars, permit>>

(* spawn_permit_release_retry loops until the release succeeds. *)
RetryRelease(r) ==
  /\ handler[r].pc = "release_retry"
  /\ permit' = [permit EXCEPT ![r].state = "released"]
  /\ End(r)
  /\ UNCHANGED <<ownerVars, row, attempts>>

-----------------------------------------------------------------------------
(* Gateway processes *)

(* VaultStore::open: take the session lock, register a fresh lease, close   *)
(* what expired owners left open, and delete their gateway_instances rows   *)
(* (ON DELETE SET NULL), all but the lock in one transaction.               *)
OpenVault(o) ==
  /\ proc[o] = "unborn" /\ lock = NoOwner
  /\ LET P == StaleOwners \ {o}
         Heir(p) == IF p \in P THEN NoOwner ELSE p
     IN  /\ attempts' = [r \in Request |->
                           [i \in DOMAIN attempts[r] |->
                              [AbandonedAttempts(P)[r][i] EXCEPT !.owner = Heir(@)]]]
         /\ row' = [r \in Request |-> [AbandonedRows(P)[r] EXCEPT !.owner = Heir(@)]]
         /\ permit' = [r \in Request |-> [ReleasedPermits(P)[r] EXCEPT !.owner = Heir(@)]]
         /\ lease' = [p \in Owner |-> IF p = o THEN "fresh"
                                      ELSE IF p \in P THEN "absent" ELSE lease[p]]
  /\ proc' = [proc EXCEPT ![o] = "alive"]
  /\ lock' = o
  /\ UNCHANGED <<lapsed, watchdog, handler>>

(* exit(1) or a kill: every task of the process is gone, its session lock too. *)
Die(o) ==
  /\ proc' = [proc EXCEPT ![o] = "dead"]
  /\ lock' = IF lock = o THEN NoOwner ELSE lock
  /\ watchdog' = [watchdog EXCEPT ![o] = "sleep"]
  /\ handler' = [r \in Request |->
                   IF handler[r].owner = o THEN Ended(o) ELSE handler[r]]

(* Bounded: a process only dies while another incarnation is left to start. *)
Crash(o) ==
  /\ proc[o] = "alive"
  /\ \E p \in Owner : proc[p] = "unborn"
  /\ Die(o)
  /\ UNCHANGED <<lease, lapsed, tables>>

(* last_seen_at grows older than 30 seconds. *)
LeaseExpires(o) ==
  /\ lease[o] = "fresh"
  /\ proc[o] = "dead" \/ May("lapse")
  /\ lease' = [lease EXCEPT ![o] = "expired"]
  /\ lapsed' = IF proc[o] = "alive" THEN lapsed \cup {o} ELSE lapsed
  /\ UNCHANGED <<proc, lock, watchdog, tables, handler>>

(* The detached session of the advisory lock breaks; nothing watches it. *)
LoseSession(o) ==
  /\ May("session") /\ lock = o
  /\ lock' = NoOwner
  /\ UNCHANGED <<proc, lease, lapsed, watchdog, tables, handler>>

Heartbeat(o) ==
  /\ proc[o] = "alive" /\ watchdog[o] = "sleep"
  /\ IF lease[o] = "absent"
       THEN Die(o) /\ UNCHANGED lease
       ELSE /\ lease' = [lease EXCEPT ![o] = "fresh"]
            /\ watchdog' = [watchdog EXCEPT ![o] = "attempts"]
            /\ UNCHANGED <<proc, lock, handler>>
  /\ UNCHANGED <<lapsed, tables>>

CleanupStaleAttempts(o) ==
  /\ proc[o] = "alive" /\ watchdog[o] = "attempts"
  /\ attempts' = AbandonedAttempts(StaleOwners)
  /\ watchdog' = [watchdog EXCEPT ![o] = "permits"]
  /\ UNCHANGED <<proc, lease, lapsed, lock, row, permit, handler>>

CleanupStalePermits(o) ==
  /\ proc[o] = "alive" /\ watchdog[o] = "permits"
  /\ permit' = ReleasedPermits(StaleOwners)
  /\ watchdog' = [watchdog EXCEPT ![o] = "requests"]
  /\ UNCHANGED <<proc, lease, lapsed, lock, row, attempts, handler>>

CleanupStaleRequests(o) ==
  /\ proc[o] = "alive" /\ watchdog[o] = "requests"
  /\ row' = AbandonedRows(StaleOwners)
  /\ watchdog' = [watchdog EXCEPT ![o] = "sleep"]
  /\ UNCHANGED <<proc, lease, lapsed, lock, attempts, permit, handler>>

-----------------------------------------------------------------------------

Attempting(r) ==
  \/ RetryableFailure(r) \/ HealthUpdateFailed(r) \/ ConclusiveAnswer(r)
  \/ InjectedPostFrameFailure(r) \/ RefuseFixture(r)
  \/ BeginPriming(r) \/ HandOffStream(r) \/ StreamEnded(r)
  \/ FailOver(r) \/ NoFailoverLeft(r) \/ StartNextAttempt(r)

(* What the handler, its Drop task or its retry task does next by itself. *)
HandlerStep(r) ==
  \/ SelectAndStart(r) \/ RecordAcceptedUse(r) \/ Attempting(r)
  \/ FinishWithAttempt(r) \/ FinishWithOpenAttempts(r) \/ ReleasePermitNow(r)
  \/ DropRecovery(r) \/ RetryRelease(r)

WatchdogStep(o) ==
  Heartbeat(o) \/ CleanupStaleAttempts(o) \/ CleanupStalePermits(o) \/ CleanupStaleRequests(o)

Next ==
  \/ \E r \in Request : HandlerStep(r) \/ HandlerDropped(r)
  \/ \E r \in Request, o \in Owner : AdmitAnonymous(r, o) \/ AcquirePermit(r, o)
  \/ \E o \in Owner : OpenVault(o) \/ WatchdogStep(o)
  \/ \E o \in Owner : Crash(o) \/ LeaseExpires(o) \/ LoseSession(o)

Spec == Init /\ [][Next]_vars

(* A handler's awaits are bounded by timeouts, the watchdog loops, the      *)
(* supervisor restarts a process that ended, and time passes.               *)
Fairness ==
  /\ \A r \in Request : WF_vars(HandlerStep(r))
  /\ \A o \in Owner : WF_vars(WatchdogStep(o)) /\ WF_vars(LeaseExpires(o) /\ proc[o] = "dead")
  /\ WF_vars(\E o \in Owner : OpenVault(o))

FairSpec == Spec /\ Fairness

-----------------------------------------------------------------------------
(* Properties *)

(* What the rows owe to the phase of the handler: nothing is written before *)
(* the selection, and a handler between two attempts knows its next key.    *)
RowsFollowHandlers ==
  \A r \in Request :
    /\ handler[r].pc \in BeforeRow => row[r].outcome = "none" /\ attempts[r] = <<>>
    /\ handler[r].pc = "between" => handler[r].key \in Key

LastAttempt(r) == attempts[r][Len(attempts[r])]
IsAbandoned(r) ==
  \/ row[r].outcome = "abandoned_after_restart"
  \/ \E i \in DOMAIN attempts[r] : attempts[r][i].outcome = "abandoned_after_restart"

(* A request whose handler decided its outcome has no attempt left open:    *)
(* the last attempt and the row close in one transaction (evidence.rs       *)
(* finish_with_attempt, proxy_request_and_open_attempts_finished).  The     *)
(* refused fixture, which closes the row alone, is set apart here.          *)
ClosedRowHasNoOpenAttempt ==
  \A r \in Request :
    /\ row[r].outcome \in {"succeeded", "failed", "cancelled"}
    /\ row[r].class # "qa_fixture_contract_error"
    => OpenAttempts(r) = {}

(* docs/ARCHITECTURE.md, on operational evidence: the final attempt and its *)
(* request become terminal in one transaction.  The refused fixture, which  *)
(* closes its row through RequestEvidence::fail, is the exception.          *)
RowsCloseWithTheirAttempts ==
  \A r \in Request :
    row[r].outcome \in {"succeeded", "failed", "cancelled"} => OpenAttempts(r) = {}

(* Whoever writes after a row or an attempt was closed - a late finalizer,  *)
(* a second Drop try, the cleanup of another process - changes nothing of   *)
(* its verdict: every closing statement asks for an open row.               *)
VerdictsAreFinal ==
  [][\A r \in Request :
       /\ row[r].outcome \in Closed =>
            /\ row'[r].outcome = row[r].outcome
            /\ row'[r].class = row[r].class
            /\ row'[r].failovers = row[r].failovers
       /\ \A i \in DOMAIN attempts[r] :
            /\ i \in DOMAIN attempts'[r]
            /\ attempts[r][i].outcome \in Closed =>
                 attempts'[r][i].outcome = attempts[r][i].outcome]_vars

(* failover_count, computed when the row closes, stays the number of        *)
(* attempts after the first: no attempt is added to a closed row, not even  *)
(* by a handler that was abandoned while it was failing over.               *)
FailoverCountExact ==
  \A r \in Request : row[r].outcome \in Closed => row[r].failovers = FailoverCount(r)

(* Once a response frame was validated the request never fails over: an     *)
(* attempt with response_started is the last (StreamAttemptGuard is only    *)
(* released back to the failover loop before the first frame).              *)
FirstFrameEndsFailover ==
  \A r \in Request : \A i \in DOMAIN attempts[r] :
    attempts[r][i].response_started => i = Len(attempts[r])

(* At most one attempt per key, one provider call at a time, and never more *)
(* than MaxUpstreamKeys of them, whatever cleanup closed meanwhile.         *)
OneAttemptPerKey ==
  \A r \in Request :
    /\ Len(attempts[r]) <= MaxUpstreamKeys
    /\ \A i, j \in DOMAIN attempts[r] : attempts[r][i].key = attempts[r][j].key => i = j
    /\ \A i \in OpenAttempts(r) : i = Len(attempts[r])

(* A row succeeds exactly when its last attempt does, also when a cleanup   *)
(* raced the finalizer: both commit or both roll back.                      *)
RowSucceedsWithItsAttempt ==
  \A r \in Request :
    row[r].outcome = "succeeded" <=>
      \E i \in DOMAIN attempts[r] : attempts[r][i].outcome = "succeeded"

(* Only a client that leaves after the handoff cancels a request; before it *)
(* the same disconnect is handler_abandoned (the class that Drop finds      *)
(* armed).  A fixture may answer and then be dropped, so it is set apart.   *)
CancelledIffHandedOff ==
  \A r \in Request :
    /\ row[r].outcome = "cancelled" <=> row[r].class = "downstream_cancelled"
    /\ row[r].outcome = "cancelled" => LastAttempt(r).response_started
    /\ row[r].class = "handler_abandoned" /\ r \notin FixturedRequests =>
         \A i \in DOMAIN attempts[r] : ~attempts[r][i].response_started

(* A process that kept its lease keeps its requests: neither the watchdog   *)
(* nor the start of another gateway abandons what a live owner serves.      *)
LiveOwnerIsNeverAbandoned ==
  \A r \in Request :
    IsAbandoned(r) => \/ handler[r].owner \in lapsed
                      \/ proc[handler[r].owner] = "dead"

(* Every request of the limited client that a handler still serves, for an  *)
(* owner that kept its lease, holds a permit: the concurrency limit counts  *)
(* real provider calls.                                                     *)
InFlight(r) ==
  /\ Identified(r) /\ handler[r].owner \notin lapsed
  /\ handler[r].pc \in {"granted", "dropping"} \cup Serving
InFlightHoldsPermit ==
  \A r \in Request : InFlight(r) => permit[r].state = "held"

(* ... and there are never more of them than max_concurrency. *)
ConcurrencyLimit ==
  /\ Cardinality(HeldPermits) <= MaxConcurrency
  /\ Cardinality({r \in Request : InFlight(r)}) <= MaxConcurrency

(* DESIGN.md: the permit is released when the request is terminal or dropped. *)
HeldPermitHasAReleaser ==
  \A r \in Request :
    permit[r].state = "held" =>
      \/ handler[r].pc \in {"granted", "dropping", "releasing", "release_retry"} \cup Serving
      \/ proc[permit[r].owner] = "dead"

(* Every permit is released in the end: by the handler, by the retry task   *)
(* of Drop, or for a dead process by the cleanup of another.                *)
PermitsAreReleased ==
  \A r \in Request : permit[r].state = "held" ~> permit[r].state = "released"

(* Every started request gets a terminal row, whoever is left to write it.  *)
StartedRequestsClose ==
  \A r \in Request : row[r].outcome = "started" ~> row[r].outcome \in Closed

(* No attempt stays open: its handler closes it or, after a crash, a        *)
(* cleanup does.  An owner that lost its lease and came back is set apart:  *)
(* its attempt may have slipped in between the two statements that abandon  *)
(* its request, and nothing closes it while that process lives.             *)
OpenAttemptsClose ==
  \A r \in Request :
    OpenAttempts(r) # {} ~> OpenAttempts(r) = {} \/ handler[r].owner \in lapsed

(* The rows and attempts keep the promises of LedgerContract through every  *)
(* handler, Drop task, watchdog and restart: one verdict, one call at a     *)
(* time, no key twice, no call after the first frame.                       *)
LastOutcome(r) == IF attempts[r] = <<>> THEN "none" ELSE LastAttempt(r).outcome
FrameSeen(r) == \E i \in DOMAIN attempts[r] : attempts[r][i].response_started
Contract == INSTANCE LedgerContract WITH
  verdict <- [r \in Request |-> row[r].outcome],
  tried <- [r \in Request |-> TriedKeys(r)],
  call <- [r \in Request |-> LastOutcome(r)],
  answered <- [r \in Request |-> FrameSeen(r)]
ImplementsContract == Contract!Spec

=============================================================================
