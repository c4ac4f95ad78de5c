------------------------ MODULE RequestLedger_proofs ------------------------
(***************************************************************************)
(* Theorems about RequestLedger, for every number of gateways, requests    *)
(* and keys and every set of faults.                                       *)
(***************************************************************************)
EXTENDS RequestLedger, SequenceTheorems, FiniteSetTheorems, TLAPS

(* A statement that rewrites attempts in place keeps the sequence's shape. *)
LEMMA RewriteInPlace ==
  ASSUME NEW s \in Seq(Attempt), NEW f \in [DOMAIN s -> Attempt]
  PROVE  f \in Seq(Attempt) /\ Len(f) = Len(s) /\ DOMAIN f = DOMAIN s
<1>1. Len(s) \in Nat /\ DOMAIN s = 1 .. Len(s)
  OBVIOUS
<1>2. f \in Seq(Attempt)
  BY <1>1, SeqDef
<1> QED BY <1>1, <1>2

LEMMA WithOutcomeType ==
  ASSUME NEW s \in Seq(Attempt), NEW I, NEW outcome \in Closed
  PROVE  /\ WithOutcome(s, I, outcome) \in Seq(Attempt)
         /\ Len(WithOutcome(s, I, outcome)) = Len(s)
         /\ DOMAIN WithOutcome(s, I, outcome) = DOMAIN s
<1>1. \A i \in DOMAIN s : s[i] \in Attempt
  OBVIOUS
<1>2. WithOutcome(s, I, outcome) \in [DOMAIN s -> Attempt]
  BY <1>1 DEF WithOutcome, Attempt
<1> QED BY <1>2, RewriteInPlace

(* Where a handler goes *)

LEMMA GotoType ==
  ASSUME TypeOK, NEW r \in Request, NEW pc \in BeforeRow \cup Serving \cup Winding, Goto(r, pc)
  PROVE  handler' \in [Request -> Handler]
<1>1. handler \in [Request -> Handler] /\ handler[r] \in Handler
  BY DEF TypeOK
<1>2. [handler[r] EXCEPT !.pc = pc] \in Handler
  BY <1>1 DEF Handler
<1> QED BY <1>1, <1>2 DEF Goto

LEMMA GotoAsType ==
  ASSUME TypeOK, NEW r \in Request, NEW pc \in BeforeRow \cup Serving \cup Winding,
         NEW class \in Class, GotoAs(r, pc, class)
  PROVE  handler' \in [Request -> Handler]
<1>1. handler \in [Request -> Handler] /\ handler[r] \in Handler
  BY DEF TypeOK
<1>2. [handler[r] EXCEPT !.pc = pc] \in Handler
  BY <1>1 DEF Handler
<1>3. [handler[r] EXCEPT !.pc = pc, !.class = class] \in Handler
  BY <1>2 DEF Handler
<1> QED BY <1>1, <1>3 DEF GotoAs

LEMMA EndedType ==
  ASSUME NEW o \in Owner \cup {NoOwner}
  PROVE  Ended(o) \in Handler /\ FreshHandler(o) \in Handler
BY DEF Ended, FreshHandler, Handler, BeforeRow, Winding, Class

LEMMA LeavePermitType ==
  ASSUME TypeOK, NEW r \in Request, LeavePermit(r)
  PROVE  handler' \in [Request -> Handler]
<1>1. handler[r].owner \in Owner \cup {NoOwner}
  BY DEF TypeOK, Handler
<1>2. Ended(handler[r].owner) \in Handler
  BY <1>1, EndedType
<1>3. [FreshHandler(handler[r].owner) EXCEPT !.pc = "release_retry", !.permit = TRUE] \in Handler
  BY <1>1, EndedType, ZenonT(30) DEF Handler, Winding
<1> QED BY <1>2, <1>3 DEF LeavePermit, End, TypeOK

LEMMA AbandonType ==
  ASSUME TypeOK, NEW r \in Request, Abandon(r) \/ Unsettled(r)
  PROVE  handler' \in [Request -> Handler]
<1>1. "dropping" \in Winding /\ "closing" \in Serving /\ "evidence_unavailable" \in Class
  BY DEF Winding, Serving, Class
<1> QED BY <1>1, GotoType, GotoAsType DEF Abandon, Unsettled

(* What the statements write *)

LEMMA FailoverCountType ==
  ASSUME TypeOK, NEW r \in Request
  PROVE  FailoverCount(r) \in Nat
<1>1. attempts[r] \in Seq(Attempt)
  BY DEF TypeOK
<1> QED BY <1>1, LenProperties DEF FailoverCount

LEMMA CloseRowType ==
  ASSUME TypeOK, NEW r \in Request, NEW outcome \in Closed, NEW class \in Class,
         CloseRow(r, outcome, class)
  PROVE  row' \in [Request -> Row]
<1>1. row[r].owner \in Owner \cup {NoOwner}
  BY DEF TypeOK, Row
<1> QED BY <1>1, FailoverCountType DEF TypeOK, CloseRow, Row

LEMMA CloseAttemptsType ==
  ASSUME TypeOK, NEW r \in Request, NEW I, NEW outcome \in Closed,
         CloseAttempts(r, I, outcome)
  PROVE  attempts' \in [Request -> Seq(Attempt)]
<1>1. WithOutcome(attempts[r], I, outcome) \in Seq(Attempt)
  BY WithOutcomeType DEF TypeOK
<1> QED BY <1>1 DEF TypeOK, CloseAttempts

LEMMA MarkResponseStartedType ==
  ASSUME TypeOK, NEW r \in Request, MarkResponseStarted(r)
  PROVE  attempts' \in [Request -> Seq(Attempt)]
<1> DEFINE f == [i \in DOMAIN attempts[r] |->
                   IF i \in CurrentAttempt(r)
                     THEN [attempts[r][i] EXCEPT !.response_started = TRUE]
                     ELSE attempts[r][i]]
<1>1. attempts[r] \in Seq(Attempt) /\ \A i \in DOMAIN attempts[r] : attempts[r][i] \in Attempt
  BY DEF TypeOK
<1>2. f \in [DOMAIN attempts[r] -> Attempt]
  BY <1>1 DEF Attempt
<1>3. f \in Seq(Attempt)
  BY <1>1, <1>2, RewriteInPlace
<1> HIDE DEF f
<1>4. attempts' = [attempts EXCEPT ![r] = f]
  BY DEF MarkResponseStarted, f
<1> QED BY <1>3, <1>4 DEF TypeOK

LEMMA DropOutcomeType ==
  ASSUME NEW class
  PROVE  DropOutcome(class) \in {"failed", "cancelled"} /\ DropOutcome(class) \in Closed
BY DEF DropOutcome, Closed

LEMMA CloseWithOpenAttemptsType ==
  ASSUME TypeOK, NEW r \in Request, CloseWithOpenAttempts(r)
  PROVE  row' \in [Request -> Row] /\ attempts' \in [Request -> Seq(Attempt)]
<1> DEFINE f == [i \in DOMAIN attempts[r] |->
                   IF i \in OwnOpenAttempts(r)
                     THEN [attempts[r][i] EXCEPT !.outcome = DropOutcome(handler[r].class),
                                                 !.response_started = @ \/ handler[r].ttfb]
                     ELSE attempts[r][i]]
<1>1. attempts[r] \in Seq(Attempt) /\ \A i \in DOMAIN attempts[r] : attempts[r][i] \in Attempt
  BY DEF TypeOK
<1>2. handler[r].class \in Class /\ DropOutcome(handler[r].class) \in Closed
  BY DropOutcomeType DEF TypeOK, Handler
<1>3. f \in [DOMAIN attempts[r] -> Attempt]
  BY <1>1, <1>2 DEF Attempt
<1>4. f \in Seq(Attempt)
  BY <1>1, <1>3, RewriteInPlace
<1> HIDE DEF f
<1>5. attempts' = [attempts EXCEPT ![r] = f]
  BY DEF CloseWithOpenAttempts, f
<1>6. attempts' \in [Request -> Seq(Attempt)]
  BY <1>4, <1>5 DEF TypeOK
<1>7. row' \in [Request -> Row]
  BY <1>2, CloseRowType DEF CloseWithOpenAttempts
<1> QED BY <1>6, <1>7

LEMMA CleanupType ==
  ASSUME TypeOK, NEW P \in SUBSET Owner
  PROVE  /\ AbandonedAttempts(P) \in [Request -> Seq(Attempt)]
         /\ AbandonedRows(P) \in [Request -> Row]
         /\ ReleasedPermits(P) \in [Request -> Permit]
<1>1. "abandoned_after_restart" \in Closed /\ "owner_lease_expired" \in Class
  BY DEF Closed, Class
<1>2. AbandonedAttempts(P) \in [Request -> Seq(Attempt)]
  BY <1>1, WithOutcomeType DEF TypeOK, AbandonedAttempts
<1>3. AbandonedRows(P) \in [Request -> Row]
  BY <1>1, FailoverCountType DEF TypeOK, AbandonedRows, Row
<1>4. ReleasedPermits(P) \in [Request -> Permit]
  BY DEF TypeOK, ReleasedPermits, Permit
<1> QED BY <1>2, <1>3, <1>4

(* One lemma per part of the handler's life. *)

LEMMA AdmissionType ==
  ASSUME TypeOK, NEW r \in Request, NEW o \in Owner,
         AdmitAnonymous(r, o) \/ AcquirePermit(r, o)
  PROVE  TypeOK'
<1>1. FreshHandler(o) \in Handler /\ Ended(o) \in Handler
  BY EndedType
<1>2. [FreshHandler(o) EXCEPT !.permit = TRUE] \in Handler
  BY <1>1 DEF Handler
<1>3. [state |-> "held", owner |-> o] \in Permit
  BY DEF Permit
<1>4. handler' \in [Request -> Handler] /\ permit' \in [Request -> Permit]
  BY <1>1, <1>2, <1>3 DEF TypeOK, AdmitAnonymous, AcquirePermit, tables
<1>5. UNCHANGED <<proc, lease, lapsed, lock, watchdog, row, attempts>>
  BY DEF AdmitAnonymous, AcquirePermit, ownerVars, tables
<1> QED BY <1>4, <1>5 DEF TypeOK

LEMMA SelectAndStartType ==
  ASSUME TypeOK, NEW r \in Request, SelectAndStart(r)
  PROVE  TypeOK'
<1> DEFINE o == handler[r].owner
<1>1. o \in Owner \cup {NoOwner} /\ handler[r] \in Handler
  BY DEF TypeOK, Handler
<1>2. /\ [outcome |-> "started", class |-> "none", failovers |-> 0, owner |-> o] \in Row
      /\ [outcome |-> "failed", class |-> "reported", failovers |-> 0, owner |-> o] \in Row
  BY <1>1 DEF Row, Closed, Class
<1>3. \A k \in Key : <<NewAttempt(k, o)>> \in Seq(Attempt)
  BY <1>1 DEF NewAttempt, Attempt
<1>4. \A k \in Key : [handler[r] EXCEPT !.pc = "started", !.key = k] \in Handler
  BY <1>1 DEF Handler, Serving
<1>5. row' \in [Request -> Row] /\ attempts' \in [Request -> Seq(Attempt)]
  BY <1>2, <1>3, ZenonT(30) DEF TypeOK, SelectAndStart
<1>6. \/ LeavePermit(r)
      \/ \E k \in Key : handler' = [handler EXCEPT ![r].pc = "started", ![r].key = k]
  BY DEF SelectAndStart
<1>7. handler' \in [Request -> Handler]
  BY <1>4, <1>6, LeavePermitType DEF TypeOK
<1>8. UNCHANGED <<proc, lease, lapsed, lock, watchdog, permit>>
  BY DEF SelectAndStart, ownerVars
<1> QED BY <1>5, <1>7, <1>8 DEF TypeOK

(* The actions that move the handler and write no table. *)
LEMMA HandlerOnlyType ==
  ASSUME TypeOK, NEW r \in Request,
         \/ RecordAcceptedUse(r) \/ RetryableFailure(r) \/ HealthUpdateFailed(r)
         \/ ConclusiveAnswer(r) \/ BeginPriming(r) \/ StreamEnded(r) \/ NoFailoverLeft(r)
         \/ HandlerDropped(r)
  PROVE  TypeOK'
<1>1. handler[r] \in Handler
  BY DEF TypeOK
<1>2. {"trying", "closing", "dropping", "retry", "finishing", "priming"}
        \subseteq BeforeRow \cup Serving \cup Winding
  BY DEF Serving, Winding
<1>3. {"reported", "evidence_unavailable"} \subseteq Class
  BY DEF Class
<1>4. CASE RecordAcceptedUse(r)
  BY <1>2, <1>3, <1>4, GotoType, GotoAsType DEF RecordAcceptedUse, TypeOK, ownerVars, tables
<1>5. CASE RetryableFailure(r)
  <2>1. [handler[r] EXCEPT !.pc = "retry", !.class = "evidence_unavailable", !.guard = FALSE]
          \in Handler
    BY <1>1, <1>2, <1>3 DEF Handler
  <2> QED BY <1>5, <2>1 DEF RetryableFailure, TypeOK, ownerVars, tables
<1>6. CASE HealthUpdateFailed(r)
  BY <1>2, <1>3, <1>6, GotoAsType DEF HealthUpdateFailed, AbandonAs, TypeOK, ownerVars, tables
<1>7. CASE ConclusiveAnswer(r)
  <2>1. \A target \in {"succeeded", "failed"} :
          [handler[r] EXCEPT !.pc = "finishing", !.target = target,
                             !.class = "evidence_unavailable"] \in Handler
    BY <1>1, <1>2, <1>3 DEF Handler
  <2> QED BY <1>7, <2>1 DEF ConclusiveAnswer, TypeOK, ownerVars, tables
<1>8. CASE BeginPriming(r)
  <2>1. [handler[r] EXCEPT !.pc = "priming", !.guard = TRUE] \in Handler
    BY <1>1, <1>2 DEF Handler
  <2> QED BY <1>8, <2>1 DEF BeginPriming, TypeOK, ownerVars, tables
<1>9. CASE StreamEnded(r) \/ NoFailoverLeft(r)
  <2>1. \A target \in {"succeeded", "failed"} :
          [handler[r] EXCEPT !.pc = "finishing", !.target = target] \in Handler
    BY <1>1, <1>2 DEF Handler
  <2> QED BY <1>9, <2>1, ZenonT(30) DEF StreamEnded, NoFailoverLeft, TypeOK, ownerVars, tables
<1>10. CASE HandlerDropped(r)
  BY <1>10, AbandonType, LeavePermitType DEF HandlerDropped, TypeOK, ownerVars, tables
<1> QED BY <1>4, <1>5, <1>6, <1>7, <1>8, <1>9, <1>10

(* The actions that write one attempt. *)
LEMMA AttemptStepType ==
  ASSUME TypeOK, RowsFollowHandlers, NEW r \in Request,
         \/ InjectedPostFrameFailure(r) \/ HandOffStream(r) \/ FailOver(r)
         \/ StartNextAttempt(r)
  PROVE  TypeOK'
<1>1. handler[r] \in Handler /\ attempts[r] \in Seq(Attempt)
  BY DEF TypeOK
<1>2. {"trying", "finishing", "streaming", "dropping", "between"}
        \subseteq BeforeRow \cup Serving \cup Winding
  BY DEF Serving, Winding
<1>3. {"evidence_unavailable", "downstream_cancelled", "handler_abandoned"} \subseteq Class
  BY DEF Class
<1>4. UNCHANGED <<proc, lease, lapsed, lock, watchdog, row, permit>>
  BY DEF InjectedPostFrameFailure, HandOffStream, FailOver, StartNextAttempt, ownerVars
<1>5. CASE InjectedPostFrameFailure(r)
  <2>1. attempts' \in [Request -> Seq(Attempt)]
    BY <1>5, MarkResponseStartedType DEF InjectedPostFrameFailure, TypeOK
  <2>2. handler' \in [Request -> Handler]
    BY <1>2, <1>3, <1>5, GotoAsType, AbandonType DEF InjectedPostFrameFailure
  <2> QED BY <1>4, <2>1, <2>2 DEF TypeOK
<1>6. CASE HandOffStream(r)
  <2>1. attempts' \in [Request -> Seq(Attempt)]
    BY <1>6, MarkResponseStartedType DEF HandOffStream, TypeOK
  <2>2. /\ [handler[r] EXCEPT !.pc = "streaming", !.class = "downstream_cancelled",
                              !.ttfb = TRUE] \in Handler
        /\ [handler[r] EXCEPT !.pc = "dropping", !.class = "evidence_unavailable",
                              !.ttfb = TRUE] \in Handler
    BY <1>1, <1>2, <1>3 DEF Handler
  <2>3. \/ handler' = [handler EXCEPT ![r].pc = "streaming",
                                      ![r].class = "downstream_cancelled", ![r].ttfb = TRUE]
        \/ handler' = [handler EXCEPT ![r].pc = "dropping",
                                      ![r].class = "evidence_unavailable", ![r].ttfb = TRUE]
    BY <1>6 DEF HandOffStream
  <2>4. handler' \in [Request -> Handler]
    BY <2>2, <2>3 DEF TypeOK
  <2> QED BY <1>4, <2>1, <2>4 DEF TypeOK
<1>7. CASE FailOver(r)
  <2>1. attempts' \in [Request -> Seq(Attempt)]
    <3>1. "failed" \in Closed
      BY DEF Closed
    <3> QED BY <1>7, <3>1, CloseAttemptsType DEF FailOver, TypeOK
  <2>2. \A k \in Key : [handler[r] EXCEPT !.pc = "between", !.key = k] \in Handler
    BY <1>1, <1>2 DEF Handler
  <2>3. \/ Abandon(r)
        \/ \E k \in Key : handler' = [handler EXCEPT ![r].pc = "between", ![r].key = k]
    BY <1>7 DEF FailOver
  <2>4. handler' \in [Request -> Handler]
    BY <2>2, <2>3, AbandonType DEF TypeOK
  <2> QED BY <1>4, <2>1, <2>4 DEF TypeOK
<1>8. CASE StartNextAttempt(r)
  <2>1. handler[r].owner \in Owner \cup {NoOwner} /\ handler[r].key \in Key
    BY <1>1, <1>8 DEF Handler, StartNextAttempt, RowsFollowHandlers
  <2>2. NewAttempt(handler[r].key, handler[r].owner) \in Attempt
    BY <2>1 DEF NewAttempt, Attempt
  <2>3. Append(attempts[r], NewAttempt(handler[r].key, handler[r].owner)) \in Seq(Attempt)
    BY <1>1, <2>2
  <2>4. attempts' \in [Request -> Seq(Attempt)]
    BY <1>8, <2>3 DEF StartNextAttempt, TypeOK
  <2>5. handler' \in [Request -> Handler]
    BY <1>2, <1>3, <1>8, GotoAsType, AbandonType DEF StartNextAttempt
  <2> QED BY <1>4, <2>4, <2>5 DEF TypeOK
<1> QED BY <1>5, <1>6, <1>7, <1>8

(* The actions that close the row, and those that release the permit. *)
LEMMA ClosingStepType ==
  ASSUME TypeOK, NEW r \in Request,
         \/ RefuseFixture(r) \/ FinishWithAttempt(r) \/ FinishWithOpenAttempts(r)
         \/ DropRecovery(r) \/ ReleasePermitNow(r) \/ RetryRelease(r)
  PROVE  TypeOK'
<1>1. handler[r] \in Handler /\ handler[r].owner \in Owner \cup {NoOwner}
  BY DEF TypeOK, Handler
<1>2. {"releasing", "dropping", "release_retry"} \subseteq BeforeRow \cup Serving \cup Winding
  BY DEF Winding
<1>3. {"evidence_unavailable", "qa_fixture_contract_error", "reported"} \subseteq Class
  BY DEF Class
<1>4. UNCHANGED <<proc, lease, lapsed, lock, watchdog>>
  BY DEF RefuseFixture, FinishWithAttempt, FinishWithOpenAttempts, DropRecovery,
         ReleasePermitNow, RetryRelease, ownerVars
<1>5. handler[r].target \in Closed /\ "failed" \in Closed
  BY <1>1 DEF Handler, Closed
<1>6. End(r) => handler' \in [Request -> Handler]
  BY <1>1, EndedType DEF End, TypeOK
<1>7. [permit EXCEPT ![r].state = "released"] \in [Request -> Permit]
  BY DEF TypeOK, Permit
<1>8. CASE RefuseFixture(r)
  <2>1. row' \in [Request -> Row]
    BY <1>3, <1>5, <1>8, CloseRowType DEF RefuseFixture, TypeOK
  <2>2. handler' \in [Request -> Handler]
    BY <1>2, <1>3, <1>8, GotoType, GotoAsType DEF RefuseFixture, AbandonAs
  <2>3. UNCHANGED <<attempts, permit>>
    BY <1>8 DEF RefuseFixture
  <2> QED BY <1>4, <2>1, <2>2, <2>3 DEF TypeOK
<1>9. CASE FinishWithAttempt(r)
  <2>1. row' \in [Request -> Row] /\ attempts' \in [Request -> Seq(Attempt)]
    BY <1>3, <1>5, <1>9, CloseRowType, CloseAttemptsType DEF FinishWithAttempt, TypeOK
  <2>2. handler' \in [Request -> Handler]
    BY <1>2, <1>9, GotoType, AbandonType DEF FinishWithAttempt
  <2>3. UNCHANGED permit
    BY <1>9 DEF FinishWithAttempt
  <2> QED BY <1>4, <2>1, <2>2, <2>3 DEF TypeOK
<1>10. CASE FinishWithOpenAttempts(r)
  <2>1. row' \in [Request -> Row] /\ attempts' \in [Request -> Seq(Attempt)]
    BY <1>10, CloseWithOpenAttemptsType DEF FinishWithOpenAttempts, TypeOK
  <2>2. handler' \in [Request -> Handler]
    BY <1>2, <1>10, GotoType, AbandonType DEF FinishWithOpenAttempts
  <2>3. UNCHANGED permit
    BY <1>10 DEF FinishWithOpenAttempts
  <2> QED BY <1>4, <2>1, <2>2, <2>3 DEF TypeOK
<1>11. CASE DropRecovery(r)
  <2>1. row' \in [Request -> Row] /\ attempts' \in [Request -> Seq(Attempt)]
    BY <1>11, CloseWithOpenAttemptsType DEF DropRecovery, TypeOK
  <2>2. [handler[r] EXCEPT !.guard = FALSE] \in Handler
    BY <1>1 DEF Handler
  <2>3. LeavePermit(r) \/ handler' = [handler EXCEPT ![r].guard = FALSE]
    BY <1>11 DEF DropRecovery
  <2>4. handler' \in [Request -> Handler]
    BY <2>2, <2>3, LeavePermitType DEF TypeOK
  <2>5. UNCHANGED permit
    BY <1>11 DEF DropRecovery
  <2> QED BY <1>4, <2>1, <2>4, <2>5 DEF TypeOK
<1>12. CASE ReleasePermitNow(r)
  <2>1. permit' \in [Request -> Permit]
    BY <1>7, <1>12 DEF ReleasePermitNow, TypeOK
  <2>2. handler' \in [Request -> Handler]
    BY <1>2, <1>6, <1>12, GotoType DEF ReleasePermitNow
  <2>3. UNCHANGED <<row, attempts>>
    BY <1>12 DEF ReleasePermitNow
  <2> QED BY <1>4, <2>1, <2>2, <2>3 DEF TypeOK
<1>13. CASE RetryRelease(r)
  BY <1>4, <1>6, <1>7, <1>13 DEF RetryRelease, TypeOK
<1> QED BY <1>8, <1>9, <1>10, <1>11, <1>12, <1>13

(* The processes: leases, locks and cleanups. *)
LEMMA ProcessStepType ==
  ASSUME TypeOK, NEW o \in Owner,
         \/ OpenVault(o) \/ WatchdogStep(o) \/ Crash(o) \/ LeaseExpires(o) \/ LoseSession(o)
  PROVE  TypeOK'
<1>1. StaleOwners \in SUBSET Owner /\ StaleOwners \ {o} \in SUBSET Owner
  BY DEF StaleOwners
<1>2. Die(o) => /\ proc' \in [Owner -> {"unborn", "alive", "dead"}]
                /\ lock' \in Owner \cup {NoOwner}
                /\ watchdog' \in [Owner -> {"sleep", "attempts", "permits", "requests"}]
                /\ handler' \in [Request -> Handler]
  BY EndedType DEF Die, TypeOK
<1>3. CASE OpenVault(o)
  <2> DEFINE P == StaleOwners \ {o}
             Heir(p) == IF p \in P THEN NoOwner ELSE p
  <2>1. /\ AbandonedAttempts(P) \in [Request -> Seq(Attempt)]
        /\ AbandonedRows(P) \in [Request -> Row]
        /\ ReleasedPermits(P) \in [Request -> Permit]
    BY <1>1, CleanupType
  <2>2. row' \in [Request -> Row]
    <3>1. \A r \in Request : [AbandonedRows(P)[r] EXCEPT !.owner = Heir(@)] \in Row
      BY <2>1 DEF Row
    <3> QED BY <1>3, <3>1 DEF OpenVault
  <2>3. permit' \in [Request -> Permit]
    <3>1. \A r \in Request : [ReleasedPermits(P)[r] EXCEPT !.owner = Heir(@)] \in Permit
      BY <2>1 DEF Permit
    <3> QED BY <1>3, <3>1 DEF OpenVault
  <2>4. attempts' \in [Request -> Seq(Attempt)]
    <3> DEFINE f(r) == [i \in DOMAIN attempts[r] |->
                          [AbandonedAttempts(P)[r][i] EXCEPT !.owner = Heir(@)]]
    <3>1. ASSUME NEW r \in Request PROVE f(r) \in Seq(Attempt)
      <4>1. attempts[r] \in Seq(Attempt) /\ AbandonedAttempts(P)[r] \in Seq(Attempt)
        BY <2>1 DEF TypeOK
      <4>2. DOMAIN AbandonedAttempts(P)[r] = DOMAIN attempts[r]
        BY DEF AbandonedAttempts, WithOutcome
      <4>3. \A i \in DOMAIN attempts[r] : AbandonedAttempts(P)[r][i] \in Attempt
        BY <4>1, <4>2
      <4>4. f(r) \in [DOMAIN attempts[r] -> Attempt]
        BY <4>3 DEF Attempt
      <4> QED BY <4>1, <4>4, RewriteInPlace
    <3>2. attempts' = [r \in Request |-> f(r)]
      BY <1>3 DEF OpenVault
    <3> HIDE DEF f
    <3> QED BY <3>1, <3>2
  <2>5. /\ lease' \in [Owner -> {"absent", "fresh", "expired"}]
        /\ proc' \in [Owner -> {"unborn", "alive", "dead"}]
        /\ lock' \in Owner \cup {NoOwner}
        /\ UNCHANGED <<lapsed, watchdog, handler>>
    BY <1>3 DEF OpenVault, TypeOK
  <2> HIDE DEF P
  <2> QED BY <2>2, <2>3, <2>4, <2>5 DEF TypeOK
<1>4. CASE Heartbeat(o)
  BY <1>2, <1>4 DEF Heartbeat, TypeOK, tables
<1>5. CASE CleanupStaleAttempts(o)
  BY <1>1, <1>5, CleanupType DEF CleanupStaleAttempts, TypeOK
<1>6. CASE CleanupStalePermits(o)
  BY <1>1, <1>6, CleanupType DEF CleanupStalePermits, TypeOK
<1>7. CASE CleanupStaleRequests(o)
  BY <1>1, <1>7, CleanupType DEF CleanupStaleRequests, TypeOK
<1>8. CASE Crash(o)
  BY <1>2, <1>8 DEF Crash, TypeOK, tables
<1>9. CASE LeaseExpires(o)
  BY <1>9 DEF LeaseExpires, TypeOK, tables
<1>10. CASE LoseSession(o)
  BY <1>10 DEF LoseSession, TypeOK, tables
<1> QED BY <1>3, <1>4, <1>5, <1>6, <1>7, <1>8, <1>9, <1>10 DEF WatchdogStep

-----------------------------------------------------------------------------
(* What any one step does to the row and the attempts of a request q.      *)

SameVerdict(q) ==
  /\ row'[q].outcome = row[q].outcome
  /\ row'[q].class = row[q].class
  /\ row'[q].failovers = row[q].failovers

ClosesNow(q) ==
  /\ RowIsOpen(q)
  /\ row'[q].outcome \in Closed
  /\ row'[q].failovers = FailoverCount(q)

Rewritten(q) ==
  /\ Len(attempts'[q]) = Len(attempts[q])
  /\ DOMAIN attempts'[q] = DOMAIN attempts[q]
  /\ \A i \in DOMAIN attempts[q] :
       attempts[q][i].outcome \in Closed => attempts'[q][i].outcome = attempts[q][i].outcome

Selected(q) ==
  /\ handler[q].pc = "granted"
  /\ \/ row'[q].outcome = "started" /\ Len(attempts'[q]) = 1
     \/ /\ row'[q].outcome = "failed" /\ row'[q].failovers = 0
        /\ attempts'[q] = attempts[q]

Appended(q) ==
  /\ RowIsOpen(q) /\ SameVerdict(q)
  /\ DOMAIN attempts[q] \subseteq DOMAIN attempts'[q]
  /\ \A i \in DOMAIN attempts[q] : attempts'[q][i] = attempts[q][i]

Effect(q) ==
  \/ (SameVerdict(q) \/ ClosesNow(q)) /\ Rewritten(q)
  \/ Selected(q)
  \/ Appended(q)

LEMMA UnchangedEffect ==
  ASSUME NEW q \in Request, row'[q] = row[q], attempts'[q] = attempts[q]
  PROVE  Effect(q)
BY DEF Effect, SameVerdict, Rewritten

(* A step of a request leaves the rows and attempts of every other alone.  *)
LEMMA HandlerFrame ==
  ASSUME TypeOK, NEW r \in Request, NEW q \in Request, q # r,
         \/ HandlerStep(r) \/ HandlerDropped(r)
         \/ \E o \in Owner : AdmitAnonymous(r, o) \/ AcquirePermit(r, o)
  PROVE  /\ row'[q] = row[q]
         /\ attempts'[q] = attempts[q]
         /\ handler'[q] = handler[q]
<1>1. row'[q] = row[q]
  BY DEF TypeOK, HandlerStep, HandlerDropped, AdmitAnonymous, AcquirePermit, tables,
     SelectAndStart, RecordAcceptedUse, Attempting, FinishWithAttempt, FinishWithOpenAttempts,
     ReleasePermitNow, DropRecovery, RetryRelease, RetryableFailure, HealthUpdateFailed,
     ConclusiveAnswer, InjectedPostFrameFailure, RefuseFixture, BeginPriming, HandOffStream,
     StreamEnded, FailOver, NoFailoverLeft, StartNextAttempt, CloseRow, CloseWithOpenAttempts
<1>2. attempts'[q] = attempts[q]
  BY DEF TypeOK, HandlerStep, HandlerDropped, AdmitAnonymous, AcquirePermit, tables,
     SelectAndStart, RecordAcceptedUse, Attempting, FinishWithAttempt, FinishWithOpenAttempts,
     ReleasePermitNow, DropRecovery, RetryRelease, RetryableFailure, HealthUpdateFailed,
     ConclusiveAnswer, InjectedPostFrameFailure, RefuseFixture, BeginPriming, HandOffStream,
     StreamEnded, FailOver, NoFailoverLeft, StartNextAttempt, MarkResponseStarted,
     CloseAttempts, CloseWithOpenAttempts
<1>3. handler'[q] = handler[q]
  BY DEF TypeOK, HandlerStep, HandlerDropped, AdmitAnonymous, AcquirePermit, tables,
     SelectAndStart, RecordAcceptedUse, Attempting, FinishWithAttempt, FinishWithOpenAttempts,
     ReleasePermitNow, DropRecovery, RetryRelease, RetryableFailure, HealthUpdateFailed,
     ConclusiveAnswer, InjectedPostFrameFailure, RefuseFixture, BeginPriming, HandOffStream,
     StreamEnded, FailOver, NoFailoverLeft, StartNextAttempt, Goto, GotoAs, Abandon, AbandonAs,
     Unsettled, LeavePermit, End
<1> QED BY <1>1, <1>2, <1>3

LEMMA RewriteEffect ==
  ASSUME TypeOK, NEW r \in Request, NEW I, NEW outcome,
         I \cap DOMAIN attempts[r] \subseteq OpenAttempts(r),
         CloseAttempts(r, I, outcome)
  PROVE  Rewritten(r)
<1>1. attempts[r] \in Seq(Attempt)
  BY DEF TypeOK
<1> DEFINE f == WithOutcome(attempts[r], I, outcome)
<1>2. attempts'[r] = f
  BY DEF CloseAttempts, TypeOK
<1>3. DOMAIN f = DOMAIN attempts[r] /\ Len(f) = Len(attempts[r])
  BY <1>1, LenProperties DEF WithOutcome
<1>4. \A i \in DOMAIN attempts[r] : attempts[r][i].outcome \in Closed => f[i] = attempts[r][i]
  BY DEF WithOutcome, OpenAttempts, Closed
<1> QED BY <1>2, <1>3, <1>4 DEF Rewritten

LEMMA CloseRowEffect ==
  ASSUME TypeOK, NEW r \in Request, NEW outcome \in Closed, NEW class,
         RowIsOpen(r), CloseRow(r, outcome, class)
  PROVE  ClosesNow(r)
BY DEF TypeOK, CloseRow, ClosesNow

LEMMA CloseWithOpenAttemptsEffect ==
  ASSUME TypeOK, NEW r \in Request, CloseWithOpenAttempts(r)
  PROVE  Effect(r)
<1>1. attempts[r] \in Seq(Attempt)
  BY DEF TypeOK
<1> DEFINE f == [i \in DOMAIN attempts[r] |->
                   IF i \in OwnOpenAttempts(r)
                     THEN [attempts[r][i] EXCEPT !.outcome = DropOutcome(handler[r].class),
                                                 !.response_started = @ \/ handler[r].ttfb]
                     ELSE attempts[r][i]]
<1>2. attempts'[r] = f
  BY DEF CloseWithOpenAttempts, TypeOK
<1>3. DOMAIN f = DOMAIN attempts[r] /\ Len(f) = Len(attempts[r])
  BY <1>1, LenProperties
<1>4. \A i \in DOMAIN attempts[r] : attempts[r][i].outcome \in Closed => f[i] = attempts[r][i]
  BY DEF OwnOpenAttempts, OpenAttempts, Closed
<1>5. Rewritten(r)
  BY <1>2, <1>3, <1>4 DEF Rewritten
<1>6. ClosesNow(r)
  BY DropOutcomeType, CloseRowEffect DEF CloseWithOpenAttempts
<1> QED BY <1>5, <1>6 DEF Effect

LEMMA MarkResponseStartedEffect ==
  ASSUME TypeOK, NEW r \in Request, MarkResponseStarted(r)
  PROVE  Rewritten(r)
<1>1. attempts[r] \in Seq(Attempt)
  BY DEF TypeOK
<1> DEFINE f == [i \in DOMAIN attempts[r] |->
                   IF i \in CurrentAttempt(r)
                     THEN [attempts[r][i] EXCEPT !.response_started = TRUE]
                     ELSE attempts[r][i]]
<1>2. attempts'[r] = f
  BY DEF MarkResponseStarted, TypeOK
<1>3. DOMAIN f = DOMAIN attempts[r] /\ Len(f) = Len(attempts[r])
  BY <1>1, LenProperties
<1>4. \A i \in DOMAIN attempts[r] : attempts[r][i].outcome \in Closed => f[i] = attempts[r][i]
  BY DEF CurrentAttempt, OwnOpenAttempts, OpenAttempts, Closed
<1> QED BY <1>2, <1>3, <1>4 DEF Rewritten

LEMMA HandlerEffect ==
  ASSUME TypeOK, NEW r \in Request,
         \/ HandlerStep(r) \/ HandlerDropped(r)
         \/ \E o \in Owner : AdmitAnonymous(r, o) \/ AcquirePermit(r, o)
  PROVE  Effect(r)
<1>1. attempts[r] \in Seq(Attempt) /\ handler[r].target \in Closed /\ "failed" \in Closed
  BY DEF TypeOK, Handler, Closed
<1>2. CurrentAttempt(r) \cap DOMAIN attempts[r] \subseteq OpenAttempts(r)
  BY DEF CurrentAttempt, OwnOpenAttempts
<1>3. CASE UNCHANGED <<row, attempts>>
  BY <1>3, UnchangedEffect
<1>4. CASE SelectAndStart(r)
  <2>1. CASE \E k \in Key :
               /\ row' = [row EXCEPT ![r] = [outcome |-> "started", class |-> "none",
                                             failovers |-> 0, owner |-> handler[r].owner]]
               /\ attempts' = [attempts EXCEPT ![r] = <<NewAttempt(k, handler[r].owner)>>]
    <3>1. row'[r].outcome = "started" /\ Len(attempts'[r]) = 1
      BY <2>1 DEF TypeOK
    <3> QED BY <1>4, <3>1 DEF SelectAndStart, Effect, Selected
  <2>2. CASE /\ row' = [row EXCEPT ![r] = [outcome |-> "failed", class |-> "reported",
                                           failovers |-> 0, owner |-> handler[r].owner]]
             /\ UNCHANGED attempts
    <3>1. row'[r].outcome = "failed" /\ row'[r].failovers = 0
      BY <2>2 DEF TypeOK
    <3> QED BY <1>4, <2>2, <3>1 DEF SelectAndStart, Effect, Selected
  <2> QED BY <1>3, <1>4, <2>1, <2>2 DEF SelectAndStart
<1>5. CASE InjectedPostFrameFailure(r) \/ HandOffStream(r)
  <2>1. SameVerdict(r)
    BY <1>5 DEF InjectedPostFrameFailure, HandOffStream, SameVerdict
  <2>2. CASE MarkResponseStarted(r)
    BY <2>1, <2>2, MarkResponseStartedEffect DEF Effect
  <2> QED BY <1>3, <1>5, <2>2 DEF InjectedPostFrameFailure, HandOffStream
<1>6. CASE RefuseFixture(r)
  <2>1. CASE RowIsOpen(r) /\ CloseRow(r, "failed", "qa_fixture_contract_error")
    <3>1. Rewritten(r)
      BY <1>6 DEF RefuseFixture, Rewritten
    <3> QED BY <1>1, <2>1, <3>1, CloseRowEffect DEF Effect
  <2> QED BY <1>3, <1>6, <2>1 DEF RefuseFixture
<1>7. CASE FailOver(r)
  <2>1. CASE CloseAttempts(r, CurrentAttempt(r), "failed")
    <3>1. Rewritten(r)
      BY <1>2, <2>1, RewriteEffect
    <3> QED BY <1>7, <3>1 DEF FailOver, Effect, SameVerdict
  <2> QED BY <1>3, <1>7, <2>1 DEF FailOver
<1>8. CASE StartNextAttempt(r)
  <2>1. CASE /\ RowIsOpen(r)
             /\ attempts' = [attempts EXCEPT
                               ![r] = Append(@, NewAttempt(handler[r].key, handler[r].owner))]
    <3>1. attempts'[r] = Append(attempts[r], NewAttempt(handler[r].key, handler[r].owner))
      BY <2>1 DEF TypeOK
    <3>2. /\ DOMAIN attempts[r] \subseteq DOMAIN attempts'[r]
          /\ \A i \in DOMAIN attempts[r] : attempts'[r][i] = attempts[r][i]
      BY <1>1, <3>1
    <3> QED BY <1>8, <2>1, <3>2 DEF StartNextAttempt, Effect, Appended, SameVerdict
  <2> QED BY <1>3, <1>8, <2>1 DEF StartNextAttempt, MayInsertAttempt
<1>9. CASE FinishWithAttempt(r)
  <2>1. CASE /\ RowIsOpen(r)
             /\ CloseAttempts(r, CurrentAttempt(r), handler[r].target)
             /\ CloseRow(r, handler[r].target, "reported")
    BY <1>1, <1>2, <2>1, RewriteEffect, CloseRowEffect DEF Effect
  <2> QED BY <1>3, <1>9, <2>1 DEF FinishWithAttempt
<1>10. CASE FinishWithOpenAttempts(r)
  BY <1>3, <1>10, CloseWithOpenAttemptsEffect DEF FinishWithOpenAttempts
<1>11. CASE DropRecovery(r)
  BY <1>3, <1>11, CloseWithOpenAttemptsEffect DEF DropRecovery
<1>12. \/ UNCHANGED <<row, attempts>> \/ SelectAndStart(r)
       \/ InjectedPostFrameFailure(r) \/ HandOffStream(r) \/ RefuseFixture(r) \/ FailOver(r)
       \/ StartNextAttempt(r) \/ FinishWithAttempt(r) \/ FinishWithOpenAttempts(r)
       \/ DropRecovery(r)
  BY DEF HandlerStep, Attempting, HandlerDropped, AdmitAnonymous, AcquirePermit,
     RecordAcceptedUse, RetryableFailure, HealthUpdateFailed, ConclusiveAnswer, BeginPriming,
     StreamEnded, NoFailoverLeft, ReleasePermitNow, RetryRelease, tables
<1> QED BY <1>3, <1>4, <1>5, <1>6, <1>7, <1>8, <1>9, <1>10, <1>11, <1>12

(* A cleanup statement closes open rows and attempts only. *)
LEMMA CleanupEffect ==
  ASSUME TypeOK, NEW P \in SUBSET Owner, NEW q \in Request
  PROVE  /\ \/ AbandonedRows(P)[q] = row[q]
            \/ /\ RowIsOpen(q)
               /\ AbandonedRows(P)[q].outcome \in Closed
               /\ AbandonedRows(P)[q].failovers = FailoverCount(q)
         /\ Len(AbandonedAttempts(P)[q]) = Len(attempts[q])
         /\ DOMAIN AbandonedAttempts(P)[q] = DOMAIN attempts[q]
         /\ \A i \in DOMAIN attempts[q] :
              attempts[q][i].outcome \in Closed => AbandonedAttempts(P)[q][i] = attempts[q][i]
<1>1. attempts[q] \in Seq(Attempt) /\ "abandoned_after_restart" \in Closed
  BY DEF TypeOK, Closed
<1>2. \/ AbandonedRows(P)[q] = row[q]
      \/ /\ RowIsOpen(q)
         /\ AbandonedRows(P)[q].outcome \in Closed
         /\ AbandonedRows(P)[q].failovers = FailoverCount(q)
  BY <1>1 DEF AbandonedRows
<1>3. Len(AbandonedAttempts(P)[q]) = Len(attempts[q])
      /\ DOMAIN AbandonedAttempts(P)[q] = DOMAIN attempts[q]
  BY <1>1, WithOutcomeType DEF AbandonedAttempts
<1>4. \A i \in DOMAIN attempts[q] :
        attempts[q][i].outcome \in Closed => AbandonedAttempts(P)[q][i] = attempts[q][i]
  BY DEF AbandonedAttempts, WithOutcome, OpenAttempts, Closed
<1> QED BY <1>2, <1>3, <1>4

LEMMA ProcessEffect ==
  ASSUME TypeOK, NEW q \in Request, NEW o \in Owner,
         \/ OpenVault(o) \/ WatchdogStep(o) \/ Crash(o) \/ LeaseExpires(o) \/ LoseSession(o)
  PROVE  (SameVerdict(q) \/ ClosesNow(q)) /\ Rewritten(q)
<1>1. StaleOwners \in SUBSET Owner /\ StaleOwners \ {o} \in SUBSET Owner
  BY DEF StaleOwners
<1>2. CASE OpenVault(o)
  <2> DEFINE P == StaleOwners \ {o}
             Heir(p) == IF p \in P THEN NoOwner ELSE p
             f == [i \in DOMAIN attempts[q] |->
                     [AbandonedAttempts(P)[q][i] EXCEPT !.owner = Heir(@)]]
  <2>1. attempts[q] \in Seq(Attempt) /\ AbandonedAttempts(P) \in [Request -> Seq(Attempt)]
        /\ AbandonedRows(P) \in [Request -> Row]
    BY <1>1, CleanupType DEF TypeOK
  <2>2. row'[q] = [AbandonedRows(P)[q] EXCEPT !.owner = Heir(@)]
    BY <1>2 DEF OpenVault
  <2>3. /\ row'[q].outcome = AbandonedRows(P)[q].outcome
        /\ row'[q].class = AbandonedRows(P)[q].class
        /\ row'[q].failovers = AbandonedRows(P)[q].failovers
    BY <2>1, <2>2 DEF Row
  <2>4. SameVerdict(q) \/ ClosesNow(q)
    BY <1>1, <2>3, CleanupEffect DEF SameVerdict, ClosesNow
  <2>5. attempts'[q] = f
    BY <1>2 DEF OpenVault
  <2>6. DOMAIN f = DOMAIN attempts[q] /\ Len(f) = Len(attempts[q])
    BY <2>1, LenProperties
  <2>7. \A i \in DOMAIN attempts[q] : AbandonedAttempts(P)[q][i] \in Attempt
    <3>1. DOMAIN AbandonedAttempts(P)[q] = DOMAIN attempts[q]
      BY <1>1, CleanupEffect
    <3>2. AbandonedAttempts(P)[q] \in Seq(Attempt)
      BY <2>1
    <3> HIDE DEF P
    <3> QED BY <3>1, <3>2
  <2>8. \A i \in DOMAIN attempts[q] :
          attempts[q][i].outcome \in Closed => f[i].outcome = attempts[q][i].outcome
    <3>1. ASSUME NEW i \in DOMAIN attempts[q], attempts[q][i].outcome \in Closed
          PROVE  f[i].outcome = attempts[q][i].outcome
      <4>1. AbandonedAttempts(P)[q][i] = attempts[q][i]
        BY <1>1, <3>1, CleanupEffect
      <4>2. f[i] = [AbandonedAttempts(P)[q][i] EXCEPT !.owner = Heir(@)]
        BY <3>1
      <4>3. f[i].outcome = AbandonedAttempts(P)[q][i].outcome
        BY <2>7, <3>1, <4>2 DEF Attempt
      <4> QED BY <4>1, <4>3
    <3> QED BY <3>1
  <2>9. Rewritten(q)
    BY <2>5, <2>6, <2>8 DEF Rewritten
  <2> QED BY <2>4, <2>9
<1>3. CASE CleanupStaleAttempts(o)
  <2>1. row' = row /\ attempts' = AbandonedAttempts(StaleOwners)
    BY <1>3 DEF CleanupStaleAttempts
  <2> QED BY <1>1, <2>1, CleanupEffect DEF SameVerdict, Rewritten
<1>4. CASE CleanupStaleRequests(o)
  <2>1. attempts' = attempts /\ row' = AbandonedRows(StaleOwners)
    BY <1>4 DEF CleanupStaleRequests
  <2> QED BY <1>1, <2>1, CleanupEffect DEF SameVerdict, ClosesNow, Rewritten
<1>5. CASE UNCHANGED <<row, attempts>>
  BY <1>5 DEF SameVerdict, Rewritten
<1> QED BY <1>2, <1>3, <1>4, <1>5
        DEF WatchdogStep, Heartbeat, CleanupStalePermits, Crash, LeaseExpires, LoseSession, tables

LEMMA StepEffect ==
  ASSUME TypeOK, [Next]_vars, NEW q \in Request
  PROVE  Effect(q)
<1>1. CASE UNCHANGED vars
  BY <1>1, UnchangedEffect DEF vars
<1>2. CASE \E o \in Owner :
             OpenVault(o) \/ WatchdogStep(o) \/ Crash(o) \/ LeaseExpires(o) \/ LoseSession(o)
  BY <1>2, ProcessEffect DEF Effect
<1>3. CASE \E r \in Request :
             \/ HandlerStep(r) \/ HandlerDropped(r)
             \/ \E o \in Owner : AdmitAnonymous(r, o) \/ AcquirePermit(r, o)
  <2>1. PICK r \in Request :
             \/ HandlerStep(r) \/ HandlerDropped(r)
             \/ \E o \in Owner : AdmitAnonymous(r, o) \/ AcquirePermit(r, o)
    BY <1>3
  <2>2. CASE q = r
    BY <2>1, <2>2, HandlerEffect
  <2>3. CASE q # r
    BY <2>1, <2>3, HandlerFrame, UnchangedEffect
  <2> QED BY <2>2, <2>3
<1> QED BY <1>1, <1>2, <1>3 DEF Next

-----------------------------------------------------------------------------
(* The inductive invariant of the theorems below. *)

IInv == TypeOK /\ RowsFollowHandlers

LEMMA InitIInv == Init => IInv
<1> SUFFICES ASSUME Init PROVE IInv
  OBVIOUS
<1>1. [FreshHandler(NoOwner) EXCEPT !.pc = "idle"] \in Handler
  BY EndedType DEF Handler, BeforeRow
<1>2. TypeOK
  BY <1>1 DEF Init, TypeOK, Row, Permit, Class
<1>3. \A r \in Request : handler[r].pc = "idle" /\ row[r].outcome = "none" /\ attempts[r] = <<>>
  BY <1>1 DEF Init, Handler
<1> QED BY <1>2, <1>3 DEF IInv, RowsFollowHandlers, BeforeRow

LEMMA TypeStep ==
  ASSUME IInv, [Next]_vars
  PROVE  TypeOK'
<1>1. TypeOK /\ RowsFollowHandlers
  BY DEF IInv
<1>2. CASE UNCHANGED vars
  BY <1>1, <1>2 DEF vars, TypeOK
<1>3. ASSUME NEW r \in Request, HandlerStep(r) \/ HandlerDropped(r) PROVE TypeOK'
  BY <1>1, <1>3, SelectAndStartType, HandlerOnlyType, AttemptStepType, ClosingStepType
     DEF HandlerStep, Attempting
<1>4. ASSUME NEW r \in Request, NEW o \in Owner, AdmitAnonymous(r, o) \/ AcquirePermit(r, o)
      PROVE  TypeOK'
  BY <1>1, <1>4, AdmissionType
<1>5. ASSUME NEW o \in Owner,
             OpenVault(o) \/ WatchdogStep(o) \/ Crash(o) \/ LeaseExpires(o) \/ LoseSession(o)
      PROVE  TypeOK'
  BY <1>1, <1>5, ProcessStepType
<1> QED BY <1>2, <1>3, <1>4, <1>5 DEF Next

(* No step goes back before the row, and only FailOver goes between attempts. *)
LEMMA PhaseStep ==
  ASSUME IInv, NEW r \in Request,
         \/ HandlerStep(r) \/ HandlerDropped(r)
         \/ \E o \in Owner : AdmitAnonymous(r, o) \/ AcquirePermit(r, o)
  PROVE  /\ handler'[r].pc \in BeforeRow =>
              handler'[r].pc = "granted" /\ UNCHANGED <<row, attempts>> /\ handler[r].pc = "idle"
         /\ handler'[r].pc = "between" => handler'[r].key \in Key
<1> USE DEF IInv
<1>1. handler[r] \in Handler
  BY DEF TypeOK
<1>2. CASE \E o \in Owner : AdmitAnonymous(r, o) \/ AcquirePermit(r, o)
  BY <1>2, EndedType DEF AdmitAnonymous, AcquirePermit, TypeOK, FreshHandler, Ended, BeforeRow,
     tables
<1>3. CASE LeavePermit(r) \/ End(r) \/ Abandon(r) \/ Unsettled(r)
  <2>1. \A o : FreshHandler(o).pc = "granted" /\ Ended(o).pc = "done"
    BY DEF FreshHandler, Ended
  <2>2. End(r) => handler'[r].pc = "done"
    BY <2>1 DEF End, TypeOK
  <2>3. [FreshHandler(handler[r].owner) EXCEPT !.pc = "release_retry", !.permit = TRUE].pc
          = "release_retry"
    BY DEF FreshHandler
  <2>4. LeavePermit(r) => handler'[r].pc \in {"done", "release_retry"}
    BY <2>2, <2>3 DEF LeavePermit, TypeOK
  <2>5. Abandon(r) \/ Unsettled(r) => handler'[r].pc \in {"dropping", "closing"}
    BY <1>1 DEF Abandon, Unsettled, Goto, GotoAs, TypeOK, Handler
  <2> QED BY <1>3, <2>2, <2>4, <2>5 DEF BeforeRow
<1>4. CASE FailOver(r)
  BY <1>1, <1>3, <1>4 DEF FailOver, TypeOK, BeforeRow, Handler
<1>5. CASE SelectAndStart(r)
  BY <1>1, <1>3, <1>5 DEF SelectAndStart, TypeOK, BeforeRow, Handler
<1>6. CASE HandlerDropped(r) \/ DropRecovery(r)
  <2>1. CASE handler[r].pc = "dropping" /\ handler' = [handler EXCEPT ![r].guard = FALSE]
    <3>1. handler'[r].pc = "dropping"
      BY <1>1, <2>1 DEF TypeOK, Handler
    <3> QED BY <3>1 DEF BeforeRow
  <2> QED BY <1>3, <1>6, <2>1 DEF HandlerDropped, DropRecovery
<1>7. CASE RecordAcceptedUse(r) \/ RetryableFailure(r) \/ HealthUpdateFailed(r)
           \/ ConclusiveAnswer(r) \/ BeginPriming(r) \/ StreamEnded(r) \/ NoFailoverLeft(r)
  BY <1>1, <1>7 DEF RecordAcceptedUse, RetryableFailure, HealthUpdateFailed, ConclusiveAnswer,
     BeginPriming, StreamEnded, NoFailoverLeft, Goto, GotoAs, AbandonAs, TypeOK, BeforeRow, Handler
<1>8. CASE InjectedPostFrameFailure(r) \/ HandOffStream(r) \/ StartNextAttempt(r)
           \/ RefuseFixture(r)
  BY <1>1, <1>8 DEF InjectedPostFrameFailure, HandOffStream, StartNextAttempt, RefuseFixture,
     Abandon, AbandonAs, Goto, GotoAs, TypeOK, BeforeRow, Handler
<1>9. CASE FinishWithAttempt(r) \/ FinishWithOpenAttempts(r) \/ ReleasePermitNow(r)
           \/ RetryRelease(r)
  BY <1>1, <1>3, <1>9 DEF FinishWithAttempt, FinishWithOpenAttempts, ReleasePermitNow,
     RetryRelease, Goto, TypeOK, BeforeRow, Handler
<1> QED BY <1>2, <1>4, <1>5, <1>6, <1>7, <1>8, <1>9 DEF HandlerStep, Attempting

LEMMA RowsFollowHandlersStep ==
  ASSUME IInv, [Next]_vars
  PROVE  RowsFollowHandlers'
<1> USE DEF IInv
<1>1. CASE UNCHANGED vars
  BY <1>1 DEF vars, RowsFollowHandlers
<1>2. ASSUME NEW o \in Owner,
             OpenVault(o) \/ WatchdogStep(o) \/ Crash(o) \/ LeaseExpires(o) \/ LoseSession(o)
      PROVE  RowsFollowHandlers'
  <2>1. ASSUME NEW q \in Request
        PROVE  handler'[q] = handler[q] \/ handler'[q].pc = "done"
    <3>1. Ended(handler[q].owner).pc = "done"
      BY DEF Ended, FreshHandler
    <3>2. Die(o) => handler'[q] = handler[q] \/ handler'[q] = Ended(o)
      BY DEF Die
    <3>3. Ended(o).pc = "done"
      BY DEF Ended, FreshHandler
    <3> QED BY <1>2, <3>2, <3>3 DEF OpenVault, WatchdogStep, Crash, LeaseExpires, LoseSession,
               Heartbeat, CleanupStaleAttempts, CleanupStalePermits, CleanupStaleRequests
  <2>2. ASSUME NEW q \in Request, handler'[q].pc \in BeforeRow
        PROVE  row'[q].outcome = "none" /\ attempts'[q] = <<>>
    <3>1. handler[q].pc \in BeforeRow
      BY <2>1, <2>2 DEF BeforeRow
    <3>2. row[q].outcome = "none" /\ attempts[q] = <<>>
      BY <3>1 DEF RowsFollowHandlers
    <3>3. (SameVerdict(q) \/ ClosesNow(q)) /\ Rewritten(q)
      BY <1>2, ProcessEffect
    <3>4. row'[q].outcome = "none"
      BY <3>2, <3>3 DEF SameVerdict, ClosesNow, RowIsOpen
    <3>5. attempts'[q] \in Seq(Attempt) /\ Len(attempts'[q]) = 0
      BY <3>2, <3>3, TypeStep, EmptySeq DEF TypeOK, Rewritten, Next
    <3> QED BY <3>4, <3>5, EmptySeq
  <2> QED BY <2>1, <2>2 DEF RowsFollowHandlers
<1>3. ASSUME NEW r \in Request,
             \/ HandlerStep(r) \/ HandlerDropped(r)
             \/ \E o \in Owner : AdmitAnonymous(r, o) \/ AcquirePermit(r, o)
      PROVE  RowsFollowHandlers'
  <2>1. ASSUME NEW q \in Request, q # r
        PROVE  row'[q] = row[q] /\ attempts'[q] = attempts[q] /\ handler'[q] = handler[q]
    BY <1>3, <2>1, HandlerFrame
  <2>2. /\ handler'[r].pc \in BeforeRow => row'[r].outcome = "none" /\ attempts'[r] = <<>>
        /\ handler'[r].pc = "between" => handler'[r].key \in Key
    BY <1>3, PhaseStep DEF RowsFollowHandlers, BeforeRow
  <2>3. ASSUME NEW q \in Request
        PROVE  /\ handler'[q].pc \in BeforeRow =>
                    row'[q].outcome = "none" /\ attempts'[q] = <<>>
               /\ handler'[q].pc = "between" => handler'[q].key \in Key
    <3>1. CASE q = r
      BY <2>2, <3>1
    <3>2. CASE q # r
      BY <2>1, <3>2 DEF RowsFollowHandlers
    <3> QED BY <3>1, <3>2
  <2> QED BY <2>3 DEF RowsFollowHandlers
<1> QED BY <1>1, <1>2, <1>3 DEF Next

LEMMA StepIInv == IInv /\ [Next]_vars => IInv'
BY TypeStep, RowsFollowHandlersStep DEF IInv

(* Every state of every behaviour is well typed, and no row or attempt is   *)
(* written before the selection transaction of its handler (evidence.rs     *)
(* select_and_start_request).                                               *)
THEOREM TypeCorrect == Spec => [](TypeOK /\ RowsFollowHandlers)
<1>1. Init => IInv
  BY InitIInv
<1>2. IInv /\ [Next]_vars => IInv'
  BY StepIInv
<1>3. IInv => TypeOK /\ RowsFollowHandlers
  BY DEF IInv
<1> QED BY <1>1, <1>2, <1>3, PTL DEF Spec

-----------------------------------------------------------------------------

LEMMA VerdictStep ==
  ASSUME IInv, [Next]_vars, NEW r \in Request
  PROVE  /\ row[r].outcome \in Closed => SameVerdict(r)
         /\ \A i \in DOMAIN attempts[r] :
              /\ i \in DOMAIN attempts'[r]
              /\ attempts[r][i].outcome \in Closed =>
                   attempts'[r][i].outcome = attempts[r][i].outcome
<1> USE DEF IInv
<1>1. Effect(r)
  BY StepEffect
<1>2. CASE (SameVerdict(r) \/ ClosesNow(r)) /\ Rewritten(r)
  BY <1>2 DEF ClosesNow, RowIsOpen, Closed, Rewritten
<1>3. CASE Selected(r)
  <2>1. row[r].outcome = "none" /\ attempts[r] = <<>>
    BY <1>3 DEF Selected, RowsFollowHandlers, BeforeRow
  <2> QED BY <2>1 DEF Closed
<1>4. CASE Appended(r)
  BY <1>4 DEF Appended, RowIsOpen, Closed
<1> QED BY <1>1, <1>2, <1>3, <1>4 DEF Effect

(* No finalizer, Drop task, cleanup or restart ever changes the verdict of  *)
(* a closed row or attempt, whatever answers of the database are lost and   *)
(* however many processes believe they own the vault.                       *)
THEOREM VerdictsNeverChange == Spec => VerdictsAreFinal
<1>1. Init => IInv
  BY InitIInv
<1>2. IInv /\ [Next]_vars => IInv'
  BY StepIInv
<1>3. IInv /\ [Next]_vars =>
        [\A r \in Request :
           /\ row[r].outcome \in Closed =>
                /\ row'[r].outcome = row[r].outcome
                /\ row'[r].class = row[r].class
                /\ row'[r].failovers = row[r].failovers
           /\ \A i \in DOMAIN attempts[r] :
                /\ i \in DOMAIN attempts'[r]
                /\ attempts[r][i].outcome \in Closed =>
                     attempts'[r][i].outcome = attempts[r][i].outcome]_vars
  BY VerdictStep DEF SameVerdict
<1> QED BY <1>1, <1>2, <1>3, PTL DEF Spec, VerdictsAreFinal

-----------------------------------------------------------------------------

LEMMA FailoverCountStep ==
  ASSUME IInv, FailoverCountExact, [Next]_vars, NEW r \in Request,
         row'[r].outcome \in Closed
  PROVE  row'[r].failovers = FailoverCount(r)'
<1> USE DEF IInv
<1>1. Effect(r) /\ attempts[r] \in Seq(Attempt)
  BY StepEffect DEF TypeOK
<1>2. CASE (SameVerdict(r) \/ ClosesNow(r)) /\ Rewritten(r)
  <2>1. FailoverCount(r)' = FailoverCount(r)
    BY <1>2 DEF Rewritten, FailoverCount
  <2> QED BY <1>2, <2>1 DEF SameVerdict, ClosesNow, FailoverCountExact
<1>3. CASE Selected(r)
  <2>1. attempts[r] = <<>>
    BY <1>3 DEF Selected, RowsFollowHandlers, BeforeRow
  <2> QED BY <1>3, <2>1, EmptySeq DEF Selected, FailoverCount, Closed
<1>4. CASE Appended(r)
  BY <1>4 DEF Appended, SameVerdict, RowIsOpen, Closed
<1> QED BY <1>1, <1>2, <1>3, <1>4 DEF Effect

(* failover_count of a closed row is the number of its attempts after the   *)
(* first: no interleaving of failover, finalizers and cleanups adds an      *)
(* attempt to a closed row.                                                 *)
THEOREM FailoverCountCorrect == Spec => []FailoverCountExact
<1>1. Init => IInv /\ FailoverCountExact
  BY InitIInv DEF Init, FailoverCountExact, Closed
<1>2. IInv /\ FailoverCountExact /\ [Next]_vars => IInv' /\ FailoverCountExact'
  BY StepIInv, FailoverCountStep DEF FailoverCountExact
<1> QED BY <1>1, <1>2, PTL DEF Spec

-----------------------------------------------------------------------------
(* The strengthening behind the remaining invariants: what the attempts and *)
(* the row of a request owe to the phase, key and class of its handler.     *)

KeyedPhases == {"started", "trying", "priming", "streaming", "retry", "finishing"}
FramelessPhases == {"granted", "started", "trying", "priming", "retry", "between"}
OpenPhases == Serving \cup {"dropping"}

Answered(r) == \E i \in DOMAIN attempts[r] : attempts[r][i].response_started
Succeeded(r) == \E i \in DOMAIN attempts[r] : attempts[r][i].outcome = "succeeded"

(* The open attempt is the last one, the handler's own, for the key it calls. *)
AttemptsFollow(r) ==
  /\ \A i \in OpenAttempts(r) :
       /\ i = Len(attempts[r])
       /\ attempts[r][i].owner = handler[r].owner
       /\ handler[r].pc \in KeyedPhases => attempts[r][i].key = handler[r].key
  /\ handler[r].pc = "between" =>
       /\ OpenAttempts(r) = {}
       /\ Len(attempts[r]) < MaxUpstreamKeys
       /\ \A i \in DOMAIN attempts[r] : attempts[r][i].key # handler[r].key
  /\ Len(attempts[r]) <= MaxUpstreamKeys
  /\ \A i, j \in DOMAIN attempts[r] : attempts[r][i].key = attempts[r][j].key => i = j

(* Nothing is answered before the first frame, and the armed class knows it. *)
FramesFollow(r) ==
  /\ handler[r].pc \in FramelessPhases => ~handler[r].ttfb /\ ~Answered(r)
  /\ \A i \in DOMAIN attempts[r] : attempts[r][i].response_started => i = Len(attempts[r])
  /\ handler[r].class = "downstream_cancelled" => Answered(r)
  /\ handler[r].class = "handler_abandoned" /\ handler[r].pc \in OpenPhases =>
       ~handler[r].ttfb /\ (Answered(r) => r \in FixturedRequests)

RowFollows(r) ==
  /\ row[r].outcome = "succeeded" <=> Succeeded(r)
  /\ /\ row[r].outcome \in {"succeeded", "failed", "cancelled"}
     /\ row[r].class # "qa_fixture_contract_error"
     => OpenAttempts(r) = {}
  /\ row[r].outcome = "cancelled" <=> row[r].class = "downstream_cancelled"
  /\ row[r].outcome = "cancelled" => Answered(r)
  /\ row[r].class = "handler_abandoned" =>
       row[r].outcome = "failed" /\ (Answered(r) => r \in FixturedRequests)

Follows(r) == AttemptsFollow(r) /\ FramesFollow(r) /\ RowFollows(r)

(* A handler that moves on: it keeps its owner and the key it is calling,   *)
(* and goes back neither before the first frame nor to another armed class. *)
HandlerMoves(r) ==
  /\ handler'[r].owner = handler[r].owner
  /\ handler'[r].pc \in KeyedPhases \cup {"between"} =>
       /\ handler'[r].key = handler[r].key
       /\ handler[r].pc \in KeyedPhases \cup {"between"}
       /\ handler[r].pc = "between" <=> handler'[r].pc = "between"
  /\ handler'[r].pc \in FramelessPhases =>
       handler[r].pc \in FramelessPhases /\ handler'[r].ttfb = handler[r].ttfb
  /\ handler'[r].class = "downstream_cancelled" => handler[r].class = "downstream_cancelled"
  /\ handler'[r].class = "handler_abandoned" /\ handler'[r].pc \in OpenPhases =>
       /\ handler[r].class = "handler_abandoned" /\ handler[r].pc \in OpenPhases
       /\ handler'[r].ttfb = handler[r].ttfb

(* A statement that closes attempts: it opens none and answers none. *)
AttemptsSettle(r) ==
  /\ Len(attempts'[r]) = Len(attempts[r])
  /\ DOMAIN attempts'[r] = DOMAIN attempts[r]
  /\ \A i \in DOMAIN attempts[r] :
       /\ attempts'[r][i].key = attempts[r][i].key
       /\ attempts'[r][i].response_started = attempts[r][i].response_started
       /\ attempts'[r][i].outcome = "started" =>
            /\ attempts[r][i].outcome = "started"
            /\ attempts'[r][i].owner = attempts[r][i].owner

LEMMA SettlingFollows ==
  ASSUME TypeOK, NEW r \in Request, AttemptsFollow(r), FramesFollow(r),
         HandlerMoves(r), AttemptsSettle(r)
  PROVE  AttemptsFollow(r)' /\ FramesFollow(r)'
<1>1. OpenAttempts(r)' \subseteq OpenAttempts(r)
  BY DEF AttemptsSettle, OpenAttempts
<1>2. Answered(r)' <=> Answered(r)
  BY DEF AttemptsSettle, Answered
<1>3. AttemptsFollow(r)'
  <2>1. ASSUME NEW i \in OpenAttempts(r)'
        PROVE  /\ i = Len(attempts'[r])
               /\ attempts'[r][i].owner = handler'[r].owner
               /\ handler'[r].pc \in KeyedPhases => attempts'[r][i].key = handler'[r].key
    BY <1>1, <2>1 DEF AttemptsFollow, HandlerMoves, AttemptsSettle, OpenAttempts, KeyedPhases
  <2>2. handler'[r].pc = "between" =>
          /\ OpenAttempts(r)' = {}
          /\ Len(attempts'[r]) < MaxUpstreamKeys
          /\ \A i \in DOMAIN attempts'[r] : attempts'[r][i].key # handler'[r].key
    BY <1>1 DEF AttemptsFollow, HandlerMoves, AttemptsSettle
  <2>3. /\ Len(attempts'[r]) <= MaxUpstreamKeys
        /\ \A i, j \in DOMAIN attempts'[r] : attempts'[r][i].key = attempts'[r][j].key => i = j
    BY DEF AttemptsFollow, AttemptsSettle
  <2> QED BY <2>1, <2>2, <2>3 DEF AttemptsFollow
<1>4. \A i \in DOMAIN attempts'[r] : attempts'[r][i].response_started => i = Len(attempts'[r])
  BY DEF FramesFollow, AttemptsSettle
<1>5. FramesFollow(r)'
  BY <1>2, <1>4 DEF FramesFollow, HandlerMoves
<1> QED BY <1>3, <1>5

LEMMA SameVerdictFollows ==
  ASSUME TypeOK, NEW r \in Request, RowFollows(r), AttemptsSettle(r), SameVerdict(r),
         Succeeded(r)' <=> Succeeded(r)
  PROVE  RowFollows(r)'
<1>1. OpenAttempts(r)' \subseteq OpenAttempts(r) /\ (Answered(r)' <=> Answered(r))
  BY DEF AttemptsSettle, OpenAttempts, Answered
<1> QED BY <1>1 DEF RowFollows, SameVerdict

LEMMA UnchangedSettle ==
  ASSUME NEW r \in Request, attempts'[r] = attempts[r]
  PROVE  AttemptsSettle(r) /\ (Succeeded(r)' <=> Succeeded(r))
BY DEF AttemptsSettle, Succeeded

LEMMA MovesFollow ==
  ASSUME TypeOK, NEW r \in Request, Follows(r), HandlerMoves(r),
         row'[r] = row[r], attempts'[r] = attempts[r]
  PROVE  Follows(r)'
<1>1. AttemptsSettle(r) /\ SameVerdict(r) /\ (Succeeded(r)' <=> Succeeded(r))
  BY UnchangedSettle DEF SameVerdict
<1> QED BY <1>1, SettlingFollows, SameVerdictFollows DEF Follows

(* The ways a handler stops: the tasks it leaves behind are outside the     *)
(* open phases or only close what is open.                                  *)
LEMMA StoppingMoves ==
  ASSUME TypeOK, NEW r \in Request, handler[r].pc \in OpenPhases \cup Winding \cup {"granted"},
         \/ End(r) \/ LeavePermit(r)
         \/ handler[r].pc \in OpenPhases /\ (Abandon(r) \/ Unsettled(r))
         \/ handler[r].pc \in OpenPhases /\ AbandonAs(r, "evidence_unavailable")
         \/ Goto(r, "releasing") \/ Goto(r, "release_retry")
  PROVE  HandlerMoves(r)
<1>1. handler \in [Request -> Handler] /\ handler[r] \in Handler
  BY DEF TypeOK
<1>2. Ended(handler[r].owner).owner = handler[r].owner /\ Ended(handler[r].owner).pc = "done"
      /\ Ended(handler[r].owner).class = "handler_abandoned"
  BY DEF Ended, FreshHandler
<1>3. ASSUME handler'[r] = Ended(handler[r].owner) PROVE HandlerMoves(r)
  BY <1>2, <1>3 DEF HandlerMoves, KeyedPhases, FramelessPhases, OpenPhases, Serving
<1>4. CASE End(r)
  BY <1>1, <1>3, <1>4 DEF End
<1>5. CASE LeavePermit(r)
  <2>1. CASE handler'[r] = [FreshHandler(handler[r].owner) EXCEPT
                              !.pc = "release_retry", !.permit = TRUE]
    <3>1. /\ handler'[r].owner = handler[r].owner /\ handler'[r].pc = "release_retry"
          /\ handler'[r].class = "handler_abandoned"
      BY <2>1 DEF FreshHandler
    <3> QED BY <3>1 DEF HandlerMoves, KeyedPhases, FramelessPhases, OpenPhases, Serving
  <2> QED BY <1>1, <1>4, <1>5, <2>1 DEF LeavePermit
<1>6. CASE handler[r].pc \in OpenPhases /\ (Abandon(r) \/ Unsettled(r))
  <2>1. /\ handler'[r].owner = handler[r].owner /\ handler'[r].pc \in {"dropping", "closing"}
        /\ handler'[r].ttfb = handler[r].ttfb
        /\ handler'[r].class \in {handler[r].class, "evidence_unavailable"}
    BY <1>1, <1>6 DEF Abandon, Unsettled, Goto, GotoAs, Handler
  <2> QED BY <1>6, <2>1 DEF HandlerMoves, KeyedPhases, FramelessPhases
<1>7. CASE handler[r].pc \in OpenPhases /\ AbandonAs(r, "evidence_unavailable")
  <2>1. /\ handler'[r].owner = handler[r].owner /\ handler'[r].pc = "dropping"
        /\ handler'[r].class = "evidence_unavailable"
    BY <1>1, <1>7 DEF AbandonAs, GotoAs, Handler
  <2> QED BY <2>1 DEF HandlerMoves, KeyedPhases, FramelessPhases
<1>8. CASE Goto(r, "releasing") \/ Goto(r, "release_retry")
  <2>1. /\ handler'[r].owner = handler[r].owner /\ handler'[r].pc \in {"releasing", "release_retry"}
        /\ handler'[r].class = handler[r].class
    BY <1>1, <1>8 DEF Goto, Handler
  <2> QED BY <2>1 DEF HandlerMoves, KeyedPhases, FramelessPhases, OpenPhases, Serving
<1> QED BY <1>4, <1>5, <1>6, <1>7, <1>8

(* The actions that write no table but the permit. *)
LEMMA HandlerOnlyFollows ==
  ASSUME TypeOK, NEW r \in Request, Follows(r),
         \/ RecordAcceptedUse(r) \/ RetryableFailure(r) \/ HealthUpdateFailed(r)
         \/ ConclusiveAnswer(r) \/ BeginPriming(r) \/ StreamEnded(r) \/ NoFailoverLeft(r)
         \/ HandlerDropped(r) \/ ReleasePermitNow(r) \/ RetryRelease(r)
  PROVE  Follows(r)'
<1>1. handler \in [Request -> Handler] /\ handler[r] \in Handler
  BY DEF TypeOK
<1>2. row'[r] = row[r] /\ attempts'[r] = attempts[r]
  BY DEF RecordAcceptedUse, RetryableFailure, HealthUpdateFailed, ConclusiveAnswer, BeginPriming,
     StreamEnded, NoFailoverLeft, HandlerDropped, ReleasePermitNow, RetryRelease, tables
<1> SUFFICES HandlerMoves(r)
  BY <1>2, MovesFollow
<1>3. CASE RecordAcceptedUse(r)
  BY <1>1, <1>3 DEF RecordAcceptedUse, Goto, GotoAs, Handler, HandlerMoves, KeyedPhases,
     FramelessPhases, OpenPhases, Serving
<1>4. CASE RetryableFailure(r)
  BY <1>1, <1>4 DEF RetryableFailure, Handler, HandlerMoves, KeyedPhases, FramelessPhases
<1>5. CASE ConclusiveAnswer(r)
  BY <1>1, <1>5 DEF ConclusiveAnswer, Handler, HandlerMoves, KeyedPhases, FramelessPhases
<1>6. CASE BeginPriming(r)
  BY <1>1, <1>6 DEF BeginPriming, Handler, HandlerMoves, KeyedPhases, FramelessPhases,
     OpenPhases, Serving
<1>7. CASE StreamEnded(r) \/ NoFailoverLeft(r)
  BY <1>1, <1>7 DEF StreamEnded, NoFailoverLeft, Handler, HandlerMoves, KeyedPhases,
     FramelessPhases, OpenPhases, Serving
<1>8. CASE HealthUpdateFailed(r)
  BY <1>8, StoppingMoves DEF HealthUpdateFailed, OpenPhases, Serving
<1>9. CASE HandlerDropped(r)
  BY <1>9, StoppingMoves DEF HandlerDropped, OpenPhases, Winding
<1>10. CASE ReleasePermitNow(r) \/ RetryRelease(r)
  BY <1>10, StoppingMoves DEF ReleasePermitNow, RetryRelease, Winding
<1> QED BY <1>3, <1>4, <1>5, <1>6, <1>7, <1>8, <1>9, <1>10

LEMMA AdmissionFollows ==
  ASSUME TypeOK, NEW r \in Request, NEW o \in Owner, RowsFollowHandlers, Follows(r),
         AdmitAnonymous(r, o) \/ AcquirePermit(r, o)
  PROVE  Follows(r)'
<1>1. handler \in [Request -> Handler] /\ attempts[r] = <<>> /\ row[r].outcome = "none"
  BY DEF TypeOK, RowsFollowHandlers, BeforeRow, AdmitAnonymous, AcquirePermit
<1>2. row'[r] = row[r] /\ attempts'[r] = attempts[r]
  BY DEF AdmitAnonymous, AcquirePermit, tables
<1>3. /\ handler'[r].pc \in {"granted", "done"} /\ handler'[r].class = "handler_abandoned"
      /\ ~handler'[r].ttfb
  <2>1. handler'[r] \in {FreshHandler(o), Ended(o), [FreshHandler(o) EXCEPT !.permit = TRUE]}
    BY <1>1 DEF AdmitAnonymous, AcquirePermit
  <2> QED BY <2>1 DEF FreshHandler, Ended
<1>4. DOMAIN attempts'[r] = {} /\ Len(attempts'[r]) = 0
  BY <1>1, <1>2
<1>5. OpenAttempts(r)' = {} /\ ~Answered(r)' /\ ~Succeeded(r)'
  BY <1>4 DEF OpenAttempts, Answered, Succeeded
<1>6. AttemptsFollow(r)'
  BY <1>3, <1>4, <1>5, LedgerAssumption DEF AttemptsFollow
<1>7. FramesFollow(r)'
  BY <1>3, <1>4, <1>5 DEF FramesFollow
<1>8. RowFollows(r)'
  BY <1>1, <1>2, <1>5 DEF RowFollows, Follows, Answered, Succeeded
<1> QED BY <1>6, <1>7, <1>8 DEF Follows

LEMMA SelectAndStartFollows ==
  ASSUME TypeOK, NEW r \in Request, RowsFollowHandlers, Follows(r), SelectAndStart(r)
  PROVE  Follows(r)'
<1>1. /\ handler \in [Request -> Handler] /\ handler[r] \in Handler
      /\ handler[r].pc = "granted" /\ attempts[r] = <<>> /\ row[r].outcome = "none"
  BY DEF TypeOK, RowsFollowHandlers, BeforeRow, SelectAndStart
<1>2. DOMAIN attempts[r] = {} /\ Len(attempts[r]) = 0
  BY <1>1
<1>3. OpenAttempts(r) = {} /\ ~Answered(r) /\ ~Succeeded(r)
  BY <1>2 DEF OpenAttempts, Answered, Succeeded
<1>4. ~handler[r].ttfb /\ handler[r].class # "downstream_cancelled"
  BY <1>1, <1>3 DEF Follows, FramesFollow, FramelessPhases
<1>5. LeavePermit(r) => HandlerMoves(r)
  BY <1>1, StoppingMoves
<1>6. CASE row' = row /\ attempts' = attempts /\ LeavePermit(r)
  BY <1>5, <1>6, MovesFollow
<1>7. CASE /\ row' = [row EXCEPT ![r] = [outcome |-> "failed", class |-> "reported",
                                         failovers |-> 0, owner |-> handler[r].owner]]
           /\ LeavePermit(r) /\ attempts' = attempts
  <2>1. AttemptsSettle(r) /\ (Succeeded(r)' <=> Succeeded(r))
    BY <1>7, UnchangedSettle
  <2>2. AttemptsFollow(r)' /\ FramesFollow(r)'
    BY <1>5, <1>7, <2>1, SettlingFollows DEF Follows
  <2>3. row'[r].outcome = "failed" /\ row'[r].class = "reported"
    BY <1>7 DEF TypeOK
  <2>4. OpenAttempts(r)' = {}
    BY <1>3, <2>1 DEF AttemptsSettle, OpenAttempts
  <2>5. RowFollows(r)'
    BY <1>3, <2>1, <2>3, <2>4 DEF RowFollows
  <2> QED BY <2>2, <2>5 DEF Follows
<1>8. ASSUME NEW k \in Key,
             row' = [row EXCEPT ![r] = [outcome |-> "started", class |-> "none",
                                        failovers |-> 0, owner |-> handler[r].owner]],
             attempts' = [attempts EXCEPT ![r] = <<NewAttempt(k, handler[r].owner)>>],
             \/ handler' = [handler EXCEPT ![r].pc = "started", ![r].key = k]
             \/ LeavePermit(r)
      PROVE  Follows(r)'
  <2> DEFINE a == NewAttempt(k, handler[r].owner)
  <2>1. attempts'[r] = <<a>>
    BY <1>8 DEF TypeOK
  <2>2. /\ a.key = k /\ a.outcome = "started" /\ ~a.response_started
        /\ a.owner = handler[r].owner
    BY DEF NewAttempt
  <2> HIDE DEF a
  <2>3. DOMAIN attempts'[r] = {1} /\ Len(attempts'[r]) = 1 /\ attempts'[r][1] = a
    BY <2>1
  <2>4. /\ handler'[r].owner = handler[r].owner
        /\ handler'[r].class # "downstream_cancelled"
        /\ \/ handler'[r].pc = "started" /\ handler'[r].key = k /\ ~handler'[r].ttfb
           \/ handler'[r].pc \in {"done", "release_retry"}
    <3>1. CASE LeavePermit(r)
      <4>1. handler'[r] \in {Ended(handler[r].owner),
                             [FreshHandler(handler[r].owner) EXCEPT
                                !.pc = "release_retry", !.permit = TRUE]}
        BY <1>1, <3>1 DEF LeavePermit, End
      <4> QED BY <4>1 DEF Ended, FreshHandler
    <3>2. CASE handler' = [handler EXCEPT ![r].pc = "started", ![r].key = k]
      BY <1>1, <1>4, <3>2 DEF Handler
    <3> QED BY <1>8, <3>1, <3>2
  <2>5. ~Answered(r)' /\ ~Succeeded(r)'
    BY <2>2, <2>3 DEF Answered, Succeeded
  <2>6. AttemptsFollow(r)'
    BY <2>2, <2>3, <2>4, LedgerAssumption DEF AttemptsFollow, OpenAttempts, KeyedPhases
  <2>7. FramesFollow(r)'
    BY <1>4, <2>2, <2>3, <2>4, <2>5 DEF FramesFollow, OpenPhases, FramelessPhases, Serving
  <2>8. row'[r].outcome = "started" /\ row'[r].class = "none"
    BY <1>8 DEF TypeOK
  <2>9. RowFollows(r)'
    BY <2>5, <2>8 DEF RowFollows
  <2> QED BY <2>6, <2>7, <2>9 DEF Follows
<1> QED BY <1>6, <1>7, <1>8 DEF SelectAndStart

LEMMA MarkFields ==
  ASSUME TypeOK, NEW r \in Request, MarkResponseStarted(r)
  PROVE  /\ Len(attempts'[r]) = Len(attempts[r])
         /\ DOMAIN attempts'[r] = DOMAIN attempts[r]
         /\ \A i \in DOMAIN attempts[r] :
              /\ attempts'[r][i].key = attempts[r][i].key
              /\ attempts'[r][i].owner = attempts[r][i].owner
              /\ attempts'[r][i].outcome = attempts[r][i].outcome
              /\ attempts'[r][i].response_started <=>
                   attempts[r][i].response_started \/ i \in CurrentAttempt(r)
<1> DEFINE f == [i \in DOMAIN attempts[r] |->
                   IF i \in CurrentAttempt(r)
                     THEN [attempts[r][i] EXCEPT !.response_started = TRUE]
                     ELSE attempts[r][i]]
<1>1. attempts[r] \in Seq(Attempt) /\ \A i \in DOMAIN attempts[r] : attempts[r][i] \in Attempt
  BY DEF TypeOK
<1>2. f \in [DOMAIN attempts[r] -> Attempt]
  BY <1>1 DEF Attempt
<1>3. Len(f) = Len(attempts[r]) /\ DOMAIN f = DOMAIN attempts[r]
  BY <1>1, <1>2, RewriteInPlace
<1>4. attempts'[r] = f
  BY DEF MarkResponseStarted, TypeOK
<1>5. ASSUME NEW i \in DOMAIN attempts[r]
      PROVE  /\ f[i].key = attempts[r][i].key
             /\ f[i].owner = attempts[r][i].owner
             /\ f[i].outcome = attempts[r][i].outcome
             /\ f[i].response_started <=>
                  attempts[r][i].response_started \/ i \in CurrentAttempt(r)
  <2>1. attempts[r][i] \in Attempt
    BY <1>1
  <2>2. CASE i \in CurrentAttempt(r)
    BY <2>1, <2>2 DEF Attempt
  <2>3. CASE i \notin CurrentAttempt(r)
    BY <2>1, <2>3 DEF Attempt
  <2> QED BY <2>2, <2>3
<1> HIDE DEF f
<1> QED BY <1>3, <1>4, <1>5

(* Recording the first frame: the open attempt is the last, and the handler *)
(* leaves the phases in which nothing was answered.                         *)
LEMMA MarkFollows ==
  ASSUME TypeOK, NEW r \in Request, Follows(r), CurrentAttempt(r) # {},
         MarkResponseStarted(r), row'[r] = row[r], handler[r].pc \in KeyedPhases,
         handler'[r].owner = handler[r].owner, handler'[r].key = handler[r].key,
         handler'[r].pc \in {"streaming", "finishing", "dropping"},
         handler'[r].class = "handler_abandoned" =>
            ~handler'[r].ttfb /\ r \in FixturedRequests
  PROVE  Follows(r)'
<1>1. OpenAttempts(r)' = OpenAttempts(r) /\ (Succeeded(r)' <=> Succeeded(r))
  BY MarkFields DEF OpenAttempts, Succeeded
<1>2. CurrentAttempt(r) \subseteq OpenAttempts(r) /\ OpenAttempts(r) # {}
  BY DEF CurrentAttempt, OwnOpenAttempts
<1>3. Answered(r)'
  BY <1>2, MarkFields DEF Answered, OpenAttempts
<1>4. AttemptsFollow(r)'
  <2>1. ASSUME NEW i \in OpenAttempts(r)'
        PROVE  /\ i = Len(attempts'[r])
               /\ attempts'[r][i].owner = handler'[r].owner
               /\ attempts'[r][i].key = handler'[r].key
    BY <1>1, <2>1, MarkFields DEF Follows, AttemptsFollow, OpenAttempts
  <2>2. /\ Len(attempts'[r]) <= MaxUpstreamKeys
        /\ \A i, j \in DOMAIN attempts'[r] : attempts'[r][i].key = attempts'[r][j].key => i = j
    BY MarkFields DEF Follows, AttemptsFollow
  <2> QED BY <2>1, <2>2 DEF AttemptsFollow
<1>5. \A i \in DOMAIN attempts'[r] : attempts'[r][i].response_started => i = Len(attempts'[r])
  BY <1>2, MarkFields DEF Follows, FramesFollow, AttemptsFollow
<1>6. FramesFollow(r)'
  BY <1>3, <1>5 DEF FramesFollow, FramelessPhases
<1>7. row[r].class # "handler_abandoned"
  BY <1>2 DEF Follows, RowFollows
<1>8. RowFollows(r)'
  BY <1>1, <1>3, <1>7 DEF Follows, RowFollows
<1> QED BY <1>4, <1>6, <1>8 DEF Follows

LEMMA FirstFrameFollows ==
  ASSUME TypeOK, NEW r \in Request, Follows(r),
         HandOffStream(r) \/ InjectedPostFrameFailure(r)
  PROVE  Follows(r)'
<1>1. handler \in [Request -> Handler] /\ handler[r] \in Handler
  BY DEF TypeOK
<1>2. row'[r] = row[r] /\ handler[r].pc \in {"priming", "trying"}
  BY DEF HandOffStream, InjectedPostFrameFailure
<1>3. handler[r].pc \in KeyedPhases /\ handler[r].pc \in FramelessPhases
      /\ handler[r].pc \in OpenPhases /\ ~handler[r].ttfb
  BY <1>2 DEF KeyedPhases, FramelessPhases, OpenPhases, Serving, Follows, FramesFollow
<1>4. CASE HandOffStream(r)
  <2>1. /\ handler'[r].owner = handler[r].owner /\ handler'[r].key = handler[r].key
        /\ \/ handler'[r].pc = "streaming" /\ handler'[r].class = "downstream_cancelled"
           \/ handler'[r].pc = "dropping" /\ handler'[r].class = "evidence_unavailable"
    BY <1>1, <1>4 DEF HandOffStream, Handler
  <2>2. CASE CurrentAttempt(r) # {} /\ MarkResponseStarted(r)
    BY <1>2, <1>3, <2>1, <2>2, MarkFollows
  <2>3. CASE handler'[r].pc = "dropping" /\ handler'[r].class = "evidence_unavailable"
             /\ attempts' = attempts
    <3>1. HandlerMoves(r)
      BY <2>1, <2>3 DEF HandlerMoves, KeyedPhases, FramelessPhases
    <3> QED BY <1>2, <2>3, <3>1, MovesFollow
  <2>4. \/ CurrentAttempt(r) # {} /\ MarkResponseStarted(r)
        \/ attempts' = attempts
           /\ handler' = [handler EXCEPT ![r].pc = "dropping",
                                         ![r].class = "evidence_unavailable", ![r].ttfb = TRUE]
    BY <1>4 DEF HandOffStream
  <2>5. attempts' = attempts
           /\ handler' = [handler EXCEPT ![r].pc = "dropping",
                                         ![r].class = "evidence_unavailable", ![r].ttfb = TRUE]
        => handler'[r].pc = "dropping" /\ handler'[r].class = "evidence_unavailable"
    BY <1>1 DEF Handler
  <2> QED BY <2>2, <2>3, <2>4, <2>5
<1>5. CASE InjectedPostFrameFailure(r)
  <2>1. CASE /\ CurrentAttempt(r) # {} /\ MarkResponseStarted(r)
             /\ GotoAs(r, "finishing", "evidence_unavailable") \/ Abandon(r)
    <3>1. /\ handler'[r].owner = handler[r].owner /\ handler'[r].key = handler[r].key
          /\ handler'[r].pc \in {"finishing", "dropping"}
          /\ handler'[r].ttfb = handler[r].ttfb
      BY <1>1, <2>1 DEF GotoAs, Abandon, Goto, Handler
    <3> QED BY <1>2, <1>3, <1>5, <2>1, <3>1, MarkFollows DEF InjectedPostFrameFailure
  <2>2. CASE Abandon(r) /\ attempts' = attempts
    BY <1>2, <1>3, <2>2, StoppingMoves, MovesFollow
  <2> QED BY <1>5, <2>1, <2>2 DEF InjectedPostFrameFailure
<1> QED BY <1>4, <1>5

LEMMA CurrentIsOpen ==
  ASSUME NEW r \in Request, AttemptsFollow(r), CurrentAttempt(r) # {}
  PROVE  CurrentAttempt(r) = OpenAttempts(r)
BY DEF AttemptsFollow, CurrentAttempt, OwnOpenAttempts

LEMMA OwnAreOpen ==
  ASSUME NEW r \in Request, AttemptsFollow(r)
  PROVE  OwnOpenAttempts(r) = OpenAttempts(r)
BY DEF AttemptsFollow, OwnOpenAttempts, OpenAttempts

LEMMA CloseFields ==
  ASSUME TypeOK, NEW r \in Request, NEW I, NEW outcome \in Closed, CloseAttempts(r, I, outcome)
  PROVE  /\ AttemptsSettle(r)
         /\ \A i \in DOMAIN attempts[r] :
              attempts'[r][i].outcome = IF i \in I THEN outcome ELSE attempts[r][i].outcome
<1> DEFINE s == WithOutcome(attempts[r], I, outcome)
<1>1. attempts[r] \in Seq(Attempt) /\ \A i \in DOMAIN attempts[r] : attempts[r][i] \in Attempt
  BY DEF TypeOK
<1>2. Len(s) = Len(attempts[r]) /\ DOMAIN s = DOMAIN attempts[r]
  BY <1>1, WithOutcomeType
<1>3. attempts'[r] = s
  BY DEF CloseAttempts, TypeOK
<1>4. ASSUME NEW i \in DOMAIN attempts[r]
      PROVE  /\ s[i].key = attempts[r][i].key
             /\ s[i].owner = attempts[r][i].owner
             /\ s[i].response_started = attempts[r][i].response_started
             /\ s[i].outcome = IF i \in I THEN outcome ELSE attempts[r][i].outcome
  <2>1. attempts[r][i] \in Attempt
    BY <1>1
  <2>2. s[i] = IF i \in I THEN [attempts[r][i] EXCEPT !.outcome = outcome] ELSE attempts[r][i]
    BY DEF WithOutcome
  <2> HIDE DEF s
  <2>3. CASE i \in I
    BY <2>1, <2>2, <2>3 DEF Attempt
  <2>4. CASE i \notin I
    BY <2>1, <2>2, <2>4 DEF Attempt
  <2> QED BY <2>3, <2>4
<1>5. outcome # "started"
  BY DEF Closed
<1> HIDE DEF s
<1> QED BY <1>2, <1>3, <1>4, <1>5 DEF AttemptsSettle

LEMMA RefuseFixtureFollows ==
  ASSUME TypeOK, NEW r \in Request, Follows(r), RefuseFixture(r)
  PROVE  Follows(r)'
<1>1. attempts'[r] = attempts[r] /\ handler[r].pc \in OpenPhases
  BY DEF RefuseFixture, OpenPhases, Serving
<1>2. HandlerMoves(r)
  BY <1>1, StoppingMoves DEF RefuseFixture
<1>3. AttemptsSettle(r) /\ (Succeeded(r)' <=> Succeeded(r))
  BY <1>1, UnchangedSettle
<1>4. AttemptsFollow(r)' /\ FramesFollow(r)'
  BY <1>2, <1>3, SettlingFollows DEF Follows
<1>5. CASE RowIsOpen(r) /\ CloseRow(r, "failed", "qa_fixture_contract_error")
  <2>1. row'[r].outcome = "failed" /\ row'[r].class = "qa_fixture_contract_error"
    BY <1>5 DEF CloseRow, TypeOK
  <2>2. ~Succeeded(r)
    BY <1>5 DEF RowIsOpen, Follows, RowFollows
  <2>3. RowFollows(r)'
    BY <1>3, <2>1, <2>2 DEF RowFollows
  <2> QED BY <1>4, <2>3 DEF Follows
<1>6. CASE row' = row
  BY <1>1, <1>2, <1>6, MovesFollow
<1> QED BY <1>5, <1>6 DEF RefuseFixture

LEMMA FailOverFollows ==
  ASSUME TypeOK, NEW r \in Request, Follows(r), FailOver(r)
  PROVE  Follows(r)'
<1>1. handler \in [Request -> Handler] /\ handler[r] \in Handler /\ attempts[r] \in Seq(Attempt)
  BY DEF TypeOK
<1>2. /\ row'[r] = row[r] /\ handler[r].pc = "retry"
      /\ handler[r].pc \in OpenPhases /\ Len(attempts[r]) < MaxUpstreamKeys
  BY DEF FailOver, OpenPhases, Serving
<1>3. Abandon(r) => HandlerMoves(r)
  BY <1>2, StoppingMoves
<1>4. CASE attempts' = attempts /\ Abandon(r)
  BY <1>2, <1>3, <1>4, MovesFollow
<1>5. ASSUME NEW k \in Key \ TriedKeys(r),
             CurrentAttempt(r) # {}, CloseAttempts(r, CurrentAttempt(r), "failed"),
             \/ handler' = [handler EXCEPT ![r].pc = "between", ![r].key = k]
             \/ Abandon(r)
      PROVE  Follows(r)'
  <2>1. CurrentAttempt(r) = OpenAttempts(r)
    BY <1>5, CurrentIsOpen DEF Follows
  <2>2. /\ AttemptsSettle(r)
        /\ \A i \in DOMAIN attempts[r] :
             attempts'[r][i].outcome =
               IF i \in OpenAttempts(r) THEN "failed" ELSE attempts[r][i].outcome
    BY <1>5, <2>1, CloseFields DEF Closed
  <2>3. OpenAttempts(r)' = {} /\ (Succeeded(r)' <=> Succeeded(r))
        /\ (Answered(r)' <=> Answered(r))
    BY <2>2 DEF AttemptsSettle, OpenAttempts, Succeeded, Answered
  <2>4. RowFollows(r)'
    BY <1>2, <2>2, <2>3, SameVerdictFollows DEF Follows, SameVerdict
  <2>5. CASE Abandon(r)
    BY <1>3, <2>2, <2>4, <2>5, SettlingFollows DEF Follows
  <2>6. CASE handler' = [handler EXCEPT ![r].pc = "between", ![r].key = k]
    <3>1. /\ handler'[r].pc = "between" /\ handler'[r].key = k
          /\ handler'[r].ttfb = handler[r].ttfb /\ handler'[r].class = handler[r].class
      BY <1>1, <2>6 DEF Handler
    <3>2. \A i \in DOMAIN attempts'[r] : attempts'[r][i].key # k
      BY <1>5, <2>2 DEF TriedKeys, AttemptsSettle
    <3>3. AttemptsFollow(r)'
      BY <1>2, <2>2, <2>3, <3>1, <3>2 DEF AttemptsFollow, AttemptsSettle, Follows
    <3>4. ~handler[r].ttfb /\ ~Answered(r) /\ handler[r].class # "downstream_cancelled"
      BY <1>2 DEF Follows, FramesFollow, FramelessPhases
    <3>5. FramesFollow(r)'
      BY <2>3, <3>1, <3>4 DEF FramesFollow, Answered
    <3> QED BY <2>4, <3>3, <3>5 DEF Follows
  <2> QED BY <1>5, <2>5, <2>6
<1> QED BY <1>4, <1>5 DEF FailOver

LEMMA StartNextAttemptFollows ==
  ASSUME TypeOK, NEW r \in Request, RowsFollowHandlers, Follows(r), StartNextAttempt(r)
  PROVE  Follows(r)'
<1> DEFINE a == NewAttempt(handler[r].key, handler[r].owner)
           n == Len(attempts[r])
<1>1. handler \in [Request -> Handler] /\ handler[r] \in Handler /\ attempts[r] \in Seq(Attempt)
      /\ n \in Nat /\ DOMAIN attempts[r] = 1 .. n
  BY DEF TypeOK
<1>2. row'[r] = row[r] /\ handler[r].pc = "between" /\ handler[r].pc \in OpenPhases
  BY DEF StartNextAttempt, OpenPhases, Serving
<1>3. CASE attempts' = attempts /\ Abandon(r)
  BY <1>2, <1>3, StoppingMoves, MovesFollow
<1>4. CASE /\ MayInsertAttempt(r)
           /\ attempts' = [attempts EXCEPT ![r] = Append(@, a)]
           /\ GotoAs(r, "trying", "handler_abandoned") \/ Abandon(r)
  <2>1. /\ a.key = handler[r].key /\ a.outcome = "started" /\ ~a.response_started
        /\ a.owner = handler[r].owner
    BY DEF NewAttempt
  <2>2. attempts'[r] = Append(attempts[r], a)
    BY <1>4 DEF TypeOK
  <2> HIDE DEF a
  <2>3. /\ DOMAIN attempts'[r] = 1 .. (n + 1) /\ Len(attempts'[r]) = n + 1
        /\ attempts'[r][n + 1] = a
        /\ \A i \in 1 .. n : attempts'[r][i] = attempts[r][i]
    BY <1>1, <2>2
  <2>4. /\ OpenAttempts(r) = {} /\ n < MaxUpstreamKeys
        /\ \A i \in DOMAIN attempts[r] : attempts[r][i].key # handler[r].key
    BY <1>2 DEF Follows, AttemptsFollow
  <2>5. ~handler[r].ttfb /\ ~Answered(r) /\ handler[r].class # "downstream_cancelled"
    BY <1>2 DEF Follows, FramesFollow, FramelessPhases
  <2>6. /\ handler'[r].owner = handler[r].owner /\ handler'[r].key = handler[r].key
        /\ handler'[r].pc \in {"trying", "dropping"} /\ handler'[r].ttfb = handler[r].ttfb
        /\ handler'[r].class # "downstream_cancelled"
    BY <1>1, <1>4, <2>5 DEF GotoAs, Abandon, Goto, Handler
  <2>7. OpenAttempts(r)' = {n + 1}
    BY <1>1, <2>1, <2>3, <2>4, SMTT(30) DEF OpenAttempts
  <2>8. ~Answered(r)' /\ (Succeeded(r)' <=> Succeeded(r))
    BY <1>1, <2>1, <2>3, <2>5, SMTT(30) DEF Answered, Succeeded
  <2>9. AttemptsFollow(r)'
    <3>1. \A i \in OpenAttempts(r)' :
            /\ i = Len(attempts'[r])
            /\ attempts'[r][i].owner = handler'[r].owner
            /\ attempts'[r][i].key = handler'[r].key
      BY <2>1, <2>3, <2>6, <2>7
    <3>2. Len(attempts'[r]) <= MaxUpstreamKeys
      BY <1>1, <2>3, <2>4, LedgerAssumption
    <3>3. ASSUME NEW i \in DOMAIN attempts'[r], NEW j \in DOMAIN attempts'[r],
                 attempts'[r][i].key = attempts'[r][j].key
          PROVE  i = j
      <4>1. CASE i \in 1 .. n /\ j \in 1 .. n
        BY <1>1, <2>3, <3>3, <4>1 DEF Follows, AttemptsFollow
      <4>2. attempts'[r][n + 1].key = handler[r].key
            /\ \A m \in 1 .. n : attempts'[r][m].key # handler[r].key
        BY <1>1, <2>1, <2>3, <2>4
      <4>3. CASE i = n + 1
        BY <1>1, <2>3, <3>3, <4>2, <4>3
      <4>4. CASE j = n + 1
        BY <1>1, <2>3, <3>3, <4>2, <4>4
      <4> QED BY <1>1, <2>3, <4>1, <4>3, <4>4
    <3> QED BY <2>6, <3>1, <3>2, <3>3 DEF AttemptsFollow
  <2>10. FramesFollow(r)'
    BY <2>5, <2>6, <2>8 DEF FramesFollow, Answered
  <2>11. RowIsOpen(r)
    BY <1>4 DEF MayInsertAttempt
  <2>12. RowFollows(r)'
    BY <1>2, <2>8, <2>11 DEF RowFollows, RowIsOpen, Follows
  <2> QED BY <2>9, <2>10, <2>12 DEF Follows
<1> QED BY <1>3, <1>4 DEF StartNextAttempt

LEMMA FinishWithAttemptFollows ==
  ASSUME TypeOK, NEW r \in Request, Follows(r), FinishWithAttempt(r)
  PROVE  Follows(r)'
<1>1. handler[r] \in Handler /\ handler[r].pc \in OpenPhases
  BY DEF TypeOK, FinishWithAttempt, OpenPhases, Serving
<1>2. HandlerMoves(r)
  BY <1>1, StoppingMoves DEF FinishWithAttempt
<1>3. CASE row' = row /\ attempts' = attempts
  BY <1>2, <1>3, MovesFollow
<1>4. CASE /\ CurrentAttempt(r) # {} /\ RowIsOpen(r)
           /\ CloseAttempts(r, CurrentAttempt(r), handler[r].target)
           /\ CloseRow(r, handler[r].target, "reported")
  <2>1. handler[r].target \in {"succeeded", "failed"} /\ handler[r].target \in Closed
    BY <1>1 DEF Handler, Closed
  <2>2. CurrentAttempt(r) = OpenAttempts(r) /\ OpenAttempts(r) # {}
    BY <1>4, CurrentIsOpen DEF Follows
  <2>3. /\ AttemptsSettle(r)
        /\ \A i \in DOMAIN attempts[r] :
             attempts'[r][i].outcome =
               IF i \in OpenAttempts(r) THEN handler[r].target ELSE attempts[r][i].outcome
    BY <1>4, <2>1, <2>2, CloseFields
  <2>4. OpenAttempts(r)' = {}
    BY <2>1, <2>3 DEF AttemptsSettle, OpenAttempts
  <2>5. Succeeded(r)' <=> handler[r].target = "succeeded"
    <3>1. ~Succeeded(r)
      BY <1>4 DEF RowIsOpen, Follows, RowFollows
    <3> QED BY <2>1, <2>2, <2>3, <3>1 DEF Succeeded, OpenAttempts, AttemptsSettle
  <2>6. row'[r].outcome = handler[r].target /\ row'[r].class = "reported"
    BY <1>4 DEF CloseRow, TypeOK
  <2>7. RowFollows(r)'
    BY <2>1, <2>4, <2>5, <2>6 DEF RowFollows
  <2> QED BY <1>2, <2>3, <2>7, SettlingFollows DEF Follows
<1> QED BY <1>3, <1>4 DEF FinishWithAttempt

LEMMA DropFields ==
  ASSUME TypeOK, NEW r \in Request, AttemptsFollow(r), CloseWithOpenAttempts(r)
  PROVE  /\ Len(attempts'[r]) = Len(attempts[r])
         /\ DOMAIN attempts'[r] = DOMAIN attempts[r]
         /\ \A i \in DOMAIN attempts[r] :
              /\ attempts'[r][i].key = attempts[r][i].key
              /\ attempts'[r][i].owner = attempts[r][i].owner
              /\ i \in OpenAttempts(r) =>
                   /\ attempts'[r][i].outcome = DropOutcome(handler[r].class)
                   /\ attempts'[r][i].response_started <=>
                        attempts[r][i].response_started \/ handler[r].ttfb
              /\ i \notin OpenAttempts(r) => attempts'[r][i] = attempts[r][i]
<1> DEFINE f == [i \in DOMAIN attempts[r] |->
                   IF i \in OwnOpenAttempts(r)
                     THEN [attempts[r][i] EXCEPT !.outcome = DropOutcome(handler[r].class),
                                                 !.response_started = @ \/ handler[r].ttfb]
                     ELSE attempts[r][i]]
<1>1. attempts[r] \in Seq(Attempt) /\ \A i \in DOMAIN attempts[r] : attempts[r][i] \in Attempt
  BY DEF TypeOK
<1>2. handler[r].ttfb \in BOOLEAN /\ DropOutcome(handler[r].class) \in Closed
  BY DropOutcomeType DEF TypeOK, Handler
<1>3. f \in [DOMAIN attempts[r] -> Attempt]
  BY <1>1, <1>2 DEF Attempt
<1>4. Len(f) = Len(attempts[r]) /\ DOMAIN f = DOMAIN attempts[r]
  BY <1>1, <1>3, RewriteInPlace
<1>5. attempts'[r] = f
  BY DEF CloseWithOpenAttempts, TypeOK
<1>6. OwnOpenAttempts(r) = OpenAttempts(r)
  BY OwnAreOpen
<1>7. ASSUME NEW i \in DOMAIN attempts[r]
      PROVE  /\ f[i].key = attempts[r][i].key
             /\ f[i].owner = attempts[r][i].owner
             /\ i \in OpenAttempts(r) =>
                  /\ f[i].outcome = DropOutcome(handler[r].class)
                  /\ f[i].response_started <=> attempts[r][i].response_started \/ handler[r].ttfb
             /\ i \notin OpenAttempts(r) => f[i] = attempts[r][i]
  <2>1. attempts[r][i] \in Attempt
    BY <1>1
  <2>2. CASE i \in OpenAttempts(r)
    <3>1. f[i] = [attempts[r][i] EXCEPT !.outcome = DropOutcome(handler[r].class),
                                        !.response_started = @ \/ handler[r].ttfb]
      BY <1>6, <2>2
    <3> HIDE DEF f
    <3> QED BY <1>2, <2>1, <2>2, <3>1 DEF Attempt
  <2>3. CASE i \notin OpenAttempts(r)
    BY <1>6, <2>3
  <2> QED BY <2>2, <2>3
<1> HIDE DEF f
<1> QED BY <1>4, <1>5, <1>7

LEMMA OpenAttemptsFollow ==
  ASSUME TypeOK, NEW r \in Request, Follows(r), CloseWithOpenAttempts(r),
         handler[r].pc \in OpenPhases, HandlerMoves(r),
         handler'[r].pc \notin FramelessPhases \cup KeyedPhases
  PROVE  Follows(r)'
<1>1. DropOutcome(handler[r].class) \in {"failed", "cancelled"}
  BY DropOutcomeType
<1>2. RowIsOpen(r) /\ ~Succeeded(r)
  BY DEF CloseWithOpenAttempts, RowIsOpen, Follows, RowFollows
<1>3. OpenAttempts(r)' = {} /\ ~Succeeded(r)'
  BY <1>1, <1>2, DropFields DEF Follows, OpenAttempts, Succeeded
<1>4. Answered(r) => Answered(r)'
  BY DropFields DEF Follows, OpenAttempts, Answered
<1>5. Answered(r)' => Answered(r) \/ handler[r].ttfb
  BY DropFields DEF Follows, Answered
<1>6. handler[r].class = "handler_abandoned" => (Answered(r)' => r \in FixturedRequests)
  BY <1>5 DEF Follows, FramesFollow
<1>7. handler[r].class = "downstream_cancelled" => Answered(r)'
  BY <1>4 DEF Follows, FramesFollow
<1>8. AttemptsFollow(r)'
  <2>1. /\ Len(attempts'[r]) <= MaxUpstreamKeys
        /\ \A i, j \in DOMAIN attempts'[r] : attempts'[r][i].key = attempts'[r][j].key => i = j
    BY DropFields DEF Follows, AttemptsFollow
  <2>2. handler'[r].pc # "between"
    BY DEF FramelessPhases
  <2> QED BY <1>3, <2>1, <2>2 DEF AttemptsFollow
<1>9. \A i \in DOMAIN attempts'[r] : attempts'[r][i].response_started => i = Len(attempts'[r])
  BY DropFields DEF Follows, AttemptsFollow, FramesFollow
<1>10. FramesFollow(r)'
  <2>1. handler'[r].class = "handler_abandoned" /\ handler'[r].pc \in OpenPhases =>
          handler[r].class = "handler_abandoned" /\ handler'[r].ttfb = handler[r].ttfb
    BY DEF HandlerMoves
  <2>2. handler[r].class = "handler_abandoned" => ~handler[r].ttfb
    BY DEF Follows, FramesFollow
  <2> QED BY <1>6, <1>7, <1>9, <2>1, <2>2 DEF FramesFollow, HandlerMoves
<1>11. /\ row'[r].outcome = DropOutcome(handler[r].class)
       /\ row'[r].class = handler[r].class
  BY DEF CloseWithOpenAttempts, CloseRow, TypeOK
<1>12. RowFollows(r)'
  BY <1>1, <1>3, <1>6, <1>7, <1>11 DEF RowFollows, DropOutcome
<1> QED BY <1>8, <1>10, <1>12 DEF Follows

LEMMA ClosingFollows ==
  ASSUME TypeOK, NEW r \in Request, Follows(r),
         FinishWithOpenAttempts(r) \/ DropRecovery(r)
  PROVE  Follows(r)'
<1>1. handler \in [Request -> Handler] /\ handler[r] \in Handler /\ handler[r].pc \in OpenPhases
  BY DEF TypeOK, FinishWithOpenAttempts, DropRecovery, OpenPhases, Serving
<1>2. Goto(r, "releasing") \/ Abandon(r) \/ LeavePermit(r) => HandlerMoves(r)
  BY <1>1, StoppingMoves
<1>3. Goto(r, "releasing") \/ Abandon(r) \/ LeavePermit(r) =>
        handler'[r].pc \notin FramelessPhases \cup KeyedPhases
  <2>1. Goto(r, "releasing") \/ Abandon(r) => handler'[r].pc \in {"releasing", "dropping"}
    BY <1>1 DEF Goto, Abandon, Handler
  <2>2. LeavePermit(r) =>
          handler'[r] \in {Ended(handler[r].owner), [FreshHandler(handler[r].owner) EXCEPT
                                                      !.pc = "release_retry", !.permit = TRUE]}
    BY <1>1 DEF LeavePermit, End
  <2>3. LeavePermit(r) => handler'[r].pc \in {"done", "release_retry"}
    BY <2>2 DEF Ended, FreshHandler
  <2> QED BY <2>1, <2>3 DEF FramelessPhases, KeyedPhases
<1>4. CASE CloseWithOpenAttempts(r) /\ (Goto(r, "releasing") \/ Abandon(r) \/ LeavePermit(r))
  BY <1>1, <1>2, <1>3, <1>4, OpenAttemptsFollow
<1>5. CASE row' = row /\ attempts' = attempts /\ (Abandon(r) \/ LeavePermit(r))
  BY <1>2, <1>5, MovesFollow
<1>6. CASE row' = row /\ attempts' = attempts /\ handler' = [handler EXCEPT ![r].guard = FALSE]
  <2>1. HandlerMoves(r)
    BY <1>1, <1>6 DEF Handler, HandlerMoves
  <2> QED BY <1>6, <2>1, MovesFollow
<1> QED BY <1>4, <1>5, <1>6 DEF FinishWithOpenAttempts, DropRecovery

(* What the processes do to a request: its tasks end, its attempts and its  *)
(* row are abandoned, and the rows of deleted owners lose their owner.      *)
LEMMA AbandonFields ==
  ASSUME TypeOK, NEW q \in Request, NEW P \in SUBSET Owner
  PROVE  /\ AbandonedAttempts(P)[q] \in Seq(Attempt)
         /\ Len(AbandonedAttempts(P)[q]) = Len(attempts[q])
         /\ DOMAIN AbandonedAttempts(P)[q] = DOMAIN attempts[q]
         /\ \A i \in DOMAIN attempts[q] :
              /\ AbandonedAttempts(P)[q][i].key = attempts[q][i].key
              /\ AbandonedAttempts(P)[q][i].owner = attempts[q][i].owner
              /\ AbandonedAttempts(P)[q][i].response_started = attempts[q][i].response_started
              /\ AbandonedAttempts(P)[q][i].outcome =
                   IF i \in OpenAttempts(q) /\ attempts[q][i].owner \in P
                     THEN "abandoned_after_restart" ELSE attempts[q][i].outcome
<1> DEFINE I == {i \in OpenAttempts(q) : attempts[q][i].owner \in P}
           s == WithOutcome(attempts[q], I, "abandoned_after_restart")
<1>1. attempts[q] \in Seq(Attempt) /\ \A i \in DOMAIN attempts[q] : attempts[q][i] \in Attempt
  BY DEF TypeOK
<1>2. /\ s \in Seq(Attempt) /\ Len(s) = Len(attempts[q]) /\ DOMAIN s = DOMAIN attempts[q]
  BY <1>1, WithOutcomeType DEF Closed
<1>3. AbandonedAttempts(P)[q] = s
  BY DEF AbandonedAttempts
<1>4. ASSUME NEW i \in DOMAIN attempts[q]
      PROVE  /\ s[i].key = attempts[q][i].key
             /\ s[i].owner = attempts[q][i].owner
             /\ s[i].response_started = attempts[q][i].response_started
             /\ s[i].outcome = IF i \in I THEN "abandoned_after_restart"
                                          ELSE attempts[q][i].outcome
  <2>1. attempts[q][i] \in Attempt
    BY <1>1
  <2>2. s[i] = IF i \in I THEN [attempts[q][i] EXCEPT !.outcome = "abandoned_after_restart"]
                          ELSE attempts[q][i]
    BY DEF WithOutcome
  <2> HIDE DEF s, I
  <2>3. CASE i \in I
    BY <2>1, <2>2, <2>3 DEF Attempt
  <2>4. CASE i \notin I
    BY <2>1, <2>2, <2>4 DEF Attempt
  <2> QED BY <2>3, <2>4
<1>5. \A i : i \in I <=> i \in OpenAttempts(q) /\ attempts[q][i].owner \in P
  OBVIOUS
<1> HIDE DEF s, I
<1> QED BY <1>2, <1>3, <1>4, <1>5

LEMMA VaultFields ==
  ASSUME TypeOK, NEW q \in Request, NEW o \in Owner, OpenVault(o)
  PROVE  /\ Len(attempts'[q]) = Len(attempts[q])
         /\ DOMAIN attempts'[q] = DOMAIN attempts[q]
         /\ \A i \in DOMAIN attempts[q] :
              /\ attempts'[q][i].key = attempts[q][i].key
              /\ attempts'[q][i].response_started = attempts[q][i].response_started
              /\ attempts'[q][i].owner = IF attempts[q][i].owner \in StaleOwners \ {o}
                                           THEN NoOwner ELSE attempts[q][i].owner
              /\ attempts'[q][i].outcome =
                   IF i \in OpenAttempts(q) /\ attempts[q][i].owner \in StaleOwners \ {o}
                     THEN "abandoned_after_restart" ELSE attempts[q][i].outcome
<1> DEFINE P == StaleOwners \ {o}
           Heir(p) == IF p \in P THEN NoOwner ELSE p
           f == [i \in DOMAIN attempts[q] |->
                   [AbandonedAttempts(P)[q][i] EXCEPT !.owner = Heir(@)]]
<1>1. P \in SUBSET Owner
  BY DEF StaleOwners
<1>2. attempts'[q] = f
  BY DEF OpenVault
<1>3. attempts[q] \in Seq(Attempt)
  BY DEF TypeOK
<1>4. Len(f) = Len(attempts[q]) /\ DOMAIN f = DOMAIN attempts[q]
  BY <1>3, LenProperties
<1> HIDE DEF P
<1>5. ASSUME NEW i \in DOMAIN attempts[q]
      PROVE  /\ f[i].key = attempts[q][i].key
             /\ f[i].response_started = attempts[q][i].response_started
             /\ f[i].owner = IF attempts[q][i].owner \in P THEN NoOwner ELSE attempts[q][i].owner
             /\ f[i].outcome = IF i \in OpenAttempts(q) /\ attempts[q][i].owner \in P
                                 THEN "abandoned_after_restart" ELSE attempts[q][i].outcome
  <2>1. AbandonedAttempts(P)[q][i] \in Attempt
    <3>1. AbandonedAttempts(P)[q] \in Seq(Attempt) /\ i \in DOMAIN AbandonedAttempts(P)[q]
      BY <1>1, AbandonFields
    <3> QED BY <3>1
  <2>2. f[i] = [AbandonedAttempts(P)[q][i] EXCEPT !.owner = Heir(@)]
    OBVIOUS
  <2> HIDE DEF f
  <2>3. /\ f[i].key = AbandonedAttempts(P)[q][i].key
        /\ f[i].response_started = AbandonedAttempts(P)[q][i].response_started
        /\ f[i].owner = Heir(AbandonedAttempts(P)[q][i].owner)
        /\ f[i].outcome = AbandonedAttempts(P)[q][i].outcome
    BY <2>1, <2>2 DEF Attempt
  <2> QED BY <1>1, <2>3, AbandonFields
<1> HIDE DEF f
<1>6. QED BY <1>2, <1>4, <1>5 DEF P

LEMMA ProcessRowFields ==
  ASSUME TypeOK, NEW q \in Request, NEW o \in Owner,
         \/ OpenVault(o) \/ WatchdogStep(o) \/ Crash(o) \/ LeaseExpires(o) \/ LoseSession(o)
  PROVE  \/ SameVerdict(q)
         \/ /\ RowIsOpen(q)
            /\ row'[q].outcome = "abandoned_after_restart"
            /\ row'[q].class = "owner_lease_expired"
            /\ row[q].owner \in StaleOwners \cup {NoOwner}
<1>1. CASE OpenVault(o)
  <2> DEFINE P == StaleOwners \ {o}
             Heir(p) == IF p \in P THEN NoOwner ELSE p
  <2>1. P \in SUBSET Owner
    BY DEF StaleOwners
  <2>2. AbandonedRows(P)[q] \in Row
    BY <2>1, CleanupType
  <2>3. row'[q] = [AbandonedRows(P)[q] EXCEPT !.owner = Heir(@)]
    BY <1>1 DEF OpenVault
  <2>4. row'[q].outcome = AbandonedRows(P)[q].outcome /\ row'[q].class = AbandonedRows(P)[q].class
        /\ row'[q].failovers = AbandonedRows(P)[q].failovers
    BY <2>2, <2>3 DEF Row
  <2> QED BY <2>4 DEF AbandonedRows, SameVerdict
<1>2. CASE CleanupStaleRequests(o)
  BY <1>2 DEF CleanupStaleRequests, AbandonedRows, SameVerdict
<1>3. CASE row' = row
  BY <1>3 DEF SameVerdict
<1> QED BY <1>1, <1>2, <1>3 DEF WatchdogStep, Heartbeat, CleanupStaleAttempts,
           CleanupStalePermits, Crash, LeaseExpires, LoseSession, tables

LEMMA ProcessHandlers ==
  ASSUME TypeOK, NEW q \in Request, NEW o \in Owner,
         \/ OpenVault(o) \/ WatchdogStep(o) \/ Crash(o) \/ LeaseExpires(o) \/ LoseSession(o)
  PROVE  /\ HandlerMoves(q)
         /\ \/ handler'[q] = handler[q]
            \/ handler[q].owner = o /\ handler'[q] = Ended(o) /\ proc'[o] = "dead"
<1>1. Die(o) => \/ handler'[q] = handler[q]
                \/ handler[q].owner = o /\ handler'[q] = Ended(o) /\ proc'[o] = "dead"
  BY DEF Die, TypeOK
<1>2. \/ handler'[q] = handler[q]
      \/ handler[q].owner = o /\ handler'[q] = Ended(o) /\ proc'[o] = "dead"
  BY <1>1 DEF OpenVault, WatchdogStep, Crash, LeaseExpires, LoseSession, Heartbeat,
     CleanupStaleAttempts, CleanupStalePermits, CleanupStaleRequests
<1>3. Ended(o).owner = o /\ Ended(o).pc = "done" /\ Ended(o).class = "handler_abandoned"
  BY DEF Ended, FreshHandler
<1>4. HandlerMoves(q)
  BY <1>2, <1>3 DEF HandlerMoves, KeyedPhases, FramelessPhases, OpenPhases, Serving
<1> QED BY <1>2, <1>4

LEMMA ProcessFollows ==
  ASSUME TypeOK, NEW q \in Request, NEW o \in Owner, Follows(q),
         \/ OpenVault(o) \/ WatchdogStep(o) \/ Crash(o) \/ LeaseExpires(o) \/ LoseSession(o)
  PROVE  Follows(q)'
<1>1. HandlerMoves(q)
  BY ProcessHandlers
<1>2. AttemptsSettle(q) /\ (Succeeded(q)' <=> Succeeded(q))
  <2>1. CASE OpenVault(o)
    <3>1. Len(attempts'[q]) = Len(attempts[q]) /\ DOMAIN attempts'[q] = DOMAIN attempts[q]
      BY <2>1, VaultFields
    <3>2. ASSUME NEW i \in DOMAIN attempts[q]
          PROVE  /\ attempts'[q][i].key = attempts[q][i].key
                 /\ attempts'[q][i].response_started = attempts[q][i].response_started
                 /\ attempts'[q][i].outcome = "started" =>
                      /\ attempts[q][i].outcome = "started"
                      /\ attempts'[q][i].owner = attempts[q][i].owner
                 /\ attempts'[q][i].outcome = "succeeded" <=> attempts[q][i].outcome = "succeeded"
      BY <2>1, VaultFields DEF OpenAttempts
    <3> QED BY <3>1, <3>2 DEF AttemptsSettle, Succeeded
  <2>2. CASE CleanupStaleAttempts(o)
    <3>1. attempts'[q] = AbandonedAttempts(StaleOwners)[q] /\ StaleOwners \in SUBSET Owner
      BY <2>2 DEF CleanupStaleAttempts, StaleOwners
    <3>2. Len(attempts'[q]) = Len(attempts[q]) /\ DOMAIN attempts'[q] = DOMAIN attempts[q]
      BY <3>1, AbandonFields
    <3>3. ASSUME NEW i \in DOMAIN attempts[q]
          PROVE  /\ attempts'[q][i].key = attempts[q][i].key
                 /\ attempts'[q][i].response_started = attempts[q][i].response_started
                 /\ attempts'[q][i].owner = attempts[q][i].owner
                 /\ attempts'[q][i].outcome = "started" => attempts[q][i].outcome = "started"
                 /\ attempts'[q][i].outcome = "succeeded" <=> attempts[q][i].outcome = "succeeded"
      BY <3>1, AbandonFields DEF OpenAttempts
    <3> QED BY <3>2, <3>3 DEF AttemptsSettle, Succeeded
  <2>3. CASE attempts' = attempts
    BY <2>3, UnchangedSettle
  <2> QED BY <2>1, <2>2, <2>3 DEF WatchdogStep, Heartbeat, CleanupStaleRequests,
             CleanupStalePermits, Crash, LeaseExpires, LoseSession, tables
<1>3. AttemptsFollow(q)' /\ FramesFollow(q)'
  BY <1>1, <1>2, SettlingFollows DEF Follows
<1>4. RowFollows(q)'
  <2>1. CASE SameVerdict(q)
    BY <1>2, <2>1, SameVerdictFollows DEF Follows
  <2>2. CASE /\ RowIsOpen(q)
             /\ row'[q].outcome = "abandoned_after_restart"
             /\ row'[q].class = "owner_lease_expired"
    BY <1>2, <2>2 DEF Follows, RowFollows, RowIsOpen
  <2> QED BY <2>1, <2>2, ProcessRowFields
<1> QED BY <1>3, <1>4 DEF Follows

-----------------------------------------------------------------------------
(* The inductive invariant of the attempts, rows and phases. *)

FollowsInv == IInv /\ \A r \in Request : Follows(r)

LEMMA InitFollowsInv == Init => FollowsInv
<1> SUFFICES ASSUME Init PROVE FollowsInv
  OBVIOUS
<1>1. IInv
  BY InitIInv
<1>2. ASSUME NEW r \in Request PROVE Follows(r)
  <2>1. /\ handler[r].pc = "idle" /\ handler[r].class = "handler_abandoned"
        /\ row[r].outcome = "none" /\ row[r].class = "none" /\ attempts[r] = <<>>
    BY DEF Init, FreshHandler
  <2>2. DOMAIN attempts[r] = {} /\ Len(attempts[r]) = 0
    BY <2>1
  <2>3. OpenAttempts(r) = {} /\ ~Answered(r) /\ ~Succeeded(r)
    BY <2>2 DEF OpenAttempts, Answered, Succeeded
  <2>4. AttemptsFollow(r)
    BY <2>1, <2>2, <2>3, LedgerAssumption DEF AttemptsFollow
  <2>5. FramesFollow(r)
    BY <2>1, <2>2, <2>3 DEF FramesFollow, FramelessPhases, OpenPhases, Serving
  <2>6. RowFollows(r)
    BY <2>1, <2>3 DEF RowFollows
  <2> QED BY <2>4, <2>5, <2>6 DEF Follows
<1> QED BY <1>1, <1>2 DEF FollowsInv

LEMMA StepFollowsInv ==
  ASSUME FollowsInv, [Next]_vars
  PROVE  FollowsInv'
<1>1. IInv' /\ TypeOK /\ RowsFollowHandlers
  BY StepIInv DEF FollowsInv, IInv
<1>2. ASSUME NEW q \in Request PROVE Follows(q)'
  <2>1. Follows(q)
    BY DEF FollowsInv
  <2>2. ASSUME row'[q] = row[q], attempts'[q] = attempts[q], handler'[q] = handler[q]
        PROVE  Follows(q)'
    <3>1. HandlerMoves(q)
      BY <2>2 DEF HandlerMoves
    <3> QED BY <1>1, <2>1, <2>2, <3>1, MovesFollow
  <2>3. CASE UNCHANGED vars
    BY <2>2, <2>3 DEF vars
  <2>4. ASSUME NEW o \in Owner,
               OpenVault(o) \/ WatchdogStep(o) \/ Crash(o) \/ LeaseExpires(o) \/ LoseSession(o)
        PROVE  Follows(q)'
    BY <1>1, <2>1, <2>4, ProcessFollows
  <2>5. ASSUME NEW r \in Request,
               \/ HandlerStep(r) \/ HandlerDropped(r)
               \/ \E o \in Owner : AdmitAnonymous(r, o) \/ AcquirePermit(r, o)
        PROVE  Follows(q)'
    <3>1. CASE q # r
      BY <1>1, <2>2, <2>5, <3>1, HandlerFrame
    <3>2. CASE q = r /\ \E o \in Owner : AdmitAnonymous(r, o) \/ AcquirePermit(r, o)
      BY <1>1, <2>1, <3>2, AdmissionFollows
    <3>3. CASE q = r /\ (HandlerStep(r) \/ HandlerDropped(r))
      BY <1>1, <2>1, <3>3, SelectAndStartFollows, HandlerOnlyFollows, FirstFrameFollows,
         RefuseFixtureFollows, FailOverFollows, StartNextAttemptFollows,
         FinishWithAttemptFollows, ClosingFollows
         DEF HandlerStep, Attempting
    <3> QED BY <2>5, <3>1, <3>2, <3>3
  <2> QED BY <2>3, <2>4, <2>5 DEF Next
<1> QED BY <1>1, <1>2 DEF FollowsInv

(* Every open attempt is the last one, of the owner and for the key of the  *)
(* handler that runs it, and frames and row agree with the phase of the     *)
(* handler, the Drop task included (evidence.rs, streaming.rs).             *)
THEOREM FollowsCorrect == Spec => []FollowsInv
<1>1. Init => FollowsInv
  BY InitFollowsInv
<1>2. FollowsInv /\ [Next]_vars => FollowsInv'
  BY StepFollowsInv
<1> QED BY <1>1, <1>2, PTL DEF Spec

(* Whoever decides the outcome of a request - a typed finalizer, the        *)
(* closing transaction of a stream, its Drop task - leaves no attempt open. *)
THEOREM ClosedRowsAreSettled == Spec => []ClosedRowHasNoOpenAttempt
<1>1. FollowsInv => ClosedRowHasNoOpenAttempt
  BY DEF FollowsInv, Follows, RowFollows, ClosedRowHasNoOpenAttempt
<1> QED BY <1>1, FollowsCorrect, PTL

(* An attempt whose first frame was recorded is never followed by another:  *)
(* the gateway does not fail over once the client has seen provider output. *)
THEOREM NoFailoverAfterTheFirstFrame == Spec => []FirstFrameEndsFailover
<1>1. FollowsInv => FirstFrameEndsFailover
  BY DEF FollowsInv, Follows, FramesFollow, FirstFrameEndsFailover
<1> QED BY <1>1, FollowsCorrect, PTL

(* The row and the last attempt succeed in the same transaction or neither  *)
(* does, whichever cleanup raced the finalizer.                             *)
THEOREM RowsSucceedTogether == Spec => []RowSucceedsWithItsAttempt
<1>1. FollowsInv => RowSucceedsWithItsAttempt
  BY DEF FollowsInv, Follows, RowFollows, Succeeded, RowSucceedsWithItsAttempt
<1> QED BY <1>1, FollowsCorrect, PTL

(* A request is cancelled exactly when its client left after the handoff,   *)
(* and its last attempt was answered; before it, nothing was.               *)
THEOREM CancelledMeansHandedOff == Spec => []CancelledIffHandedOff
<1>1. ASSUME FollowsInv PROVE CancelledIffHandedOff
  <2>1. ASSUME NEW r \in Request
        PROVE  /\ row[r].outcome = "cancelled" <=> row[r].class = "downstream_cancelled"
               /\ row[r].outcome = "cancelled" => LastAttempt(r).response_started
               /\ row[r].class = "handler_abandoned" /\ r \notin FixturedRequests =>
                    \A i \in DOMAIN attempts[r] : ~attempts[r][i].response_started
    BY <1>1 DEF FollowsInv, Follows, RowFollows, FramesFollow, Answered, LastAttempt
  <2> QED BY <2>1 DEF CancelledIffHandedOff
<1> QED BY <1>1, FollowsCorrect, PTL

(* At most one attempt per key, one open at a time, at most MaxUpstreamKeys *)
(* of them, whatever the cleanups closed between two failovers.             *)
THEOREM AttemptsAreSequential == Spec => []OneAttemptPerKey
<1>1. FollowsInv => OneAttemptPerKey
  BY DEF FollowsInv, Follows, AttemptsFollow, OneAttemptPerKey
<1> QED BY <1>1, FollowsCorrect, PTL

-----------------------------------------------------------------------------
(* Owners: whose requests a cleanup may close and whose permit it releases. *)

InFlightPhases == {"granted", "dropping"} \cup Serving

(* A lease that is not fresh belongs to a process that died or let it lapse. *)
LeasesLapse == \A o \in Owner : proc[o] = "alive" /\ lease[o] # "fresh" => o \in lapsed

(* The open row and the held permit of a request carry the owner of its     *)
(* handler, which lives while the handler does.                             *)
OwnerFollows(r) ==
  /\ handler[r].pc # "idle" => handler[r].owner \in Owner /\ proc[handler[r].owner] # "unborn"
  /\ handler[r].pc \notin {"idle", "done"} => proc[handler[r].owner] = "alive"
  /\ RowIsOpen(r) => row[r].owner = handler[r].owner
  /\ permit[r].state = "held" => permit[r].owner = handler[r].owner
  /\ handler[r].pc = "idle" => permit[r].state = "none"
  /\ IsAbandoned(r) =>
       handler[r].owner \in lapsed \/ proc[handler[r].owner] = "dead"
  /\ InFlight(r) => permit[r].state = "held"

OwnersInv == FollowsInv /\ LeasesLapse /\ \A r \in Request : OwnerFollows(r)

(* Every step of a handler keeps its owner and moves on; only the steps     *)
(* that leave the phases in flight touch the permit.                        *)
LEMMA HandlerPhases ==
  ASSUME TypeOK, NEW r \in Request, HandlerStep(r) \/ HandlerDropped(r)
  PROVE  /\ handler'[r].owner = handler[r].owner
         /\ handler[r].pc \notin {"idle", "done"} /\ handler'[r].pc # "idle"
         /\ handler'[r].pc \in InFlightPhases =>
              handler[r].pc \in InFlightPhases /\ permit'[r] = permit[r]
         /\ \/ permit'[r] = permit[r]
            \/ permit'[r].state = "released" /\ permit'[r].owner = permit[r].owner
         /\ UNCHANGED <<proc, lease, lapsed>>
<1> USE DEF InFlightPhases, Serving
<1>1. handler \in [Request -> Handler] /\ handler[r] \in Handler
      /\ permit \in [Request -> Permit] /\ permit[r] \in Permit
  BY DEF TypeOK
<1>2. End(r) \/ LeavePermit(r) =>
        handler'[r].owner = handler[r].owner /\ handler'[r].pc \in {"done", "release_retry"}
  <2>1. End(r) \/ LeavePermit(r) =>
          handler'[r] \in {Ended(handler[r].owner), [FreshHandler(handler[r].owner) EXCEPT
                                                      !.pc = "release_retry", !.permit = TRUE]}
    BY <1>1 DEF LeavePermit, End
  <2> QED BY <2>1 DEF Ended, FreshHandler
<1>3. \A pc : Goto(r, pc) => handler'[r].owner = handler[r].owner /\ handler'[r].pc = pc
  BY <1>1 DEF Goto, Handler
<1>4. \A pc, class : GotoAs(r, pc, class) =>
                       handler'[r].owner = handler[r].owner /\ handler'[r].pc = pc
  BY <1>1 DEF GotoAs, Handler
<1>5. Abandon(r) \/ Unsettled(r) \/ AbandonAs(r, "evidence_unavailable") =>
        handler'[r].owner = handler[r].owner /\ handler'[r].pc \in {"dropping", "closing"}
  BY <1>3, <1>4 DEF Abandon, Unsettled, AbandonAs
<1>6. UNCHANGED <<proc, lease, lapsed>>
  BY DEF HandlerStep, HandlerDropped, SelectAndStart, RecordAcceptedUse, Attempting,
     FinishWithAttempt, FinishWithOpenAttempts, ReleasePermitNow, DropRecovery, RetryRelease,
     RetryableFailure, HealthUpdateFailed, ConclusiveAnswer, InjectedPostFrameFailure,
     RefuseFixture, BeginPriming, HandOffStream, StreamEnded, FailOver, NoFailoverLeft,
     StartNextAttempt, ownerVars
<1>7. CASE ReleasePermitNow(r) \/ RetryRelease(r)
  <2>1. handler'[r].owner = handler[r].owner /\ handler'[r].pc \in {"done", "release_retry"}
    BY <1>2, <1>3, <1>7 DEF ReleasePermitNow, RetryRelease
  <2>2. \/ permit'[r] = permit[r]
        \/ permit'[r].state = "released" /\ permit'[r].owner = permit[r].owner
    BY <1>1, <1>7 DEF ReleasePermitNow, RetryRelease, Permit
  <2> QED BY <1>6, <1>7, <2>1, <2>2 DEF ReleasePermitNow, RetryRelease
<1>8. CASE SelectAndStart(r)
  <2>1. CASE LeavePermit(r)
    BY <1>2, <1>6, <1>8, <2>1 DEF SelectAndStart
  <2>2. CASE \E k \in Key : handler' = [handler EXCEPT ![r].pc = "started", ![r].key = k]
    <3>1. handler'[r].owner = handler[r].owner /\ handler'[r].pc = "started"
      BY <1>1, <2>2 DEF Handler
    <3> QED BY <1>6, <1>8, <3>1 DEF SelectAndStart
  <2> QED BY <1>8, <2>1, <2>2 DEF SelectAndStart
<1>9. CASE RecordAcceptedUse(r) \/ HealthUpdateFailed(r)
  BY <1>3, <1>4, <1>5, <1>6, <1>9 DEF RecordAcceptedUse, HealthUpdateFailed, tables
<1>10. CASE RetryableFailure(r) \/ ConclusiveAnswer(r) \/ BeginPriming(r) \/ StreamEnded(r)
            \/ NoFailoverLeft(r)
  <2>1. handler'[r].owner = handler[r].owner /\ handler'[r].pc \in {"retry", "finishing", "priming"}
    BY <1>1, <1>10 DEF RetryableFailure, ConclusiveAnswer, BeginPriming, StreamEnded,
       NoFailoverLeft, Handler
  <2> QED BY <1>6, <1>10, <2>1 DEF RetryableFailure, ConclusiveAnswer, BeginPriming, StreamEnded,
       NoFailoverLeft, tables
<1>11. CASE HandOffStream(r)
  <2>1. handler'[r].owner = handler[r].owner /\ handler'[r].pc \in {"streaming", "dropping"}
    BY <1>1, <1>11 DEF HandOffStream, Handler
  <2> QED BY <1>6, <1>11, <2>1 DEF HandOffStream
<1>12. CASE FailOver(r)
  <2>1. handler'[r].owner = handler[r].owner
        /\ handler'[r].pc \in {"between", "dropping", "closing"}
    BY <1>1, <1>5, <1>12 DEF FailOver, Handler
  <2> QED BY <1>6, <1>12, <2>1 DEF FailOver
<1>13. CASE InjectedPostFrameFailure(r) \/ StartNextAttempt(r)
  <2>1. handler'[r].owner = handler[r].owner
        /\ handler'[r].pc \in {"finishing", "trying", "dropping", "closing"}
    BY <1>4, <1>5, <1>13 DEF InjectedPostFrameFailure, StartNextAttempt
  <2> QED BY <1>6, <1>13, <2>1 DEF InjectedPostFrameFailure, StartNextAttempt
<1>14. CASE RefuseFixture(r) \/ FinishWithAttempt(r) \/ FinishWithOpenAttempts(r)
  <2>1. handler'[r].owner = handler[r].owner
        /\ handler'[r].pc \in {"releasing", "dropping", "closing"}
    BY <1>3, <1>5, <1>14 DEF RefuseFixture, FinishWithAttempt, FinishWithOpenAttempts
  <2> QED BY <1>6, <1>14, <2>1 DEF RefuseFixture, FinishWithAttempt, FinishWithOpenAttempts
<1>15. CASE DropRecovery(r)
  <2>1. handler'[r].owner = handler[r].owner
        /\ handler'[r].pc \in {"dropping", "done", "release_retry"}
    BY <1>1, <1>2, <1>15 DEF DropRecovery, Handler
  <2> QED BY <1>6, <1>15, <2>1 DEF DropRecovery
<1>16. CASE HandlerDropped(r)
  BY <1>2, <1>5, <1>6, <1>16 DEF HandlerDropped, tables
<1> QED BY <1>7, <1>8, <1>9, <1>10, <1>11, <1>12, <1>13, <1>14, <1>15, <1>16
        DEF HandlerStep, Attempting

(* A handler never abandons its request, and opens rows in its own name. *)
LEMMA HandlerRows ==
  ASSUME TypeOK, NEW r \in Request, Follows(r), RowsFollowHandlers,
         HandlerStep(r) \/ HandlerDropped(r)
  PROVE  /\ \/ row'[r] = row[r]
            \/ row'[r].outcome \in {"succeeded", "failed", "cancelled"}
            \/ row'[r].outcome = "started" /\ row'[r].owner = handler[r].owner
         /\ \A i \in DOMAIN attempts'[r] :
              attempts'[r][i].outcome = "abandoned_after_restart" =>
                i \in DOMAIN attempts[r]
                /\ attempts[r][i].outcome = "abandoned_after_restart"
<1> DEFINE RowOK == \/ row'[r] = row[r]
                    \/ row'[r].outcome \in {"succeeded", "failed", "cancelled"}
                    \/ row'[r].outcome = "started" /\ row'[r].owner = handler[r].owner
           AttemptsOK == \A i \in DOMAIN attempts'[r] :
              attempts'[r][i].outcome = "abandoned_after_restart" =>
                i \in DOMAIN attempts[r]
                /\ attempts[r][i].outcome = "abandoned_after_restart"
<1>1. /\ row \in [Request -> Row] /\ attempts \in [Request -> Seq(Attempt)]
      /\ handler[r] \in Handler
  BY DEF TypeOK
<1>2. handler[r].target \in {"succeeded", "failed"}
      /\ DropOutcome(handler[r].class) \in {"failed", "cancelled"}
  BY <1>1, DropOutcomeType DEF Handler
<1>3. \A outcome \in {"succeeded", "failed", "cancelled"} : \A class :
        CloseRow(r, outcome, class) => RowOK
  BY <1>1 DEF CloseRow
<1>4. ASSUME NEW I, NEW outcome \in {"succeeded", "failed"}, CloseAttempts(r, I, outcome)
      PROVE  AttemptsOK
  BY <1>4, CloseFields DEF Closed, AttemptsSettle
<1>5. MarkResponseStarted(r) => AttemptsOK
  BY MarkFields
<1>6. CASE CloseWithOpenAttempts(r)
  <2>1. RowOK
    BY <1>2, <1>3, <1>6 DEF CloseWithOpenAttempts
  <2>2. AttemptsOK
    BY <1>2, <1>6, DropFields DEF Follows
  <2> QED BY <2>1, <2>2
<1>7. CASE row' = row /\ attempts' = attempts
  BY <1>7
<1>8. CASE SelectAndStart(r)
  <2>1. attempts[r] = <<>>
    BY <1>8 DEF SelectAndStart, RowsFollowHandlers, BeforeRow
  <2>2. RowOK
    BY <1>1, <1>8 DEF SelectAndStart
  <2>3. \/ attempts' = attempts
        \/ \E k \in Key : attempts'[r] = <<NewAttempt(k, handler[r].owner)>>
    BY <1>1, <1>8 DEF SelectAndStart
  <2>4. AttemptsOK
    <3>1. CASE attempts' = attempts
      BY <3>1
    <3>2. ASSUME NEW k \in Key, attempts'[r] = <<NewAttempt(k, handler[r].owner)>>
          PROVE  AttemptsOK
      <4>1. DOMAIN attempts'[r] = {1}
            /\ attempts'[r][1] = NewAttempt(k, handler[r].owner)
        BY <3>2
      <4>2. attempts'[r][1].outcome = "started"
        BY <4>1 DEF NewAttempt
      <4> QED BY <4>1, <4>2
    <3> QED BY <2>3, <3>1, <3>2
  <2> QED BY <2>2, <2>4
<1>9. CASE HandOffStream(r) \/ InjectedPostFrameFailure(r)
  BY <1>5, <1>9 DEF HandOffStream, InjectedPostFrameFailure
<1>10. CASE FailOver(r)
  BY <1>4, <1>10 DEF FailOver
<1>11. CASE StartNextAttempt(r)
  <2>1. CASE attempts'[r] = Append(attempts[r], NewAttempt(handler[r].key, handler[r].owner))
    <3> DEFINE a == NewAttempt(handler[r].key, handler[r].owner)
    <3>1. a.outcome = "started"
      BY DEF NewAttempt
    <3> HIDE DEF a
    <3>2. attempts'[r] = Append(attempts[r], a) /\ attempts[r] \in Seq(Attempt)
      BY <1>1, <2>1 DEF a
    <3>3. /\ DOMAIN attempts'[r] = 1 .. (Len(attempts[r]) + 1)
          /\ attempts'[r][Len(attempts[r]) + 1] = a
          /\ DOMAIN attempts[r] = 1 .. Len(attempts[r]) /\ Len(attempts[r]) \in Nat
          /\ \A i \in 1 .. Len(attempts[r]) : attempts'[r][i] = attempts[r][i]
      BY <3>2
    <3>4. AttemptsOK
      BY <3>1, <3>3
    <3> QED BY <1>11, <3>4 DEF StartNextAttempt
  <2>2. CASE attempts' = attempts
    BY <1>11, <2>2 DEF StartNextAttempt
  <2> QED BY <1>1, <1>11, <2>1, <2>2 DEF StartNextAttempt
<1>12. CASE RefuseFixture(r)
  BY <1>3, <1>12 DEF RefuseFixture
<1>13. CASE FinishWithAttempt(r)
  BY <1>2, <1>3, <1>4, <1>13 DEF FinishWithAttempt
<1>14. CASE FinishWithOpenAttempts(r) \/ DropRecovery(r)
  BY <1>6, <1>7, <1>14 DEF FinishWithOpenAttempts, DropRecovery
<1>15. CASE \/ RecordAcceptedUse(r) \/ RetryableFailure(r) \/ HealthUpdateFailed(r)
            \/ ConclusiveAnswer(r) \/ BeginPriming(r) \/ StreamEnded(r) \/ NoFailoverLeft(r)
            \/ HandlerDropped(r) \/ ReleasePermitNow(r) \/ RetryRelease(r)
  BY <1>7, <1>15 DEF RecordAcceptedUse, RetryableFailure, HealthUpdateFailed, ConclusiveAnswer,
     BeginPriming, StreamEnded, NoFailoverLeft, HandlerDropped, ReleasePermitNow, RetryRelease,
     tables
<1> QED BY <1>8, <1>9, <1>10, <1>11, <1>12, <1>13, <1>14, <1>15 DEF HandlerStep, Attempting

LEMMA HandlerOwners ==
  ASSUME TypeOK, RowsFollowHandlers, NEW r \in Request, Follows(r), OwnerFollows(r),
         HandlerStep(r) \/ HandlerDropped(r)
  PROVE  OwnerFollows(r)'
<1>1. /\ handler'[r].owner = handler[r].owner
      /\ handler[r].pc \notin {"idle", "done"} /\ handler'[r].pc # "idle"
      /\ handler'[r].pc \in InFlightPhases =>
           handler[r].pc \in InFlightPhases /\ permit'[r] = permit[r]
      /\ \/ permit'[r] = permit[r]
         \/ permit'[r].state = "released" /\ permit'[r].owner = permit[r].owner
      /\ UNCHANGED <<proc, lease, lapsed>>
  BY HandlerPhases
<1>2. RowIsOpen(r)' => row'[r].owner = handler'[r].owner
  BY <1>1, HandlerRows DEF RowIsOpen, OwnerFollows
<1>3. IsAbandoned(r)' => IsAbandoned(r)
  BY HandlerRows DEF IsAbandoned
<1>4. InFlight(r)' => InFlight(r) /\ permit'[r] = permit[r]
  BY <1>1 DEF InFlight, Identified, InFlightPhases
<1> QED BY <1>1, <1>2, <1>3, <1>4 DEF OwnerFollows

LEMMA AdmissionOwners ==
  ASSUME TypeOK, RowsFollowHandlers, NEW r \in Request, NEW o \in Owner, OwnerFollows(r),
         AdmitAnonymous(r, o) \/ AcquirePermit(r, o)
  PROVE  OwnerFollows(r)' /\ UNCHANGED <<proc, lease, lapsed>>
<1>1. /\ handler[r].pc = "idle" /\ proc[o] = "alive" /\ permit[r].state = "none"
      /\ handler \in [Request -> Handler] /\ permit \in [Request -> Permit]
      /\ UNCHANGED <<proc, lease, lapsed, row, attempts>>
  BY DEF AdmitAnonymous, AcquirePermit, ownerVars, tables, OwnerFollows, TypeOK
<1>2. row[r].outcome = "none" /\ attempts[r] = <<>>
  BY <1>1 DEF RowsFollowHandlers, BeforeRow
<1>3. handler'[r].owner = o /\ handler'[r].pc \in {"granted", "done"}
  <2>1. handler'[r] \in {FreshHandler(o), Ended(o), [FreshHandler(o) EXCEPT !.permit = TRUE]}
    BY <1>1 DEF AdmitAnonymous, AcquirePermit
  <2> QED BY <2>1 DEF FreshHandler, Ended
<1>4. \/ permit'[r] = permit[r]
      \/ permit'[r].state = "held" /\ permit'[r].owner = o
  BY <1>1 DEF AdmitAnonymous, AcquirePermit, tables
<1>5. ~RowIsOpen(r)' /\ ~IsAbandoned(r)'
  BY <1>1, <1>2 DEF RowIsOpen, IsAbandoned
<1>6. InFlight(r)' => permit'[r].state = "held"
  BY <1>1, <1>4 DEF InFlight, Identified
<1> QED BY <1>1, <1>3, <1>4, <1>5, <1>6 DEF OwnerFollows

(* What a process step does to leases, and to the records of a request q    *)
(* whose owner it takes for gone.                                           *)
LEMMA ProcessLeases ==
  ASSUME TypeOK, LeasesLapse, NEW o \in Owner,
         \/ OpenVault(o) \/ WatchdogStep(o) \/ Crash(o) \/ LeaseExpires(o) \/ LoseSession(o)
  PROVE  /\ LeasesLapse'
         /\ lapsed \subseteq lapsed'
         /\ \A p \in Owner : proc[p] # "unborn" => proc'[p] \in {proc[p], "dead"}
         /\ \A p \in Owner : proc'[p] # proc[p] => p = o
<1>1. Die(o) => proc' = [proc EXCEPT ![o] = "dead"]
  BY DEF Die
<1>2. CASE OpenVault(o)
  BY <1>2 DEF OpenVault, TypeOK, LeasesLapse, StaleOwners
<1>3. CASE Heartbeat(o)
  BY <1>1, <1>3 DEF Heartbeat, TypeOK, LeasesLapse
<1>4. CASE Crash(o)
  BY <1>1, <1>4 DEF Crash, TypeOK, LeasesLapse
<1>5. CASE LeaseExpires(o)
  BY <1>5 DEF LeaseExpires, TypeOK, LeasesLapse
<1>6. CASE LoseSession(o) \/ CleanupStaleAttempts(o) \/ CleanupStalePermits(o)
           \/ CleanupStaleRequests(o)
  BY <1>6 DEF LoseSession, CleanupStaleAttempts, CleanupStalePermits, CleanupStaleRequests,
     LeasesLapse
<1> QED BY <1>2, <1>3, <1>4, <1>5, <1>6 DEF WatchdogStep

(* The rows and permits that a cleanup leaves open keep their owner. *)
LEMMA ProcessRecords ==
  ASSUME TypeOK, NEW q \in Request, NEW o \in Owner,
         \/ OpenVault(o) \/ WatchdogStep(o) \/ Crash(o) \/ LeaseExpires(o) \/ LoseSession(o)
  PROVE  /\ RowIsOpen(q)' => RowIsOpen(q) /\ row'[q].owner = row[q].owner
         /\ permit'[q].state = "none" <=> permit[q].state = "none"
         /\ permit'[q].state = "held" =>
              permit[q].state = "held" /\ permit'[q].owner = permit[q].owner
         /\ permit[q].state = "held" /\ permit'[q].state # "held" =>
              permit[q].owner \in StaleOwners \cup {NoOwner}
<1>1. row[q] \in Row /\ permit[q] \in Permit
  BY DEF TypeOK
<1>2. CASE OpenVault(o)
  <2> DEFINE P == StaleOwners \ {o}
             Heir(p) == IF p \in P THEN NoOwner ELSE p
  <2>1. P \in SUBSET Owner
    BY DEF StaleOwners
  <2>2. AbandonedRows(P)[q] \in Row /\ ReleasedPermits(P)[q] \in Permit
    BY <2>1, CleanupType
  <2>3. row'[q] = [AbandonedRows(P)[q] EXCEPT !.owner = Heir(@)]
        /\ permit'[q] = [ReleasedPermits(P)[q] EXCEPT !.owner = Heir(@)]
    BY <1>2 DEF OpenVault
  <2>4. /\ row'[q].outcome = AbandonedRows(P)[q].outcome
        /\ row'[q].owner = Heir(AbandonedRows(P)[q].owner)
        /\ permit'[q].state = ReleasedPermits(P)[q].state
        /\ permit'[q].owner = Heir(ReleasedPermits(P)[q].owner)
    BY <2>2, <2>3 DEF Row, Permit
  <2>5. RowIsOpen(q)' => RowIsOpen(q) /\ row'[q].owner = row[q].owner
    BY <2>4 DEF AbandonedRows, RowIsOpen
  <2>6. ReleasedPermits(P)[q] =
          IF permit[q].state = "held" /\ permit[q].owner \in P \cup {NoOwner}
            THEN [permit[q] EXCEPT !.state = "released"] ELSE permit[q]
    BY DEF ReleasedPermits
  <2>7. CASE permit[q].state = "held" /\ permit[q].owner \in P \cup {NoOwner}
    <3>1. permit'[q].state = "released"
      BY <1>1, <2>4, <2>6, <2>7 DEF Permit
    <3> QED BY <2>5, <2>7, <3>1
  <2>8. CASE ~(permit[q].state = "held" /\ permit[q].owner \in P \cup {NoOwner})
    BY <2>4, <2>5, <2>6, <2>8
  <2> QED BY <2>7, <2>8
<1>3. CASE CleanupStalePermits(o)
  <2>1. row' = row /\ permit'[q] =
          IF permit[q].state = "held" /\ permit[q].owner \in StaleOwners \cup {NoOwner}
            THEN [permit[q] EXCEPT !.state = "released"] ELSE permit[q]
    BY <1>3 DEF CleanupStalePermits, ReleasedPermits
  <2>2. CASE permit[q].state = "held" /\ permit[q].owner \in StaleOwners \cup {NoOwner}
    <3>1. permit'[q].state = "released"
      BY <1>1, <2>1, <2>2 DEF Permit
    <3> QED BY <2>1, <2>2, <3>1 DEF RowIsOpen
  <2>3. CASE permit'[q] = permit[q]
    BY <2>1, <2>3 DEF RowIsOpen
  <2> QED BY <2>1, <2>2, <2>3
<1>4. CASE CleanupStaleRequests(o)
  BY <1>4 DEF CleanupStaleRequests, AbandonedRows, RowIsOpen
<1>5. CASE row' = row /\ permit' = permit
  BY <1>5 DEF RowIsOpen
<1> QED BY <1>2, <1>3, <1>4, <1>5 DEF WatchdogStep, Heartbeat, CleanupStaleAttempts, Crash,
           LeaseExpires, LoseSession, tables

(* An attempt is abandoned only for an owner without a fresh lease. *)
LEMMA ProcessAbandons ==
  ASSUME TypeOK, NEW q \in Request, AttemptsFollow(q), OwnerFollows(q), NEW o \in Owner,
         \/ OpenVault(o) \/ WatchdogStep(o) \/ Crash(o) \/ LeaseExpires(o) \/ LoseSession(o),
         IsAbandoned(q)', ~IsAbandoned(q)
  PROVE  handler[q].owner \in StaleOwners \cup {NoOwner}
<1>1. ASSUME NEW P \in SUBSET StaleOwners, NEW i \in DOMAIN attempts[q],
             (IF i \in OpenAttempts(q) /\ attempts[q][i].owner \in P
                THEN "abandoned_after_restart" ELSE attempts[q][i].outcome)
              = "abandoned_after_restart"
      PROVE  handler[q].owner \in StaleOwners
  BY <1>1 DEF IsAbandoned, AttemptsFollow
<1>2. CASE row'[q].outcome = "abandoned_after_restart"
  BY <1>2, ProcessRowFields DEF IsAbandoned, SameVerdict, OwnerFollows
<1>3. CASE \E i \in DOMAIN attempts'[q] : attempts'[q][i].outcome = "abandoned_after_restart"
  <2>1. CASE OpenVault(o)
    <3>1. StaleOwners \ {o} \in SUBSET StaleOwners
      OBVIOUS
    <3> QED BY <1>1, <1>3, <2>1, <3>1, VaultFields
  <2>2. CASE CleanupStaleAttempts(o)
    <3>1. attempts'[q] = AbandonedAttempts(StaleOwners)[q] /\ StaleOwners \in SUBSET Owner
          /\ StaleOwners \in SUBSET StaleOwners
      BY <2>2 DEF CleanupStaleAttempts, StaleOwners
    <3> QED BY <1>1, <1>3, <3>1, AbandonFields
  <2>3. CASE attempts' = attempts
    BY <1>3, <2>3 DEF IsAbandoned
  <2> QED BY <2>1, <2>2, <2>3 DEF WatchdogStep, Heartbeat, CleanupStaleRequests,
             CleanupStalePermits, Crash, LeaseExpires, LoseSession, tables
<1> QED BY <1>2, <1>3 DEF IsAbandoned

LEMMA ProcessOwners ==
  ASSUME OwnersInv, RowsFollowHandlers', NEW q \in Request, NEW o \in Owner,
         \/ OpenVault(o) \/ WatchdogStep(o) \/ Crash(o) \/ LeaseExpires(o) \/ LoseSession(o)
  PROVE  OwnerFollows(q)'
<1>1. /\ TypeOK /\ LeasesLapse /\ OwnerFollows(q) /\ AttemptsFollow(q)
      /\ proc \in [Owner -> {"unborn", "alive", "dead"}]
  BY DEF OwnersInv, FollowsInv, IInv, Follows, TypeOK
<1>2. /\ lapsed \subseteq lapsed'
      /\ \A p \in Owner : proc[p] # "unborn" => proc'[p] \in {proc[p], "dead"}
  BY <1>1, ProcessLeases
<1>3. \/ handler'[q] = handler[q]
      \/ handler[q].owner = o /\ handler'[q] = Ended(o) /\ proc'[o] = "dead"
  BY <1>1, ProcessHandlers
<1>4. Ended(o).owner = o /\ Ended(o).pc = "done"
  BY DEF Ended, FreshHandler
<1>5. handler'[q].owner = handler[q].owner
  BY <1>3, <1>4
<1>6. /\ RowIsOpen(q)' => RowIsOpen(q) /\ row'[q].owner = row[q].owner
      /\ permit'[q].state = "none" <=> permit[q].state = "none"
      /\ permit'[q].state = "held" =>
           permit[q].state = "held" /\ permit'[q].owner = permit[q].owner
      /\ permit[q].state = "held" /\ permit'[q].state # "held" =>
           permit[q].owner \in StaleOwners \cup {NoOwner}
  BY <1>1, ProcessRecords
<1>7. handler'[q].pc # "idle" =>
        handler'[q].owner \in Owner /\ proc'[handler'[q].owner] # "unborn"
  BY <1>1, <1>2, <1>3, <1>4 DEF OwnerFollows
<1>8. handler'[q].pc \notin {"idle", "done"} => proc'[handler'[q].owner] = "alive"
  <2>1. SUFFICES ASSUME handler'[q].pc \notin {"idle", "done"}
                 PROVE  proc'[handler'[q].owner] = "alive"
    OBVIOUS
  <2>2. handler'[q] = handler[q] /\ handler[q].owner \in Owner /\ proc[handler[q].owner] = "alive"
    BY <1>1, <1>3, <1>4, <2>1 DEF OwnerFollows
  <2>3. CASE Die(o)
    <3>1. handler[q].owner # o
      BY <1>4, <2>1, <2>3 DEF Die
    <3> QED BY <1>1, <2>2, <2>3, <3>1 DEF Die
  <2>4. CASE OpenVault(o)
    BY <1>1, <2>2, <2>4 DEF OpenVault
  <2>5. CASE proc' = proc
    BY <2>2, <2>5
  <2> QED BY <2>3, <2>4, <2>5 DEF WatchdogStep, Heartbeat, CleanupStaleAttempts,
             CleanupStalePermits, CleanupStaleRequests, Crash, LeaseExpires, LoseSession
<1>9. RowIsOpen(q)' => row'[q].owner = handler'[q].owner
  BY <1>1, <1>5, <1>6 DEF OwnerFollows
<1>10. /\ permit'[q].state = "held" => permit'[q].owner = handler'[q].owner
       /\ handler'[q].pc = "idle" => permit'[q].state = "none"
  BY <1>1, <1>3, <1>4, <1>6 DEF OwnerFollows
<1>11. IsAbandoned(q)' => \/ handler'[q].owner \in lapsed'
                          \/ proc'[handler'[q].owner] = "dead"
  <2>1. SUFFICES ASSUME IsAbandoned(q)'
                 PROVE  handler'[q].owner \in lapsed' \/ proc'[handler'[q].owner] = "dead"
    OBVIOUS
  <2>2. handler'[q].pc # "idle"
    <3>1. handler'[q].pc = "idle" => row'[q].outcome = "none" /\ attempts'[q] = <<>>
      BY DEF RowsFollowHandlers, BeforeRow
    <3> QED BY <2>1, <3>1 DEF IsAbandoned
  <2>3. CASE handler[q].owner = o /\ proc'[o] = "dead"
    BY <1>5, <2>3
  <2>4. CASE handler'[q] = handler[q]
    <3>1. handler[q].owner \in Owner /\ proc[handler[q].owner] \in {"alive", "dead"}
      BY <1>1, <2>2, <2>4 DEF OwnerFollows
    <3>2. \/ handler[q].owner \in lapsed
          \/ proc[handler[q].owner] = "dead"
      <4>1. CASE IsAbandoned(q)
        BY <1>1, <4>1 DEF OwnerFollows
      <4>2. CASE ~IsAbandoned(q)
        <5>1. handler[q].owner \in StaleOwners
          BY <1>1, <2>1, <3>1, <4>2, ProcessAbandons, LedgerAssumption
        <5> QED BY <1>1, <3>1, <5>1 DEF LeasesLapse, StaleOwners
      <4> QED BY <4>1, <4>2
    <3> QED BY <1>2, <1>5, <3>1, <3>2
  <2> QED BY <1>3, <2>3, <2>4
<1>12. InFlight(q)' => permit'[q].state = "held"
  <2>1. SUFFICES ASSUME InFlight(q)', permit'[q].state # "held"
                 PROVE  FALSE
    OBVIOUS
  <2>2. handler'[q].pc \notin {"idle", "done"}
    BY <2>1 DEF InFlight, Serving
  <2>3. handler'[q] = handler[q]
    BY <1>3, <1>4, <2>2
  <2>4. InFlight(q)
    BY <1>2, <1>6, <2>1, <2>3 DEF InFlight, Identified
  <2>5. permit[q].owner = handler[q].owner /\ handler[q].owner \in StaleOwners \cup {NoOwner}
    BY <1>1, <1>6, <2>1, <2>4 DEF OwnerFollows
  <2>6. handler[q].owner \in Owner /\ proc[handler[q].owner] = "alive"
    BY <1>1, <2>2, <2>3 DEF OwnerFollows
  <2>7. handler[q].owner \in lapsed
    BY <1>1, <2>5, <2>6, LedgerAssumption DEF LeasesLapse, StaleOwners
  <2> QED BY <2>4, <2>7 DEF InFlight
<1> QED BY <1>7, <1>8, <1>9, <1>10, <1>11, <1>12 DEF OwnerFollows

LEMMA InitOwnersInv == Init => OwnersInv
<1> SUFFICES ASSUME Init PROVE OwnersInv
  OBVIOUS
<1>1. FollowsInv
  BY InitFollowsInv
<1>2. LeasesLapse
  BY DEF Init, LeasesLapse
<1>3. ASSUME NEW r \in Request PROVE OwnerFollows(r)
  <2>1. /\ handler[r].pc = "idle" /\ row[r].outcome = "none" /\ attempts[r] = <<>>
        /\ permit[r].state = "none"
    BY DEF Init, FreshHandler
  <2> QED BY <2>1 DEF OwnerFollows, RowIsOpen, IsAbandoned, InFlight, Identified
<1> QED BY <1>1, <1>2, <1>3 DEF OwnersInv

LEMMA StepOwnersInv ==
  ASSUME OwnersInv, [Next]_vars
  PROVE  OwnersInv'
<1>1. /\ FollowsInv' /\ RowsFollowHandlers' /\ TypeOK /\ RowsFollowHandlers
      /\ LeasesLapse /\ \A r \in Request : Follows(r) /\ OwnerFollows(r)
  BY StepFollowsInv DEF OwnersInv, FollowsInv, IInv
<1>2. ASSUME UNCHANGED <<proc, lease, lapsed>> PROVE LeasesLapse'
  BY <1>1, <1>2 DEF LeasesLapse
<1>3. ASSUME NEW q \in Request, UNCHANGED <<proc, lease, lapsed>>, row'[q] = row[q],
             attempts'[q] = attempts[q], handler'[q] = handler[q], permit'[q] = permit[q]
      PROVE  OwnerFollows(q)'
  BY <1>1, <1>3 DEF OwnerFollows, RowIsOpen, IsAbandoned, InFlight, Identified
<1>4. CASE UNCHANGED vars
  BY <1>1, <1>2, <1>3, <1>4 DEF vars, OwnersInv
<1>5. ASSUME NEW o \in Owner,
             OpenVault(o) \/ WatchdogStep(o) \/ Crash(o) \/ LeaseExpires(o) \/ LoseSession(o)
      PROVE  OwnersInv'
  BY <1>1, <1>5, ProcessLeases, ProcessOwners DEF OwnersInv
<1>6. ASSUME NEW r \in Request,
             \/ HandlerStep(r) \/ HandlerDropped(r)
             \/ \E o \in Owner : AdmitAnonymous(r, o) \/ AcquirePermit(r, o)
      PROVE  OwnersInv'
  <2>1. UNCHANGED <<proc, lease, lapsed>> /\ OwnerFollows(r)'
    BY <1>1, <1>6, HandlerPhases, HandlerOwners, AdmissionOwners
  <2>2. ASSUME NEW q \in Request, q # r PROVE permit'[q] = permit[q]
    BY <1>1, <1>6, <2>2 DEF TypeOK, HandlerStep, HandlerDropped, AdmitAnonymous, AcquirePermit,
       tables, SelectAndStart, RecordAcceptedUse, Attempting, FinishWithAttempt,
       FinishWithOpenAttempts, ReleasePermitNow, DropRecovery, RetryRelease, RetryableFailure,
       HealthUpdateFailed, ConclusiveAnswer, InjectedPostFrameFailure, RefuseFixture,
       BeginPriming, HandOffStream, StreamEnded, FailOver, NoFailoverLeft, StartNextAttempt
  <2>3. ASSUME NEW q \in Request PROVE OwnerFollows(q)'
    BY <1>1, <1>3, <1>6, <2>1, <2>2, HandlerFrame
  <2> QED BY <1>1, <1>2, <2>1, <2>3 DEF OwnersInv
<1> QED BY <1>4, <1>5, <1>6 DEF Next

(* The open row and the held permit of a request belong to the process that *)
(* serves it, and a row is abandoned only after that process died or let    *)
(* its lease lapse (cleanup_stale_attempts, cleanup_stale_proxy_requests).  *)
THEOREM OwnersCorrect == Spec => []OwnersInv
<1>1. Init => OwnersInv
  BY InitOwnersInv
<1>2. OwnersInv /\ [Next]_vars => OwnersInv'
  BY StepOwnersInv
<1> QED BY <1>1, <1>2, PTL DEF Spec

(* Neither the watchdog nor a starting gateway abandons the request of a    *)
(* process that lives and kept its lease, whoever holds the vault lock.     *)
THEOREM LiveOwnersKeepTheirRequests == Spec => []LiveOwnerIsNeverAbandoned
<1>1. OwnersInv => LiveOwnerIsNeverAbandoned
  BY DEF OwnersInv, OwnerFollows, LiveOwnerIsNeverAbandoned
<1> QED BY <1>1, OwnersCorrect, PTL

(* A request of the limited client in flight for an owner that kept its     *)
(* lease holds a permit: no cleanup and no retry releases it under it.      *)
THEOREM InFlightRequestsHoldPermits == Spec => []InFlightHoldsPermit
<1>1. OwnersInv => InFlightHoldsPermit
  BY DEF OwnersInv, OwnerFollows, InFlightHoldsPermit
<1> QED BY <1>1, OwnersCorrect, PTL

(* Only an admission takes a permit, and it counts those held first. *)
LEMMA HeldPermitsStep ==
  ASSUME TypeOK, [Next]_vars, IsFiniteSet(HeldPermits), Cardinality(HeldPermits) <= MaxConcurrency
  PROVE  IsFiniteSet(HeldPermits)' /\ Cardinality(HeldPermits)' <= MaxConcurrency
<1> DEFINE H == HeldPermits
           G == HeldPermits'
<1>1. ASSUME G \subseteq H PROVE IsFiniteSet(G) /\ Cardinality(G) <= MaxConcurrency
  <2>1. /\ IsFiniteSet(G) /\ Cardinality(G) <= Cardinality(H)
        /\ Cardinality(G) \in Nat /\ Cardinality(H) \in Nat
    BY <1>1, FS_Subset, FS_CardinalityType
  <2> QED BY <2>1, LedgerAssumption
<1>2. ASSUME UNCHANGED vars PROVE G \subseteq H
  BY <1>2 DEF vars, HeldPermits
<1>3. ASSUME NEW o \in Owner,
             OpenVault(o) \/ WatchdogStep(o) \/ Crash(o) \/ LeaseExpires(o) \/ LoseSession(o)
      PROVE  G \subseteq H
  BY <1>3, ProcessRecords DEF HeldPermits
<1>4. ASSUME NEW r \in Request, HandlerStep(r) \/ HandlerDropped(r)
      PROVE  G \subseteq H
  <2>1. ASSUME NEW q \in Request, q # r PROVE permit'[q] = permit[q]
    BY <1>4, <2>1 DEF TypeOK, HandlerStep, HandlerDropped,
       tables, SelectAndStart, RecordAcceptedUse, Attempting, FinishWithAttempt,
       FinishWithOpenAttempts, ReleasePermitNow, DropRecovery, RetryRelease, RetryableFailure,
       HealthUpdateFailed, ConclusiveAnswer, InjectedPostFrameFailure, RefuseFixture,
       BeginPriming, HandOffStream, StreamEnded, FailOver, NoFailoverLeft, StartNextAttempt
  <2>2. permit'[r] = permit[r] \/ permit'[r].state = "released"
    BY <1>4, HandlerPhases
  <2> QED BY <2>1, <2>2 DEF HeldPermits
<1>5. ASSUME NEW r \in Request, NEW o \in Owner, AdmitAnonymous(r, o) \/ AcquirePermit(r, o)
      PROVE  IsFiniteSet(G) /\ Cardinality(G) <= MaxConcurrency
  <2>1. CASE permit' = permit
    BY <1>1, <2>1 DEF HeldPermits
  <2>2. CASE /\ Cardinality(HeldPermits) < MaxConcurrency
             /\ permit' = [permit EXCEPT ![r] = [state |-> "held", owner |-> o]]
    <3>1. G = H \cup {r}
      BY <2>2 DEF HeldPermits, TypeOK
    <3>2. /\ IsFiniteSet(G) /\ Cardinality(G) \in Nat /\ Cardinality(H) \in Nat
          /\ Cardinality(G) <= Cardinality(H) + 1
      BY <3>1, FS_AddElement, FS_CardinalityType
    <3> QED BY <2>2, <3>2, LedgerAssumption
  <2> QED BY <1>5, <2>1, <2>2 DEF AdmitAnonymous, AcquirePermit, tables
<1> HIDE DEF G, H
<1>6. ASSUME NEW r \in Request,
             \/ HandlerStep(r) \/ HandlerDropped(r)
             \/ \E o \in Owner : AdmitAnonymous(r, o) \/ AcquirePermit(r, o)
      PROVE  IsFiniteSet(G) /\ Cardinality(G) <= MaxConcurrency
  BY <1>1, <1>4, <1>5, <1>6
<1>7. IsFiniteSet(G) /\ Cardinality(G) <= MaxConcurrency
  BY <1>1, <1>2, <1>3, <1>6 DEF Next
<1> QED BY <1>7 DEF G

(* The concurrency limit of the downstream credential, for any number of    *)
(* requests: neither the permits held nor the provider calls that living    *)
(* owners still make for it are ever more than max_concurrency.             *)
THEOREM ConcurrencyIsLimited == Spec => []ConcurrencyLimit
<1> DEFINE Inv == OwnersInv /\ IsFiniteSet(HeldPermits) /\ Cardinality(HeldPermits) <= MaxConcurrency
<1>1. Init => Inv
  <2>1. ASSUME Init PROVE HeldPermits = {}
    BY <2>1 DEF Init, HeldPermits
  <2> QED BY <2>1, InitOwnersInv, FS_EmptySet, LedgerAssumption
<1>2. Inv /\ [Next]_vars => Inv'
  BY StepOwnersInv, HeldPermitsStep DEF OwnersInv, FollowsInv, IInv
<1>3. Inv => ConcurrencyLimit
  <2>1. ASSUME Inv PROVE ConcurrencyLimit
    <3>1. {r \in Request : InFlight(r)} \subseteq HeldPermits
      BY <2>1 DEF OwnersInv, OwnerFollows, HeldPermits
    <3>2. /\ Cardinality({r \in Request : InFlight(r)}) <= Cardinality(HeldPermits)
          /\ Cardinality({r \in Request : InFlight(r)}) \in Nat
          /\ Cardinality(HeldPermits) \in Nat
      BY <2>1, <3>1, FS_Subset, FS_CardinalityType
    <3> QED BY <2>1, <3>2, LedgerAssumption DEF ConcurrencyLimit
  <2> QED BY <2>1
<1> HIDE DEF Inv
<1> QED BY <1>1, <1>2, <1>3, PTL DEF Spec
-----------------------------------------------------------------------------
(* The contract.  A request whose row is open has a last call that is open,  *)
(* failed or was abandoned: this is what a handler between two attempts      *)
(* relies on, and every move of the contract keeps it.                       *)

MayGoOn == {"started", "failed", "abandoned_after_restart"}
OpenRowsGoOn == \A r \in Request : RowIsOpen(r) => LastOutcome(r) \in MayGoOn

ContractInv == FollowsInv /\ OpenRowsGoOn

LEMMA LastIsOpen ==
  ASSUME TypeOK, NEW r \in Request, AttemptsFollow(r)
  PROVE  /\ LastOutcome(r) = "started" => OpenAttempts(r) = {Len(attempts[r])}
         /\ LastOutcome(r) # "started" => OpenAttempts(r) = {}
<1>1. attempts[r] \in Seq(Attempt) /\ DOMAIN attempts[r] = 1 .. Len(attempts[r])
      /\ Len(attempts[r]) \in Nat
  BY DEF TypeOK
<1>2. \A i \in OpenAttempts(r) : i = Len(attempts[r])
  BY DEF AttemptsFollow
<1>3. CASE attempts[r] = <<>>
  BY <1>3 DEF LastOutcome, OpenAttempts
<1>4. CASE attempts[r] # <<>>
  <2>1. Len(attempts[r]) \in DOMAIN attempts[r]
    BY <1>1, <1>4
  <2>2. LastOutcome(r) = attempts[r][Len(attempts[r])].outcome
    BY <1>4 DEF LastOutcome, LastAttempt
  <2> QED BY <1>2, <2>1, <2>2 DEF OpenAttempts
<1> QED BY <1>3, <1>4

(* What a statement that answers no attempt and adds none does to the calls. *)
LEMMA SettledIsQuiet ==
  ASSUME TypeOK, NEW r \in Request, AttemptsSettle(r)
  PROVE  /\ TriedKeys(r)' = TriedKeys(r) /\ FrameSeen(r)' = FrameSeen(r)
         /\ attempts[r] = <<>> <=> attempts'[r] = <<>>
<1>1. TriedKeys(r)' = TriedKeys(r) /\ FrameSeen(r)' = FrameSeen(r)
  BY DEF AttemptsSettle, TriedKeys, FrameSeen
<1>2. attempts[r] = <<>> <=> attempts'[r] = <<>>
  BY DEF AttemptsSettle, TypeOK
<1> QED BY <1>1, <1>2

LEMMA LastOfSettled ==
  ASSUME TypeOK, TypeOK', NEW r \in Request, Len(attempts'[r]) = Len(attempts[r])
  PROVE  /\ attempts[r] = <<>> => LastOutcome(r) = "none" /\ LastOutcome(r)' = "none"
         /\ attempts[r] # <<>> =>
              /\ Len(attempts[r]) \in DOMAIN attempts[r]
              /\ LastOutcome(r) = attempts[r][Len(attempts[r])].outcome
              /\ LastOutcome(r)' = attempts'[r][Len(attempts[r])].outcome
<1>1. attempts[r] \in Seq(Attempt) /\ attempts'[r] \in Seq(Attempt)
  BY DEF TypeOK
<1>2. attempts[r] = <<>> <=> attempts'[r] = <<>>
  BY <1>1
<1>3. attempts[r] # <<>> => Len(attempts[r]) \in DOMAIN attempts[r]
  BY <1>1
<1> QED BY <1>2, <1>3 DEF LastOutcome, LastAttempt

(* The contract, read through the mapping. *)
LEMMA MappedStand ==
  ASSUME NEW r \in Request, NEW v, NEW c, row'[r].outcome = v, LastOutcome(r)' = c
  PROVE  Contract!Stand(r, v, c)
BY DEF Contract!Stand

LEMMA MappedCalls ==
  ASSUME NEW r \in Request
  PROVE  /\ Contract!CallsNobody(r) <=> TriedKeys(r)' = TriedKeys(r)
         /\ Contract!Quiet(r) <=> TriedKeys(r)' = TriedKeys(r) /\ FrameSeen(r)' = FrameSeen(r)
         /\ \A k : Contract!Calls(r, k) <=>
                     TriedKeys(r)' = TriedKeys(r) \cup {k} /\ FrameSeen(r)' = FALSE
BY DEF Contract!CallsNobody, Contract!Quiet, Contract!Calls

LEMMA UntouchedStays ==
  ASSUME NEW r \in Request, row'[r].outcome = row[r].outcome, attempts'[r] = attempts[r]
  PROVE  Contract!Stays(r)
<1>1. /\ LastOutcome(r)' = LastOutcome(r) /\ TriedKeys(r)' = TriedKeys(r)
      /\ FrameSeen(r)' = FrameSeen(r)
  BY DEF LastOutcome, LastAttempt, TriedKeys, FrameSeen
<1>2. Contract!Stand(r, row[r].outcome, LastOutcome(r)) /\ Contract!Quiet(r)
  BY <1>1, MappedCalls DEF Contract!Stand
<1> QED BY <1>2 DEF Contract!Stays, Contract!Stand

LEMMA SelectMoves ==
  ASSUME TypeOK, NEW r \in Request, RowsFollowHandlers, SelectAndStart(r)
  PROVE  Contract!Moves(r) \/ Contract!Stays(r)
<1>1. attempts[r] = <<>> /\ row[r].outcome = "none"
  BY DEF RowsFollowHandlers, BeforeRow, SelectAndStart
<1>2. CASE row' = row /\ attempts' = attempts
  BY <1>2, UntouchedStays
<1>3. CASE /\ row' = [row EXCEPT ![r] = [outcome |-> "failed", class |-> "reported",
                                         failovers |-> 0, owner |-> handler[r].owner]]
           /\ attempts' = attempts
  <2>1. row'[r].outcome = "failed"
    BY <1>3 DEF TypeOK
  <2>2. /\ LastOutcome(r)' = LastOutcome(r) /\ TriedKeys(r)' = TriedKeys(r)
        /\ FrameSeen(r)' = FrameSeen(r)
    BY <1>3 DEF LastOutcome, LastAttempt, TriedKeys, FrameSeen
  <2>3. Contract!Stand(r, "failed", LastOutcome(r)) /\ Contract!Quiet(r)
    BY <2>1, <2>2, MappedCalls DEF Contract!Stand
  <2>4. Contract!Reject(r)
    BY <1>1, <2>3 DEF Contract!Reject, Contract!Stand
  <2> QED BY <2>4 DEF Contract!Moves
<1>4. ASSUME NEW k \in Key,
             row' = [row EXCEPT ![r] = [outcome |-> "started", class |-> "none",
                                        failovers |-> 0, owner |-> handler[r].owner]],
             attempts' = [attempts EXCEPT ![r] = <<NewAttempt(k, handler[r].owner)>>]
      PROVE  Contract!Moves(r)
  <2> DEFINE a == NewAttempt(k, handler[r].owner)
  <2>1. attempts'[r] = <<a>> /\ row'[r].outcome = "started"
    BY <1>4 DEF TypeOK
  <2>2. a.key = k /\ a.outcome = "started" /\ ~a.response_started
    BY DEF NewAttempt
  <2> HIDE DEF a
  <2>3. /\ DOMAIN attempts'[r] = {1} /\ Len(attempts'[r]) = 1 /\ attempts'[r][1] = a
        /\ attempts'[r] # <<>>
    BY <2>1
  <2>4. LastOutcome(r)' = "started"
    BY <2>2, <2>3 DEF LastOutcome, LastAttempt
  <2>5. FrameSeen(r)' = FALSE
    BY <2>2, <2>3 DEF FrameSeen
  <2>6. TriedKeys(r)' = {k} /\ TriedKeys(r) = {}
    BY <1>1, <2>2, <2>3 DEF TriedKeys
  <2>7. Contract!Calls(r, k) /\ Contract!Stand(r, "started", "started")
    BY <2>1, <2>4, <2>5, <2>6, MappedStand, MappedCalls
  <2>8. Contract!Accept(r)
    BY <1>1, <2>7 DEF Contract!Accept
  <2> QED BY <2>8 DEF Contract!Moves
<1> QED BY <1>2, <1>3, <1>4 DEF SelectAndStart

(* The first frame is recorded in the open attempt, the last one. *)
LEMMA MarkAnswers ==
  ASSUME TypeOK, TypeOK', NEW r \in Request, AttemptsFollow(r), CurrentAttempt(r) # {},
         MarkResponseStarted(r), row'[r] = row[r]
  PROVE  Contract!Moves(r)
<1>1. CurrentAttempt(r) = OpenAttempts(r)
  BY CurrentIsOpen
<1>2. LastOutcome(r) = "started" /\ OpenAttempts(r) = {Len(attempts[r])}
  BY <1>1, LastIsOpen
<1>3. LastOutcome(r)' = "started"
  BY <1>2, MarkFields, LastOfSettled
<1>4. TriedKeys(r)' = TriedKeys(r)
  BY MarkFields DEF TriedKeys
<1>5. FrameSeen(r)' = TRUE
  BY <1>1, <1>2, MarkFields DEF FrameSeen, OpenAttempts
<1>6. Contract!Stand(r, row[r].outcome, "started") /\ Contract!CallsNobody(r)
  BY <1>3, <1>4, MappedStand, MappedCalls
<1>7. Contract!Answer(r)
  BY <1>2, <1>5, <1>6 DEF Contract!Answer
<1> QED BY <1>7 DEF Contract!Moves

LEMMA RefuseMoves ==
  ASSUME TypeOK, NEW r \in Request, RefuseFixture(r)
  PROVE  Contract!Moves(r) \/ Contract!Stays(r)
<1>1. attempts'[r] = attempts[r] /\ r \in FixturedRequests
  BY DEF RefuseFixture
<1>2. CASE row' = row
  BY <1>1, <1>2, UntouchedStays
<1>3. CASE RowIsOpen(r) /\ CloseRow(r, "failed", "qa_fixture_contract_error")
  <2>1. row'[r].outcome = "failed" /\ row[r].outcome = "started"
    BY <1>3 DEF CloseRow, RowIsOpen, TypeOK
  <2>2. /\ LastOutcome(r)' = LastOutcome(r) /\ TriedKeys(r)' = TriedKeys(r)
        /\ FrameSeen(r)' = FrameSeen(r)
    BY <1>1 DEF LastOutcome, LastAttempt, TriedKeys, FrameSeen
  <2>3. Contract!Stand(r, "failed", LastOutcome(r)) /\ Contract!Quiet(r)
    BY <2>1, <2>2, MappedCalls DEF Contract!Stand
  <2>4. Contract!Refuse(r)
    BY <1>1, <2>1, <2>3 DEF Contract!Refuse, Contract!Stand
  <2> QED BY <2>4 DEF Contract!Moves
<1> QED BY <1>2, <1>3 DEF RefuseFixture

(* Failing over closes the open attempt alone; nothing was answered. *)
LEMMA FailOverMoves ==
  ASSUME TypeOK, TypeOK', NEW r \in Request, Follows(r), FailOver(r)
  PROVE  Contract!Moves(r) \/ Contract!Stays(r)
<1>1. row'[r] = row[r] /\ ~Answered(r)
  BY DEF FailOver, Follows, FramesFollow, FramelessPhases
<1>2. CASE attempts' = attempts
  BY <1>1, <1>2, UntouchedStays
<1>3. CASE CurrentAttempt(r) # {} /\ CloseAttempts(r, CurrentAttempt(r), "failed")
  <2>1. CurrentAttempt(r) = {Len(attempts[r])} /\ LastOutcome(r) = "started"
    BY <1>3, CurrentIsOpen, LastIsOpen DEF Follows
  <2>2. /\ AttemptsSettle(r)
        /\ \A i \in DOMAIN attempts[r] :
             attempts'[r][i].outcome =
               IF i \in CurrentAttempt(r) THEN "failed" ELSE attempts[r][i].outcome
    BY <1>3, CloseFields DEF Closed
  <2>3. LastOutcome(r)' = "failed"
    BY <2>1, <2>2, LastOfSettled DEF AttemptsSettle
  <2>4. Contract!Stand(r, row[r].outcome, "failed") /\ Contract!Quiet(r)
    BY <1>1, <2>2, <2>3, SettledIsQuiet, MappedStand, MappedCalls
  <2>5. ~FrameSeen(r)
    BY <1>1 DEF Answered, FrameSeen
  <2>6. Contract!CallFails(r)
    BY <2>1, <2>4, <2>5 DEF Contract!CallFails
  <2> QED BY <2>6 DEF Contract!Moves
<1> QED BY <1>2, <1>3 DEF FailOver

LEMMA NextAttemptMoves ==
  ASSUME TypeOK, NEW r \in Request, RowsFollowHandlers, Follows(r),
         RowIsOpen(r) => LastOutcome(r) \in MayGoOn, StartNextAttempt(r)
  PROVE  Contract!Moves(r) \/ Contract!Stays(r)
<1> DEFINE a == NewAttempt(handler[r].key, handler[r].owner)
           n == Len(attempts[r])
<1>1. /\ row'[r] = row[r] /\ handler[r].key \in Key /\ ~Answered(r) /\ OpenAttempts(r) = {}
      /\ \A i \in DOMAIN attempts[r] : attempts[r][i].key # handler[r].key
  BY DEF StartNextAttempt, RowsFollowHandlers, Follows, FramesFollow, FramelessPhases,
     AttemptsFollow
<1>2. CASE attempts' = attempts
  BY <1>1, <1>2, UntouchedStays
<1>3. CASE RowIsOpen(r) /\ attempts' = [attempts EXCEPT ![r] = Append(@, a)]
  <2>1. a.key = handler[r].key /\ a.outcome = "started" /\ ~a.response_started
    BY DEF NewAttempt
  <2>2. attempts'[r] = Append(attempts[r], a) /\ attempts[r] \in Seq(Attempt)
    BY <1>3 DEF TypeOK
  <2> HIDE DEF a
  <2>3. /\ n \in Nat /\ DOMAIN attempts[r] = 1 .. n
        /\ DOMAIN attempts'[r] = 1 .. (n + 1) /\ Len(attempts'[r]) = n + 1
        /\ attempts'[r][n + 1] = a
        /\ \A i \in 1 .. n : attempts'[r][i] = attempts[r][i]
    BY <2>2
  <2> HIDE DEF n
  <2>4. LastOutcome(r)' = "started"
    <3>1. attempts'[r] # <<>>
      BY <2>3
    <3> QED BY <2>1, <2>3, <3>1 DEF LastOutcome, LastAttempt
  <2>5. FrameSeen(r)' = FALSE /\ ~FrameSeen(r)
    BY <1>1, <2>1, <2>3 DEF FrameSeen, Answered
  <2>6. TriedKeys(r)' = TriedKeys(r) \cup {handler[r].key}
    <3>1. DOMAIN attempts'[r] = DOMAIN attempts[r] \cup {n + 1}
      BY <2>3
    <3>2. n + 1 \notin DOMAIN attempts[r]
      BY <2>3
    <3>3. \A i \in DOMAIN attempts[r] : attempts'[r][i].key = attempts[r][i].key
      BY <2>3
    <3> QED BY <2>1, <2>3, <3>1, <3>2, <3>3 DEF TriedKeys
  <2>7. handler[r].key \in Key \ TriedKeys(r)
    BY <1>1 DEF TriedKeys
  <2>8. LastOutcome(r) \in {"failed", "abandoned_after_restart"}
    BY <1>1, <1>3, LastIsOpen DEF Follows, MayGoOn
  <2>9. Contract!Calls(r, handler[r].key) /\ Contract!Stand(r, "started", "started")
    BY <1>1, <1>3, <2>4, <2>5, <2>6, MappedStand, MappedCalls DEF RowIsOpen
  <2>10. Contract!CallNext(r)
    BY <1>3, <2>5, <2>7, <2>8, <2>9 DEF Contract!CallNext, RowIsOpen
  <2> QED BY <2>10 DEF Contract!Moves
<1> QED BY <1>2, <1>3 DEF StartNextAttempt, MayInsertAttempt

LEMMA FinishMoves ==
  ASSUME TypeOK, TypeOK', NEW r \in Request, Follows(r), FinishWithAttempt(r)
  PROVE  Contract!Moves(r) \/ Contract!Stays(r)
<1>1. CASE row' = row /\ attempts' = attempts
  BY <1>1, UntouchedStays
<1>2. CASE /\ CurrentAttempt(r) # {} /\ RowIsOpen(r)
           /\ CloseAttempts(r, CurrentAttempt(r), handler[r].target)
           /\ CloseRow(r, handler[r].target, "reported")
  <2> DEFINE v == handler[r].target
  <2>1. v \in {"succeeded", "failed"} /\ v \in Closed
    BY DEF TypeOK, Handler, Closed
  <2>2. CurrentAttempt(r) = {Len(attempts[r])} /\ LastOutcome(r) = "started"
    BY <1>2, CurrentIsOpen, LastIsOpen DEF Follows
  <2>3. row'[r].outcome = v /\ row[r].outcome = "started"
    BY <1>2 DEF CloseRow, RowIsOpen, TypeOK
  <2>4. /\ AttemptsSettle(r)
        /\ \A i \in DOMAIN attempts[r] :
             attempts'[r][i].outcome = IF i \in CurrentAttempt(r) THEN v ELSE attempts[r][i].outcome
    BY <1>2, <2>1, CloseFields
  <2> HIDE DEF v
  <2>5. LastOutcome(r)' = v
    BY <2>2, <2>4, LastOfSettled DEF AttemptsSettle
  <2>6. Contract!Stand(r, v, v) /\ Contract!Quiet(r)
    BY <2>3, <2>4, <2>5, SettledIsQuiet, MappedCalls DEF Contract!Stand
  <2>7. Contract!Finish(r)
    BY <2>1, <2>2, <2>3, <2>6 DEF Contract!Finish, Contract!Stand
  <2> QED BY <2>7 DEF Contract!Moves
<1> QED BY <1>1, <1>2 DEF FinishWithAttempt

LEMMA CloseMoves ==
  ASSUME TypeOK, TypeOK', NEW r \in Request, Follows(r), CloseWithOpenAttempts(r)
  PROVE  Contract!Moves(r)
<1> DEFINE v == DropOutcome(handler[r].class)
<1>1. v \in {"failed", "cancelled"}
  BY DropOutcomeType
<1>2. row'[r].outcome = v /\ row[r].outcome = "started"
  BY DEF CloseWithOpenAttempts, CloseRow, RowIsOpen, TypeOK
<1>3. v = "cancelled" => FrameSeen(r)
  BY DEF DropOutcome, Follows, FramesFollow, Answered, FrameSeen
<1>4. FrameSeen(r) => FrameSeen(r)'
  BY DropFields DEF Follows, OpenAttempts, FrameSeen
<1>5. TriedKeys(r)' = TriedKeys(r)
  BY DropFields DEF Follows, TriedKeys
<1>6. /\ LastOutcome(r) = "started" => LastOutcome(r)' = v
      /\ LastOutcome(r) # "started" => LastOutcome(r)' = LastOutcome(r)
  BY DropFields, LastIsOpen, LastOfSettled DEF Follows
<1>7. LastOutcome(r) # "started" => FrameSeen(r)' = FrameSeen(r)
  BY DropFields, LastIsOpen DEF Follows, FrameSeen
<1>8. FrameSeen(r)' \in {FrameSeen(r), TRUE}
  <2>1. FrameSeen(r) \in BOOLEAN /\ FrameSeen(r)' \in BOOLEAN
    BY DEF FrameSeen
  <2> QED BY <1>4, <2>1
<1> HIDE DEF v
<1>9. Contract!CallsNobody(r)
  BY <1>5, MappedCalls
<1>10. /\ LastOutcome(r) = "started" => Contract!Stand(r, v, v)
       /\ LastOutcome(r) # "started" => Contract!Stand(r, v, LastOutcome(r))
  BY <1>2, <1>6 DEF Contract!Stand
<1>11. Contract!Drop(r)
  BY <1>1, <1>2, <1>3, <1>4, <1>7, <1>8, <1>9, <1>10 DEF Contract!Drop, Contract!Stand
<1> QED BY <1>11 DEF Contract!Moves

(* What the processes do to the attempts of a request: they are abandoned. *)
LEMMA ProcessCalls ==
  ASSUME TypeOK, NEW q \in Request, NEW o \in Owner,
         \/ OpenVault(o) \/ WatchdogStep(o) \/ Crash(o) \/ LeaseExpires(o) \/ LoseSession(o)
  PROVE  /\ AttemptsSettle(q)
         /\ \A i \in DOMAIN attempts[q] :
              \/ attempts'[q][i].outcome = attempts[q][i].outcome
              \/ i \in OpenAttempts(q) /\ attempts'[q][i].outcome = "abandoned_after_restart"
<1>1. CASE OpenVault(o)
  <2>1. Len(attempts'[q]) = Len(attempts[q]) /\ DOMAIN attempts'[q] = DOMAIN attempts[q]
    BY <1>1, VaultFields
  <2>2. ASSUME NEW i \in DOMAIN attempts[q]
        PROVE  /\ attempts'[q][i].key = attempts[q][i].key
               /\ attempts'[q][i].response_started = attempts[q][i].response_started
               /\ attempts'[q][i].outcome = "started" =>
                    /\ attempts[q][i].outcome = "started"
                    /\ attempts'[q][i].owner = attempts[q][i].owner
               /\ \/ attempts'[q][i].outcome = attempts[q][i].outcome
                  \/ i \in OpenAttempts(q) /\ attempts'[q][i].outcome = "abandoned_after_restart"
    BY <1>1, VaultFields DEF OpenAttempts
  <2> QED BY <2>1, <2>2 DEF AttemptsSettle
<1>2. CASE CleanupStaleAttempts(o)
  <2>1. attempts'[q] = AbandonedAttempts(StaleOwners)[q] /\ StaleOwners \in SUBSET Owner
    BY <1>2 DEF CleanupStaleAttempts, StaleOwners
  <2>2. Len(attempts'[q]) = Len(attempts[q]) /\ DOMAIN attempts'[q] = DOMAIN attempts[q]
    BY <2>1, AbandonFields
  <2>3. ASSUME NEW i \in DOMAIN attempts[q]
        PROVE  /\ attempts'[q][i].key = attempts[q][i].key
               /\ attempts'[q][i].response_started = attempts[q][i].response_started
               /\ attempts'[q][i].owner = attempts[q][i].owner
               /\ attempts'[q][i].outcome = "started" => attempts[q][i].outcome = "started"
               /\ \/ attempts'[q][i].outcome = attempts[q][i].outcome
                  \/ i \in OpenAttempts(q) /\ attempts'[q][i].outcome = "abandoned_after_restart"
    BY <2>1, AbandonFields DEF OpenAttempts
  <2> QED BY <2>2, <2>3 DEF AttemptsSettle
<1>3. CASE attempts' = attempts
  BY <1>3, UnchangedSettle
<1> QED BY <1>1, <1>2, <1>3 DEF WatchdogStep, Heartbeat, CleanupStaleRequests,
           CleanupStalePermits, Crash, LeaseExpires, LoseSession, tables

LEMMA ProcessMoves ==
  ASSUME TypeOK, TypeOK', NEW q \in Request, NEW o \in Owner, Follows(q),
         \/ OpenVault(o) \/ WatchdogStep(o) \/ Crash(o) \/ LeaseExpires(o) \/ LoseSession(o)
  PROVE  Contract!Moves(q) \/ Contract!Stays(q)
<1>1. /\ AttemptsSettle(q)
      /\ \A i \in DOMAIN attempts[q] :
           \/ attempts'[q][i].outcome = attempts[q][i].outcome
           \/ i \in OpenAttempts(q) /\ attempts'[q][i].outcome = "abandoned_after_restart"
  BY ProcessCalls
<1>2. Contract!Quiet(q)
  BY <1>1, SettledIsQuiet, MappedCalls
<1>3. \/ LastOutcome(q)' = LastOutcome(q)
      \/ LastOutcome(q) = "started" /\ LastOutcome(q)' = "abandoned_after_restart"
  BY <1>1, LastOfSettled DEF AttemptsSettle, OpenAttempts
<1>4. \/ row'[q].outcome = row[q].outcome
      \/ row[q].outcome = "started" /\ row'[q].outcome = "abandoned_after_restart"
  BY ProcessRowFields DEF SameVerdict, RowIsOpen
<1> QED BY <1>2, <1>3, <1>4
     DEF Contract!Moves, Contract!Stays, Contract!AbandonCall, Contract!AbandonRequest,
         Contract!Stand

LEMMA ContractStep ==
  ASSUME ContractInv, [Next]_vars
  PROVE  Contract!Next
<1>1. TypeOK /\ TypeOK' /\ RowsFollowHandlers
  BY StepFollowsInv DEF ContractInv, FollowsInv, IInv
<1> SUFFICES ASSUME NEW q \in Request
             PROVE  Contract!Moves(q) \/ Contract!Stays(q)
  BY DEF Contract!Next
<1>2. Follows(q) /\ AttemptsFollow(q) /\ (RowIsOpen(q) => LastOutcome(q) \in MayGoOn)
  BY DEF ContractInv, FollowsInv, Follows, OpenRowsGoOn
<1>3. CASE row'[q] = row[q] /\ attempts'[q] = attempts[q]
  BY <1>3, UntouchedStays
<1>4. CASE UNCHANGED vars
  BY <1>3, <1>4 DEF vars
<1>5. ASSUME NEW o \in Owner,
             OpenVault(o) \/ WatchdogStep(o) \/ Crash(o) \/ LeaseExpires(o) \/ LoseSession(o)
      PROVE  Contract!Moves(q) \/ Contract!Stays(q)
  BY <1>1, <1>2, <1>5, ProcessMoves
<1>6. ASSUME NEW r \in Request,
             \/ HandlerStep(r) \/ HandlerDropped(r)
             \/ \E o \in Owner : AdmitAnonymous(r, o) \/ AcquirePermit(r, o)
      PROVE  Contract!Moves(q) \/ Contract!Stays(q)
  <2>1. CASE q # r
    BY <1>1, <1>3, <1>6, <2>1, HandlerFrame
  <2>2. CASE q = r /\ \E o \in Owner : AdmitAnonymous(r, o) \/ AcquirePermit(r, o)
    BY <1>3, <2>2 DEF AdmitAnonymous, AcquirePermit, tables
  <2>3. CASE q = r /\ (HandlerStep(r) \/ HandlerDropped(r))
    <3>1. CASE \/ RecordAcceptedUse(r) \/ RetryableFailure(r) \/ HealthUpdateFailed(r)
               \/ ConclusiveAnswer(r) \/ BeginPriming(r) \/ StreamEnded(r) \/ NoFailoverLeft(r)
               \/ HandlerDropped(r) \/ ReleasePermitNow(r) \/ RetryRelease(r)
      BY <1>3, <2>3, <3>1 DEF RecordAcceptedUse, RetryableFailure, HealthUpdateFailed,
         ConclusiveAnswer, BeginPriming, StreamEnded, NoFailoverLeft, HandlerDropped,
         ReleasePermitNow, RetryRelease, tables
    <3>2. CASE HandOffStream(r) \/ InjectedPostFrameFailure(r)
      <4>1. row'[q] = row[q] /\ \/ attempts' = attempts
                                \/ CurrentAttempt(q) # {} /\ MarkResponseStarted(q)
        BY <2>3, <3>2 DEF HandOffStream, InjectedPostFrameFailure
      <4> QED BY <1>1, <1>2, <1>3, <4>1, MarkAnswers
    <3>3. CASE FinishWithOpenAttempts(r) \/ DropRecovery(r)
      <4>1. CloseWithOpenAttempts(q) \/ UNCHANGED <<row, attempts>>
        BY <2>3, <3>3 DEF FinishWithOpenAttempts, DropRecovery
      <4> QED BY <1>1, <1>2, <1>3, <4>1, CloseMoves
    <3> QED BY <1>1, <1>2, <2>3, <3>1, <3>2, <3>3, SelectMoves, RefuseMoves, FailOverMoves,
               NextAttemptMoves, FinishMoves
               DEF HandlerStep, Attempting
  <2> QED BY <1>6, <2>1, <2>2, <2>3
<1> QED BY <1>4, <1>5, <1>6 DEF Next

(* A move of the contract keeps what an open row needs to go on. *)
LEMMA OpenRowsGoOnStep == OpenRowsGoOn /\ Contract!Next => OpenRowsGoOn'
<1> SUFFICES ASSUME OpenRowsGoOn, Contract!Next, NEW r \in Request, RowIsOpen(r)'
             PROVE  LastOutcome(r)' \in MayGoOn
  BY DEF OpenRowsGoOn
<1>1. row[r].outcome = "started" => LastOutcome(r) \in MayGoOn
  BY DEF OpenRowsGoOn, RowIsOpen
<1>2. row'[r].outcome = "started"
  BY DEF RowIsOpen
<1>3. Contract!Moves(r) \/ Contract!Stays(r)
  BY DEF Contract!Next
<1>4. CASE Contract!Accept(r) \/ Contract!CallNext(r)
  BY <1>4 DEF Contract!Accept, Contract!CallNext, Contract!Stand, MayGoOn
<1>5. CASE \/ Contract!Answer(r) \/ Contract!CallFails(r) \/ Contract!AbandonCall(r)
           \/ Contract!Stays(r)
  BY <1>1, <1>2, <1>5
     DEF Contract!Answer, Contract!CallFails, Contract!AbandonCall, Contract!Stays,
         Contract!Stand, MayGoOn
<1>6. CASE \/ Contract!Reject(r) \/ Contract!Finish(r) \/ Contract!Drop(r) \/ Contract!Refuse(r)
           \/ Contract!AbandonRequest(r)
  BY <1>2, <1>6
     DEF Contract!Reject, Contract!Finish, Contract!Drop, Contract!Refuse,
         Contract!AbandonRequest, Contract!Stand
<1> QED BY <1>3, <1>4, <1>5, <1>6 DEF Contract!Moves

LEMMA InitContractInv == Init => ContractInv /\ Contract!Init
<1> SUFFICES ASSUME Init PROVE ContractInv /\ Contract!Init
  OBVIOUS
<1>1. \A r \in Request : row[r].outcome = "none" /\ attempts[r] = <<>>
  BY DEF Init
<1>2. \A r \in Request : LastOutcome(r) = "none" /\ TriedKeys(r) = {} /\ FrameSeen(r) = FALSE
  BY <1>1 DEF LastOutcome, TriedKeys, FrameSeen
<1>3. OpenRowsGoOn
  BY <1>1 DEF OpenRowsGoOn, RowIsOpen
<1>4. Contract!Init
  BY <1>1, <1>2 DEF Contract!Init
<1> QED BY <1>3, <1>4, InitFollowsInv DEF ContractInv

LEMMA StepContractInv == ContractInv /\ [Next]_vars => ContractInv'
BY StepFollowsInv, ContractStep, OpenRowsGoOnStep DEF ContractInv

(* RequestLedger implements LedgerContract for any number of requests, keys *)
(* and processes and under every fault: whoever writes, each request makes  *)
(* a move of the contract or none.                                          *)
THEOREM LedgerKeepsItsContract == Spec => ImplementsContract
<1>1. Init => ContractInv /\ Contract!Init
  BY InitContractInv
<1>2. ContractInv /\ [Next]_vars => ContractInv'
  BY StepContractInv
<1>3. ContractInv /\ [Next]_vars => Contract!Next
  BY ContractStep
<1> QED BY <1>1, <1>2, <1>3, PTL DEF Spec, ImplementsContract, Contract!Spec

=============================================================================
