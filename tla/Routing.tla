------------------------------- MODULE Routing -------------------------------
(***************************************************************************)
(* The choice of the upstream key of a request, for one profile and its two *)
(* slots.  With a database a first attempt is chosen in a transaction that  *)
(* locks the row of routing_state; without one, by the Router in memory,    *)
(* whose cursor is written to the vault file.  A failover asks for a key    *)
(* that was not tried and leaves the cursor alone; which answers fail over  *)
(* is decided by the active routing policy.                                 *)
(* The distribution case of a QA run resets the cursor, sends its requests  *)
(* one after the other and judges where they went.                          *)
(*                                                                         *)
(* KeyVault says when a key may be used and RequestLedger what becomes of a *)
(* request; here keys become usable or not at any time, and a request that  *)
(* was answered is over.                                                    *)
(***************************************************************************)
EXTENDS Naturals, Sequences, FiniteSets

CONSTANTS
  Request,      \* every request a client or a QA run sends
  QaRequest,    \* those of the distribution case
  Generation,   \* those to an endpoint that generates images or videos
  Status,       \* statuses of a provider that refuses
  AuthStatus,   \* 401 and 403, which no policy has to name
  Document,     \* retryable_statuses an administrator may set
  Default,      \* retryable_statuses of the first policy, or of none
  Stores,       \* \subseteq {"database", "file"}
  NoOne

ASSUME RoutingAssumption ==
  /\ QaRequest \subseteq Request /\ IsFiniteSet(Request)
  /\ QaRequest \cap Generation = {}
  /\ AuthStatus \subseteq Status
  /\ Document \subseteq (SUBSET Status) \ {{}} /\ Default \in SUBSET Status
  /\ Stores \subseteq {"database", "file"}
  /\ NoOne \notin Request \cup {1, 2}

VARIABLES
  store,    \* whether NBLB_DATABASE_URL is set; never changes
  usable,   \* slots whose key is hard-eligible
  cursor,   \* the row of routing_state, or the cursor in the vault file
  router,   \* without a database: the slot the Router tries next
  holder,   \* who holds the row, or selection_lock
  request,
  last,     \* the slot of the latest pick, unless the cursor was moved since (history)
  retryable, \* the statuses the active policy names
  qa        \* the distribution case

picking == <<cursor, router, holder, last>>
vars == <<store, usable, picking, request, retryable, qa>>

-----------------------------------------------------------------------------

Slot == {1, 2}
Following(slot) == IF slot = 1 THEN 2 ELSE 1

RequestRecord ==
  [pc: {"new", "choosing", "sent", "done"}, slot: Slot, back: Slot, before: Slot \cup {NoOne},
   full: BOOLEAN, tried: {<<>>} \cup {<<s>> : s \in Slot} \cup {<<s, Following(s)>> : s \in Slot},
   beside: BOOLEAN]
New == [pc |-> "new", slot |-> 1, back |-> 1, before |-> NoOne, full |-> FALSE, tried |-> <<>>,
        beside |-> FALSE]
Over == [New EXCEPT !.pc = "done"]
QaRecord == [pc: {"idle", "sending", "sent", "passed", "failed"}, before: Nat, after: Nat,
             answered: Nat, rows: Seq(Slot)]
Unused == [pc |-> "idle", before |-> 0, after |-> 0, answered |-> 0, rows |-> <<>>]

TypeOK ==
  /\ store \in Stores
  /\ usable \subseteq Slot
  /\ cursor \in [slot: Slot, generation: Nat]
  /\ router \in Slot
  /\ holder \in Request \cup {NoOne}
  /\ request \in [Request -> RequestRecord]
  /\ last \in Slot \cup {NoOne}
  /\ retryable \in Document \cup {Default}
  /\ qa \in QaRecord

Init ==
  /\ store \in Stores
  /\ usable = Slot
  /\ cursor = [slot |-> 1, generation |-> 0]
  /\ router = 1
  /\ holder = NoOne
  /\ request = [r \in Request |-> New]
  /\ last = NoOne
  /\ retryable = Default
  /\ qa = Unused

(* Enabled, cooling, proved: KeyVault. *)
KeysChange ==
  /\ usable' \in SUBSET Slot
  /\ UNCHANGED <<store, picking, request, retryable, qa>>

-----------------------------------------------------------------------------
(* The same choice three times over *)

Least(S) == CHOOSE s \in S : \A t \in S : s <= t

(* select_and_start_request: the slot of the cursor, or the first one *)
Selected(C, next) == IF next \in C THEN next ELSE Least(C)

(* Router::select: the first usable slot from the cursor on, wrapping round *)
RouterSelected(C, next) ==
  LET at(offset) == ((next - 1 + offset) % 2) + 1
      offsets == {o \in 0 .. 1 : at(o) \in C}
  IN  at(Least(offsets))

(* simulate_routing: the head of the slots sorted by (slot # next, slot) *)
Simulated(C, next) ==
  LET before(s, t) == \/ s = next /\ t # next
                      \/ (s = next <=> t = next) /\ s <= t
  IN  CHOOSE s \in C : \A t \in C : before(s, t)

-----------------------------------------------------------------------------
(* First attempts, with a database *)

(* The distribution case needs a database, and sends its next request when  *)
(* the last one is over.                                                    *)
MaySend(r) ==
  store = "database" /\ r \in QaRequest =>
    /\ qa.pc = "sending"
    /\ \A q \in QaRequest : request[q].pc \in {"new", "done"}

(* SELECT next_slot ... FOR UPDATE: others wait for the row. *)
NobodyWaits == TRUE
RowIsFree == holder = NoOne

(* The candidates are read under the lock; without a live owner lease there *)
(* are none, and then the row is written as failed and nothing is sent.     *)
SelectReads(r) ==
  /\ store = "database" /\ request[r].pc = "new" /\ MaySend(r)
  /\ RowIsFree
  /\ \/ /\ usable # {}
        /\ request' = [request EXCEPT ![r].pc = "choosing", ![r].full = (usable = Slot),
                                      ![r].slot = Selected(usable, cursor.slot)]
        /\ holder' = r
     \/ /\ request' = [request EXCEPT ![r].pc = "done"]
        /\ UNCHANGED holder
  /\ UNCHANGED <<store, usable, cursor, router, last, retryable, qa>>

RowsOfQa(r, slot) == IF r \in QaRequest THEN [qa EXCEPT !.rows = Append(@, slot)] ELSE qa

(* Cursor, generation, request and first attempt in one transaction.  When  *)
(* its answer is lost the attempt is there and nothing is sent.             *)
SelectCommits(r) ==
  /\ store = "database" /\ request[r].pc = "choosing"
  /\ LET slot == request[r].slot IN
     /\ cursor' = [slot |-> Following(slot), generation |-> cursor.generation + 1]
     /\ \E pc \in {"sent", "done"} :
          request' = [request EXCEPT ![r] = [New EXCEPT !.pc = pc, !.tried = <<slot>>,
                                                        !.beside = (qa.pc = "sending")]]
     /\ last' = slot
     /\ qa' = RowsOfQa(r, slot)
  /\ holder' = NoOne
  /\ UNCHANGED <<store, usable, router, retryable>>

SelectFails(r) ==
  /\ store = "database" /\ request[r].pc = "choosing"
  /\ request' = [request EXCEPT ![r] = Over]
  /\ holder' = NoOne
  /\ UNCHANGED <<store, usable, cursor, router, last, retryable, qa>>

-----------------------------------------------------------------------------
(* First attempts, without a database *)

SelectionLockFree == holder = NoOne

FileSelects(r) ==
  /\ store = "file" /\ request[r].pc = "new" /\ MaySend(r)
  /\ SelectionLockFree
  /\ \/ /\ usable # {}
        /\ LET slot == RouterSelected(usable, router) IN
           /\ request' = [request EXCEPT ![r].pc = "choosing", ![r].slot = slot,
                                         ![r].back = router, ![r].before = last]
           /\ router' = Following(slot)
           /\ last' = slot
        /\ holder' = r
     \/ /\ usable = {}
        /\ request' = [request EXCEPT ![r].pc = "done"]
        /\ UNCHANGED <<router, last, holder>>
  /\ UNCHANGED <<store, usable, cursor, retryable, qa>>

(* set_cursor writes the vault file. *)
FileCommits(r) ==
  /\ store = "file" /\ request[r].pc = "choosing"
  /\ cursor' = [cursor EXCEPT !.slot = Following(request[r].slot)]
  /\ request' = [request EXCEPT ![r] = [New EXCEPT !.pc = "sent", !.tried = <<request[r].slot>>]]
  /\ holder' = NoOne
  /\ UNCHANGED <<store, usable, router, last, retryable, qa>>

(* set_cursor fails, and the Router takes its selection back; the file may  *)
(* hold the new cursor when only its directory could not be synced.         *)
FileFails(r) ==
  /\ store = "file" /\ request[r].pc = "choosing"
  /\ cursor' \in {cursor, [cursor EXCEPT !.slot = Following(request[r].slot)]}
  /\ router' = request[r].back
  /\ last' = NoOne
  /\ request' = [request EXCEPT ![r] = Over]
  /\ holder' = NoOne
  /\ UNCHANGED <<store, usable, retryable, qa>>

(* The handler is dropped while set_cursor waits: the Router has moved on. *)
FileDropped(r) ==
  /\ store = "file" /\ request[r].pc = "choosing"
  /\ request' = [request EXCEPT ![r] = Over]
  /\ last' = NoOne
  /\ holder' = NoOne
  /\ UNCHANGED <<store, usable, cursor, router, retryable, qa>>

-----------------------------------------------------------------------------
(* Answers and failovers *)

KeyAttempts(r) == IF r \in Generation THEN 1 ELSE Cardinality(Slot)
AttemptsLeft(r) == Len(request[r].tried) < KeyAttempts(r)

(* A body that cannot be used and a provider that cannot be reached fail    *)
(* over too; an accepted job that is lost does not.                         *)
Broken == "broken"
FailsOver(answer) == answer = Broken \/ answer \in AuthStatus \/ answer \in retryable

Answered(r, ok) ==
  /\ request[r].pc = "sent"
  /\ request' = [request EXCEPT ![r].pc = "done"]
  /\ qa' = IF ok /\ r \in QaRequest THEN [qa EXCEPT !.answered = @ + 1] ELSE qa
  /\ UNCHANGED <<store, usable, picking, retryable>>

Refused(r) ==
  \E answer \in Status \cup {Broken} :
    /\ \/ ~FailsOver(answer)
       \/ ~AttemptsLeft(r)
       \/ usable \subseteq {request[r].tried[i] : i \in 1 .. Len(request[r].tried)}
    /\ Answered(r, FALSE)

AdvancedToo(slot) == [slot |-> Following(slot), generation |-> cursor.generation + 1]
AfterFailover(slot) == cursor

(* select_failover_key: the first usable slot that was not tried *)
FailoverStarts(r) ==
  /\ request[r].pc = "sent" /\ AttemptsLeft(r)
  /\ \E answer \in Status \cup {Broken} : FailsOver(answer)
  /\ LET untried == usable \ {request[r].tried[i] : i \in 1 .. Len(request[r].tried)} IN
     /\ untried # {}
     /\ request' = [request EXCEPT ![r].tried = Append(@, Least(untried))]
     /\ cursor' = AfterFailover(Least(untried))
  /\ UNCHANGED <<store, usable, router, holder, last, retryable, qa>>

-----------------------------------------------------------------------------

(* The advisory lock makes one step of deactivating the active policy and   *)
(* inserting the next one; load_routing_policy reads the active one.        *)
UpdateRoutingPolicy ==
  /\ store = "database"
  /\ retryable' \in Document
  /\ UNCHANGED <<store, usable, picking, request, qa>>

Required == Cardinality(QaRequest)

(* prepare_distribution_cursor *)
QaPrepares ==
  /\ store = "database" /\ qa.pc = "idle" /\ QaRequest # {}
  /\ RowIsFree
  /\ qa' = [Unused EXCEPT !.pc = "sending", !.before = cursor.generation]
  /\ cursor' = [cursor EXCEPT !.slot = 1]
  /\ last' = IF cursor.slot = 1 THEN last ELSE NoOne
  /\ UNCHANGED <<store, usable, router, holder, request, retryable>>

(* All requests were answered well: the generation is read once more. *)
QaSent ==
  /\ qa.pc = "sending"
  /\ qa.answered = Required
  /\ qa' = [qa EXCEPT !.pc = "sent", !.after = cursor.generation]
  /\ UNCHANGED <<store, usable, picking, request, retryable>>

QaTrafficFails ==
  /\ qa.pc = "sending"
  /\ Cardinality({q \in QaRequest : request[q].pc = "done"}) > qa.answered
  /\ qa' = [Unused EXCEPT !.pc = "failed"]
  /\ UNCHANGED <<store, usable, picking, request, retryable>>

Expected == [i \in 1 .. Required |-> IF i % 2 = 1 THEN 1 ELSE 2]

DistributedBySlots ==
  qa.rows = Expected /\ \A q \in QaRequest : Len(request[q].tried) = 1
Distributed ==
  /\ qa.rows = Expected
  /\ \A q \in QaRequest : Len(request[q].tried) = 1
  /\ qa.after = qa.before + Required

QaJudges ==
  /\ qa.pc = "sent"
  /\ qa' = [Unused EXCEPT !.pc = IF Distributed THEN "passed" ELSE "failed"]
  /\ UNCHANGED <<store, usable, picking, request, retryable>>

-----------------------------------------------------------------------------

(* The process dies; the one that follows takes its cursor from the store.  *)
Crash ==
  /\ request' = [r \in Request |->
                   CASE request[r].pc = "choosing" -> Over
                     [] request[r].pc = "sent" -> [request[r] EXCEPT !.pc = "done"]
                     [] OTHER -> request[r]]
  /\ router' = cursor.slot
  /\ last' = IF store = "file" /\ holder # NoOne THEN request[holder].before ELSE last
  /\ holder' = NoOne
  /\ qa' = IF qa.pc \in {"sending", "sent"} THEN [Unused EXCEPT !.pc = "failed"] ELSE qa
  /\ UNCHANGED <<store, usable, cursor, retryable>>

Next ==
  \/ \E r \in Request :
       \/ SelectReads(r) \/ SelectCommits(r) \/ SelectFails(r)
       \/ FileSelects(r) \/ FileCommits(r) \/ FileFails(r) \/ FileDropped(r)
       \/ Answered(r, TRUE) \/ Refused(r) \/ FailoverStarts(r)
  \/ KeysChange \/ UpdateRoutingPolicy
  \/ QaPrepares \/ QaSent \/ QaTrafficFails \/ QaJudges
  \/ Crash

Spec == Init /\ [][Next]_vars

-----------------------------------------------------------------------------
(* Properties *)

(* DESIGN.md, the routing section: a first attempt advances the generation  *)
(* once and nothing else does, neither a failover, a reset by a QA run, a   *)
(* transaction that fails nor a commit whose answer is lost.                *)
GenerationCountsFirstAttempts ==
  store = "database" =>
    cursor.generation = Cardinality({r \in Request : request[r].tried # <<>>})

(* Requests that choose at the same time, failovers, failed writes and      *)
(* restarts never send two first attempts in a row to one slot while both   *)
(* are usable, unless something else than a pick has moved the cursor.      *)
PicksOfBoth(r) ==
  IF store = "database" THEN request[r].tried = <<>> /\ request'[r].tried # <<>> /\ request[r].full
  ELSE request[r].pc = "new" /\ request'[r].pc = "choosing" /\ usable = Slot
PicksAlternate ==
  [][\A r \in Request : PicksOfBoth(r) /\ last # NoOne => last' # last]_vars

(* A distribution case that passes has had the cursor for itself: between   *)
(* its reset and its last read no other request was given a first attempt,  *)
(* so what it saw is the rotation of its own requests.                      *)
QaPassMeansExclusive ==
  qa.pc = "passed" =>
    \A r \in Request : request[r].beside => r \in QaRequest

(* What the simulation shows an administrator, and what the Router would    *)
(* take without a database, is what the selection takes.                    *)
SelectorsAgree ==
  usable # {} =>
    /\ Simulated(usable, cursor.slot) = Selected(usable, cursor.slot)
    /\ RouterSelected(usable, cursor.slot) = Selected(usable, cursor.slot)

=============================================================================
