--------------------------- MODULE Routing_proofs ---------------------------
(***************************************************************************)
(* Proofs about Routing: for any number of requests, whatever fails, the    *)
(* generation counts the first attempts, picks alternate, and a             *)
(* distribution case that passes had the cursor for itself.                 *)
(***************************************************************************)
EXTENDS Routing, FiniteSetTheorems, SequenceTheorems, TLAPS

-----------------------------------------------------------------------------
(* The choice of a slot *)

LEMMA LeastIsThere ==
  ASSUME NEW S \in SUBSET (0 .. 2), S # {}
  PROVE  Least(S) \in S /\ \A t \in S : Least(S) <= t
<1>1. \E s \in S : \A t \in S : s <= t
  <2>1. CASE 0 \in S
    BY <2>1
  <2>2. CASE 0 \notin S /\ 1 \in S
    BY <2>2
  <2>3. CASE 0 \notin S /\ 1 \notin S
    <3>1. \A s \in S : s = 2
      BY <2>3
    <3>2. PICK s \in S : TRUE
      OBVIOUS
    <3>3. s = 2 /\ \A t \in S : s <= t
      BY <3>1
    <3> QED
      BY <3>3
  <2> QED
    BY <2>1, <2>2, <2>3
<1> QED
  BY <1>1 DEF Least

LEMMA TwoSlots == Cardinality(Slot) = 2 /\ Slot = 1 .. 2
<1>1. Slot = 1 .. 2
  BY DEF Slot
<1>2. Cardinality(1 .. 2) = IF 1 > 2 THEN 0 ELSE 2 - 1 + 1
  BY FS_Interval, 1 \in Int, 2 \in Int, Zenon
<1>3. Cardinality(1 .. 2) = 2
  BY <1>2
<1> QED
  BY <1>1, <1>3

LEMMA SelectedIsUsable ==
  ASSUME NEW C \in SUBSET Slot, C # {}, NEW next \in Slot
  PROVE  Selected(C, next) \in C /\ (next \in C => Selected(C, next) = next)
BY LeastIsThere DEF Selected, Slot

LEMMA RouterSelectedIsUsable ==
  ASSUME NEW C \in SUBSET Slot, C # {}, NEW next \in Slot
  PROVE  RouterSelected(C, next) \in C /\ (next \in C => RouterSelected(C, next) = next)
<1> DEFINE at(offset) == ((next - 1 + offset) % 2) + 1
           offsets == {o \in 0 .. 1 : at(o) \in C}
<1>1. at(0) = next /\ at(1) = Following(next)
  BY DEF Slot, Following
<1>2. offsets \in SUBSET (0 .. 2) /\ offsets # {}
  <2>1. C \subseteq {next, Following(next)}
    BY DEF Slot, Following
  <2>2. at(0) \in C \/ at(1) \in C
    BY <1>1, <2>1
  <2>3. 0 \in offsets \/ 1 \in offsets
    BY <2>2
  <2> QED
    BY <2>3
<1>3. Least(offsets) \in offsets /\ \A o \in offsets : Least(offsets) <= o
  BY <1>2, LeastIsThere
<1>4. RouterSelected(C, next) = at(Least(offsets))
  BY DEF RouterSelected
<1>5. next \in C => Least(offsets) = 0
  BY <1>1, <1>3
<1> QED
  BY <1>1, <1>3, <1>4, <1>5

-----------------------------------------------------------------------------
(* Types, and what the attempts of a request say of its state *)

(* A request has an attempt as soon as it is sent and not before it is      *)
(* chosen for.                                                              *)
AttemptsFollowPc ==
  \A r \in Request :
    /\ request[r].pc \in {"new", "choosing"} => request[r].tried = <<>> /\ ~request[r].beside
    /\ request[r].pc = "sent" => request[r].tried # <<>>

TypeInv == TypeOK /\ AttemptsFollowPc

LEMMA NewIsARequest == New \in RequestRecord /\ Over \in RequestRecord
BY DEF New, Over, RequestRecord, Slot

LEMMA UnusedIsARecord == Unused \in QaRecord
BY DEF Unused, QaRecord

LEMMA InitTypes == Init => TypeInv
BY RoutingAssumption, NewIsARequest, UnusedIsARecord
   DEF Init, TypeInv, TypeOK, AttemptsFollowPc, New, Slot

(* One request changes, and into a record that follows its pc. *)
LEMMA OneRequest ==
  ASSUME TypeInv, NEW r \in Request, NEW new \in RequestRecord,
         request' = [request EXCEPT ![r] = new],
         new.pc \in {"new", "choosing"} => new.tried = <<>> /\ ~new.beside,
         new.pc = "sent" => new.tried # <<>>
  PROVE  request' \in [Request -> RequestRecord] /\ AttemptsFollowPc'
BY DEF TypeInv, TypeOK, AttemptsFollowPc

LEMMA SelectReadsTypes ==
  ASSUME TypeInv, NEW r \in Request, SelectReads(r)
  PROVE  TypeInv'
<1>1. CASE request' = [request EXCEPT ![r].pc = "done"] /\ UNCHANGED holder
  <2> DEFINE new == [request[r] EXCEPT !.pc = "done"]
  <2>1. new \in RequestRecord /\ new.pc = "done"
    BY DEF TypeInv, TypeOK, RequestRecord
  <2>2. request' = [request EXCEPT ![r] = new]
    BY <1>1
  <2> QED
    BY <1>1, <2>1, <2>2, OneRequest DEF SelectReads, TypeInv, TypeOK
<1>2. CASE /\ usable # {}
           /\ request' = [request EXCEPT ![r].pc = "choosing", ![r].full = (usable = Slot),
                                         ![r].slot = Selected(usable, cursor.slot)]
           /\ holder' = r
  <2> DEFINE new == [request[r] EXCEPT !.pc = "choosing", !.full = (usable = Slot),
                                       !.slot = Selected(usable, cursor.slot)]
  <2>1. Selected(usable, cursor.slot) \in Slot
    BY <1>2, SelectedIsUsable DEF TypeInv, TypeOK
  <2>2. new \in RequestRecord /\ new.pc = "choosing" /\ new.tried = request[r].tried
        /\ new.beside = request[r].beside
    BY <2>1 DEF TypeInv, TypeOK, RequestRecord
  <2>3. request[r].pc = "new" /\ request[r].tried = <<>> /\ ~request[r].beside
    BY DEF SelectReads, TypeInv, AttemptsFollowPc
  <2>4. request' = [request EXCEPT ![r] = new]
    BY <1>2 DEF TypeInv, TypeOK
  <2> HIDE DEF new
  <2>5. request' \in [Request -> RequestRecord] /\ AttemptsFollowPc'
    BY <2>2, <2>3, <2>4, OneRequest
  <2> QED
    BY <1>2, <2>5 DEF SelectReads, TypeInv, TypeOK
<1> QED
  BY <1>1, <1>2 DEF SelectReads

(* The record of a request that was given its first attempt. *)
LEMMA FirstAttemptIsARequest ==
  ASSUME NEW slot \in Slot, NEW pc \in {"sent", "done"}, NEW beside \in BOOLEAN
  PROVE  [New EXCEPT !.pc = pc, !.tried = <<slot>>, !.beside = beside] \in RequestRecord
BY DEF New, RequestRecord, Slot

LEMMA SelectCommitsTypes ==
  ASSUME TypeInv, NEW r \in Request, SelectCommits(r)
  PROVE  TypeInv'
<1> DEFINE slot == request[r].slot
<1>1. slot \in Slot /\ Following(slot) \in Slot
  BY DEF TypeInv, TypeOK, RequestRecord, Following, Slot
<1>2. PICK pc \in {"sent", "done"} :
        request' = [request EXCEPT ![r] = [New EXCEPT !.pc = pc, !.tried = <<slot>>,
                                                      !.beside = (qa.pc = "sending")]]
  BY DEF SelectCommits
<1> DEFINE new == [New EXCEPT !.pc = pc, !.tried = <<slot>>, !.beside = (qa.pc = "sending")]
<1>3. new \in RequestRecord
  BY <1>1, FirstAttemptIsARequest
<1>4. new.pc = pc /\ new.tried = <<slot>> /\ <<slot>> # <<>>
  BY DEF New
<1>5. request' = [request EXCEPT ![r] = new]
  BY <1>2
<1>6. request' \in [Request -> RequestRecord] /\ AttemptsFollowPc'
  <2> HIDE DEF new
  <2> QED
    BY <1>3, <1>4, <1>5, OneRequest
<1>7. RowsOfQa(r, slot) \in QaRecord
  <2>1. qa \in QaRecord /\ Append(qa.rows, slot) \in Seq(Slot)
    BY <1>1 DEF TypeInv, TypeOK, QaRecord
  <2> QED
    BY <2>1 DEF RowsOfQa, QaRecord
<1>8. cursor' \in [slot: Slot, generation: Nat] /\ last' \in Slot \cup {NoOne}
  BY <1>1 DEF SelectCommits, TypeInv, TypeOK
<1>9. qa' \in QaRecord /\ holder' = NoOne
  BY <1>7 DEF SelectCommits
<1> QED
  BY <1>6, <1>8, <1>9 DEF SelectCommits, TypeInv, TypeOK

LEMMA OverTypes ==
  ASSUME TypeInv, NEW r \in Request, request' = [request EXCEPT ![r] = Over]
  PROVE  request' \in [Request -> RequestRecord] /\ AttemptsFollowPc'
<1>1. Over.pc = "done"
  BY DEF Over, New
<1> QED
  BY <1>1, NewIsARequest, OneRequest

LEMMA FailedChoiceTypes ==
  ASSUME TypeInv, NEW r \in Request, SelectFails(r) \/ FileFails(r) \/ FileDropped(r)
  PROVE  TypeInv'
<1>1. request' \in [Request -> RequestRecord] /\ AttemptsFollowPc'
  BY OverTypes DEF SelectFails, FileFails, FileDropped
<1>2. Following(request[r].slot) \in Slot /\ request[r].back \in Slot
  BY DEF TypeInv, TypeOK, RequestRecord, Following, Slot
<1>3. cursor' \in [slot: Slot, generation: Nat]
  BY <1>2 DEF TypeInv, TypeOK, SelectFails, FileFails, FileDropped
<1>4. router' \in Slot
  BY <1>2 DEF TypeInv, TypeOK, SelectFails, FileFails, FileDropped
<1> QED
  BY <1>1, <1>3, <1>4 DEF TypeInv, TypeOK, SelectFails, FileFails, FileDropped

LEMMA FileSelectsTypes ==
  ASSUME TypeInv, NEW r \in Request, FileSelects(r)
  PROVE  TypeInv'
<1>1. CASE usable = {}
  <2> DEFINE new == [request[r] EXCEPT !.pc = "done"]
  <2>1. new \in RequestRecord /\ new.pc = "done"
    BY DEF TypeInv, TypeOK, RequestRecord
  <2>2. request' = [request EXCEPT ![r] = new] /\ UNCHANGED <<router, last, holder>>
    BY <1>1 DEF FileSelects
  <2> QED
    BY <2>1, <2>2, OneRequest DEF FileSelects, TypeInv, TypeOK
<1>2. CASE usable # {}
  <2> DEFINE slot == RouterSelected(usable, router)
             new == [request[r] EXCEPT !.pc = "choosing", !.slot = slot, !.back = router,
                                       !.before = last]
  <2>1. slot \in Slot /\ Following(slot) \in Slot
    BY <1>2, RouterSelectedIsUsable DEF TypeInv, TypeOK, Slot, Following
  <2>2. new \in RequestRecord /\ new.pc = "choosing" /\ new.tried = request[r].tried
        /\ new.beside = request[r].beside
    BY <2>1 DEF TypeInv, TypeOK, RequestRecord
  <2>3. request[r].tried = <<>> /\ ~request[r].beside
    BY DEF FileSelects, TypeInv, AttemptsFollowPc
  <2>4. /\ request' = [request EXCEPT ![r] = new]
        /\ router' = Following(slot) /\ last' = slot /\ holder' = r
    BY <1>2 DEF FileSelects, TypeInv, TypeOK
  <2> HIDE DEF new, slot
  <2>5. request' \in [Request -> RequestRecord] /\ AttemptsFollowPc'
    BY <2>2, <2>3, <2>4, OneRequest
  <2> QED
    BY <2>1, <2>4, <2>5 DEF FileSelects, TypeInv, TypeOK
<1> QED
  BY <1>1, <1>2

LEMMA FileCommitsTypes ==
  ASSUME TypeInv, NEW r \in Request, FileCommits(r)
  PROVE  TypeInv'
<1> DEFINE slot == request[r].slot
           new == [New EXCEPT !.pc = "sent", !.tried = <<slot>>]
<1>1. slot \in Slot /\ Following(slot) \in Slot
  BY DEF TypeInv, TypeOK, RequestRecord, Following, Slot
<1>2. new \in RequestRecord /\ new.pc = "sent" /\ new.tried = <<slot>> /\ <<slot>> # <<>>
  BY <1>1 DEF New, RequestRecord, Slot
<1>3. request' = [request EXCEPT ![r] = new]
  BY DEF FileCommits
<1>4. request' \in [Request -> RequestRecord] /\ AttemptsFollowPc'
  <2> HIDE DEF new
  <2> QED
    BY <1>2, <1>3, OneRequest
<1>5. cursor' \in [slot: Slot, generation: Nat]
  BY <1>1 DEF FileCommits, TypeInv, TypeOK
<1> QED
  BY <1>4, <1>5 DEF FileCommits, TypeInv, TypeOK

(* A failover appends the other slot to the one slot that was tried. *)
LEMMA FailoverTriesTheOther ==
  ASSUME TypeInv, NEW r \in Request, FailoverStarts(r)
  PROVE  \E s \in Slot :
           /\ request[r].tried = <<s>>
           /\ request' = [request EXCEPT ![r].tried = <<s, Following(s)>>]
<1>1. request[r] \in RequestRecord /\ request[r].pc = "sent" /\ request[r].tried # <<>>
  BY DEF FailoverStarts, TypeInv, TypeOK, AttemptsFollowPc
<1>2. Len(request[r].tried) < 2
  BY TwoSlots, <1>1 DEF FailoverStarts, AttemptsLeft, KeyAttempts, RequestRecord
<1>3. PICK s \in Slot : request[r].tried = <<s>>
  BY <1>1, <1>2 DEF RequestRecord
<1> DEFINE untried == usable \ {request[r].tried[i] : i \in 1 .. Len(request[r].tried)}
<1>4. untried = usable \ {s}
  BY <1>3
<1>5. untried # {} /\ request' = [request EXCEPT ![r].tried = Append(@, Least(untried))]
  BY DEF FailoverStarts
<1>6. Least(untried) = Following(s)
  <2>1. untried \in SUBSET (0 .. 2) /\ untried \subseteq {Following(s)}
    <3>1. usable \subseteq {1, 2} /\ s \in {1, 2}
      BY DEF TypeInv, TypeOK, Slot
    <3>2. Following(s) = IF s = 1 THEN 2 ELSE 1
      BY DEF Following
    <3> HIDE DEF untried
    <3> QED
      BY <1>4, <3>1, <3>2
  <2> HIDE DEF untried
  <2>2. Least(untried) \in untried
    BY <1>5, <2>1, LeastIsThere
  <2> QED
    BY <2>1, <2>2
<1>7. Append(request[r].tried, Least(untried)) = <<s, Following(s)>>
  <2> HIDE DEF untried
  <2> DEFINE other == Following(s)
  <2>1. Append(<<s>>, other) = <<s, other>>
    <3>1. other \in Slot
      BY DEF Slot, Following
    <3> HIDE DEF other
    <3>2. <<s>> \in Seq(Slot) /\ Len(<<s>>) = 1 /\ <<s>>[1] = s
      OBVIOUS
    <3>3. /\ Append(<<s>>, other) \in Seq(Slot) /\ Len(Append(<<s>>, other)) = 2
          /\ Append(<<s>>, other)[1] = s /\ Append(<<s>>, other)[2] = other
      BY <3>1, <3>2, AppendProperties
    <3>4. /\ <<s, other>> \in Seq(Slot) /\ Len(<<s, other>>) = 2
          /\ <<s, other>>[1] = s /\ <<s, other>>[2] = other
      BY <3>1
    <3> DEFINE a == Append(<<s>>, other)
               b == <<s, other>>
    <3>5. a \in Seq(Slot) /\ b \in Seq(Slot) /\ Len(a) = Len(b)
          /\ \A i \in 1 .. Len(a) : a[i] = b[i]
      BY <3>3, <3>4
    <3> HIDE DEF a, b
    <3>6. a = b
      BY <3>5, SeqEqual
    <3> QED
      BY <3>6 DEF a, b
  <2> QED
    BY <1>3, <1>6, <2>1
<1> QED
  BY <1>3, <1>5, <1>7

LEMMA AnswersTypes ==
  ASSUME TypeInv, NEW r \in Request, Answered(r, TRUE) \/ Refused(r)
  PROVE  TypeInv'
<1>1. PICK ok \in BOOLEAN : Answered(r, ok)
  BY DEF Refused
<1> DEFINE new == [request[r] EXCEPT !.pc = "done"]
<1>2. new \in RequestRecord /\ new.pc = "done"
  BY DEF TypeInv, TypeOK, RequestRecord
<1>3. request' = [request EXCEPT ![r] = new]
  BY <1>1 DEF Answered
<1>4. request' \in [Request -> RequestRecord] /\ AttemptsFollowPc'
  BY <1>2, <1>3, OneRequest
<1>5. qa' \in QaRecord
  BY <1>1 DEF Answered, TypeInv, TypeOK, QaRecord
<1> QED
  BY <1>1, <1>4, <1>5 DEF Answered, TypeInv, TypeOK, picking

LEMMA FailoverTypes ==
  ASSUME TypeInv, NEW r \in Request, FailoverStarts(r)
  PROVE  TypeInv'
<1>1. PICK s \in Slot : /\ request[r].tried = <<s>>
                        /\ request' = [request EXCEPT ![r].tried = <<s, Following(s)>>]
  BY FailoverTriesTheOther
<1> DEFINE new == [request[r] EXCEPT !.tried = <<s, Following(s)>>]
<1>2. new \in RequestRecord /\ new.pc = "sent" /\ new.tried # <<>>
  BY <1>1 DEF FailoverStarts, TypeInv, TypeOK, RequestRecord
<1>3. request' = [request EXCEPT ![r] = new]
  BY <1>1
<1>4. request' \in [Request -> RequestRecord] /\ AttemptsFollowPc'
  <2> HIDE DEF new
  <2> QED
    BY <1>2, <1>3, OneRequest
<1> QED
  BY <1>4 DEF FailoverStarts, AfterFailover, TypeInv, TypeOK

LEMMA QaTypes ==
  ASSUME TypeInv, QaPrepares \/ QaSent \/ QaTrafficFails \/ QaJudges
  PROVE  TypeInv'
<1>1. UNCHANGED <<request, store, usable, router, holder, retryable>>
  BY DEF QaPrepares, QaSent, QaTrafficFails, QaJudges, picking
<1>2. cursor' \in [slot: Slot, generation: Nat] /\ last' \in Slot \cup {NoOne}
  BY DEF QaPrepares, QaSent, QaTrafficFails, QaJudges, picking, TypeInv, TypeOK, Slot
<1>3. qa' \in QaRecord
  <2>1. qa \in QaRecord /\ cursor.generation \in Nat
    BY DEF TypeInv, TypeOK
  <2> QED
    BY <2>1, UnusedIsARecord DEF QaPrepares, QaSent, QaTrafficFails, QaJudges, QaRecord
<1> QED
  BY <1>1, <1>2, <1>3 DEF TypeInv, TypeOK, AttemptsFollowPc

LEMMA CrashTypes ==
  ASSUME TypeInv, Crash
  PROVE  TypeInv'
<1>1. ASSUME NEW r \in Request
      PROVE  /\ request'[r] \in RequestRecord
             /\ request'[r].pc \notin {"choosing", "sent"}
             /\ request'[r].pc = "new" => request'[r] = request[r]
  <2>1. request[r] \in RequestRecord
    BY DEF TypeInv, TypeOK
  <2>2. request'[r] = CASE request[r].pc = "choosing" -> Over
                        [] request[r].pc = "sent" -> [request[r] EXCEPT !.pc = "done"]
                        [] OTHER -> request[r]
    BY DEF Crash
  <2>3. CASE request[r].pc = "choosing"
    BY <2>2, <2>3, NewIsARequest DEF Over, New
  <2>4. CASE request[r].pc = "sent"
    BY <2>1, <2>2, <2>4 DEF RequestRecord
  <2>5. CASE request[r].pc \notin {"choosing", "sent"}
    BY <2>1, <2>2, <2>5
  <2> QED
    BY <2>3, <2>4, <2>5
<1>2. request' \in [Request -> RequestRecord]
  <2>1. request' = [r \in Request |-> request'[r]]
    BY DEF Crash
  <2> QED
    BY <1>1, <2>1
<1>3. AttemptsFollowPc'
  BY <1>1 DEF AttemptsFollowPc, TypeInv
<1>4. qa' \in QaRecord /\ router' \in Slot
  BY UnusedIsARecord DEF Crash, TypeInv, TypeOK, QaRecord
<1>5. last' \in Slot \cup {NoOne}
  BY DEF Crash, TypeInv, TypeOK, RequestRecord
<1> QED
  BY <1>2, <1>3, <1>4, <1>5 DEF Crash, TypeInv, TypeOK

LEMMA NextTypes == TypeInv /\ [Next]_vars => TypeInv'
<1> SUFFICES ASSUME TypeInv, [Next]_vars PROVE TypeInv'
  OBVIOUS
<1>1. CASE UNCHANGED vars
  BY <1>1 DEF vars, picking, TypeInv, TypeOK, AttemptsFollowPc
<1>2. CASE KeysChange
  BY <1>2 DEF KeysChange, picking, TypeInv, TypeOK, AttemptsFollowPc
<1>3. CASE UpdateRoutingPolicy
  BY <1>3 DEF UpdateRoutingPolicy, picking, TypeInv, TypeOK, AttemptsFollowPc
<1> QED
  BY <1>1, <1>2, <1>3, SelectReadsTypes, SelectCommitsTypes, FailedChoiceTypes, FileSelectsTypes,
     FileCommitsTypes, AnswersTypes, FailoverTypes, QaTypes, CrashTypes DEF Next

(* For any number of requests and every fault the routing state keeps its   *)
(* types, and a request has an attempt exactly from its selection on:       *)
(* select_and_start_request and its callers.                                *)
THEOREM TypeCorrect == Spec => []TypeOK
<1>1. TypeInv => TypeOK
  BY DEF TypeInv
<1> QED
  BY <1>1, InitTypes, NextTypes, PTL DEF Spec

-----------------------------------------------------------------------------
(* The generation counts the first attempts *)

Tried == {r \in Request : request[r].tried # <<>>}

CountInv == TypeInv /\ GenerationCountsFirstAttempts

LEMMA TriedIsFinite == IsFiniteSet(Tried) /\ Cardinality(Tried) \in Nat
<1>1. Tried \in SUBSET Request
  BY DEF Tried
<1>2. IsFiniteSet(Tried)
  BY <1>1, RoutingAssumption, FS_Subset
<1> QED
  BY <1>2, FS_CardinalityType

LEMMA SelectCommitsTries ==
  ASSUME TypeInv, NEW r \in Request, SelectCommits(r)
  PROVE  r \notin Tried /\ Tried' = Tried \cup {r}
<1>1. request[r].tried = <<>>
  BY DEF SelectCommits, TypeInv, AttemptsFollowPc
<1>2. request'[r].tried = <<request[r].slot>> /\ <<request[r].slot>> # <<>>
  BY DEF SelectCommits, TypeInv, TypeOK, New
<1>3. \A q \in Request \ {r} : request'[q] = request[q]
  BY DEF SelectCommits, TypeInv, TypeOK
<1> QED
  BY <1>1, <1>2, <1>3 DEF Tried

(* With a database nothing else gives a request its first attempt, and      *)
(* nothing else moves the generation.                                       *)
LEMMA OthersTryNothing ==
  ASSUME TypeInv, store = "database", [Next]_vars, \A r \in Request : ~SelectCommits(r)
  PROVE  /\ \A r \in Request : request'[r].tried # <<>> <=> request[r].tried # <<>>
         /\ cursor'.generation = cursor.generation
<1>1. \A q \in Request : request[q].pc = "choosing" => request[q].tried = <<>>
  BY DEF TypeInv, AttemptsFollowPc
<1>2. Over.tried = <<>>
  BY DEF Over, New
<1>3. CASE UNCHANGED vars \/ KeysChange \/ UpdateRoutingPolicy
  BY <1>3 DEF vars, picking, KeysChange, UpdateRoutingPolicy
<1>4. ASSUME NEW r \in Request, SelectReads(r)
      PROVE  /\ \A q \in Request : request'[q].tried # <<>> <=> request[q].tried # <<>>
             /\ cursor'.generation = cursor.generation
  BY <1>4 DEF SelectReads, TypeInv, TypeOK, RequestRecord
<1>5. ASSUME NEW r \in Request, SelectFails(r)
      PROVE  /\ \A q \in Request : request'[q].tried # <<>> <=> request[q].tried # <<>>
             /\ cursor'.generation = cursor.generation
  BY <1>1, <1>2, <1>5 DEF SelectFails, TypeInv, TypeOK
<1>6. ASSUME NEW r \in Request, FileSelects(r) \/ FileCommits(r) \/ FileFails(r) \/ FileDropped(r)
      PROVE  FALSE
  BY <1>6 DEF FileSelects, FileCommits, FileFails, FileDropped
<1>7. ASSUME NEW r \in Request, Answered(r, TRUE) \/ Refused(r)
      PROVE  /\ \A q \in Request : request'[q].tried # <<>> <=> request[q].tried # <<>>
             /\ cursor'.generation = cursor.generation
  BY <1>7 DEF Answered, Refused, TypeInv, TypeOK, picking, RequestRecord
<1>8. ASSUME NEW r \in Request, FailoverStarts(r)
      PROVE  /\ \A q \in Request : request'[q].tried # <<>> <=> request[q].tried # <<>>
             /\ cursor'.generation = cursor.generation
  <2>1. PICK s \in Slot : /\ request[r].tried = <<s>>
                          /\ request' = [request EXCEPT ![r].tried = <<s, Following(s)>>]
    BY <1>8, FailoverTriesTheOther
  <2>2. <<s>> # <<>> /\ <<s, Following(s)>> # <<>>
    OBVIOUS
  <2>3. request'[r].tried = <<s, Following(s)>> /\ \A q \in Request \ {r} : request'[q] = request[q]
    BY <2>1 DEF TypeInv, TypeOK, RequestRecord
  <2> QED
    BY <1>8, <2>1, <2>2, <2>3 DEF FailoverStarts, AfterFailover
<1>9. CASE QaPrepares \/ QaSent \/ QaTrafficFails \/ QaJudges
  BY <1>9 DEF QaPrepares, QaSent, QaTrafficFails, QaJudges, picking, TypeInv, TypeOK
<1>10. CASE Crash
  <2>1. ASSUME NEW q \in Request
        PROVE  request'[q].tried # <<>> <=> request[q].tried # <<>>
    <3>1. CASE request[q].pc = "choosing"
      BY <1>1, <1>2, <1>10, <3>1 DEF Crash
    <3>2. CASE request[q].pc = "sent"
      BY <1>10, <3>2 DEF Crash, TypeInv, TypeOK, RequestRecord
    <3>3. CASE request[q].pc \notin {"choosing", "sent"}
      BY <1>10, <3>3 DEF Crash
    <3> QED
      BY <3>1, <3>2, <3>3
  <2> QED
    BY <1>10, <2>1 DEF Crash
<1> QED
  BY <1>3, <1>4, <1>5, <1>6, <1>7, <1>8, <1>9, <1>10 DEF Next

LEMMA StoreIsFixed ==
  ASSUME [Next]_vars
  PROVE  UNCHANGED store
BY DEF Next, vars, SelectReads, SelectCommits, SelectFails, FileSelects, FileCommits, FileFails,
       FileDropped, Answered, Refused, FailoverStarts, KeysChange, UpdateRoutingPolicy, QaPrepares,
       QaSent, QaTrafficFails, QaJudges, Crash

LEMMA CountStep == CountInv /\ [Next]_vars => CountInv'
<1> SUFFICES ASSUME CountInv, [Next]_vars PROVE CountInv'
  OBVIOUS
<1>1. TypeInv /\ TypeInv' /\ store' = store
  BY NextTypes, StoreIsFixed DEF CountInv
<1>2. CASE store # "database"
  BY <1>1, <1>2 DEF CountInv, GenerationCountsFirstAttempts
<1>3. CASE store = "database" /\ \E r \in Request : SelectCommits(r)
  <2>1. PICK r \in Request : SelectCommits(r)
    BY <1>3
  <2>2. r \notin Tried /\ Tried' = Tried \cup {r}
    BY <1>1, <2>1, SelectCommitsTries
  <2>3. Cardinality(Tried') = Cardinality(Tried) + 1
    BY <2>2, TriedIsFinite, FS_AddElement
  <2>4. cursor.generation = Cardinality(Tried) /\ cursor'.generation = cursor.generation + 1
    BY <1>3, <2>1 DEF CountInv, GenerationCountsFirstAttempts, Tried, SelectCommits
  <2> QED
    BY <1>1, <2>3, <2>4 DEF CountInv, GenerationCountsFirstAttempts, Tried
<1>4. CASE store = "database" /\ \A r \in Request : ~SelectCommits(r)
  <2>1. Tried' = Tried /\ cursor'.generation = cursor.generation
    BY <1>1, <1>4, OthersTryNothing DEF Tried
  <2> QED
    BY <1>1, <1>4, <2>1 DEF CountInv, GenerationCountsFirstAttempts, Tried
<1> QED
  BY <1>2, <1>3, <1>4

(* The generation of routing_state is the number of requests that were      *)
(* given a first attempt, for any number of requests and under every fault: *)
(* select_and_start_request is the only place that advances it.             *)
THEOREM GenerationIsExact == Spec => []GenerationCountsFirstAttempts
<1>1. Init => CountInv
  <2> SUFFICES ASSUME Init PROVE GenerationCountsFirstAttempts
    BY InitTypes DEF CountInv
  <2>1. Tried = {} /\ cursor.generation = 0
    BY DEF Init, New, Tried
  <2> QED
    BY <2>1, FS_EmptySet DEF GenerationCountsFirstAttempts, Tried
<1>2. CountInv => GenerationCountsFirstAttempts
  BY DEF CountInv
<1> QED
  BY <1>1, <1>2, CountStep, PTL DEF Spec

-----------------------------------------------------------------------------
(* Picks alternate: the cursor, or the Router, stands behind the last pick  *)

ChoosingHolds ==
  /\ \A r \in Request : request[r].pc = "choosing" => holder = r
  /\ holder # NoOne => request[holder].pc = "choosing"

RowFollowsPick ==
  store = "database" =>
    /\ last # NoOne => cursor.slot = Following(last)
    /\ \A r \in Request :
         request[r].pc = "choosing" /\ request[r].full => request[r].slot = cursor.slot

RouterFollowsPick ==
  store = "file" =>
    /\ last # NoOne => router = Following(last)
    /\ holder = NoOne /\ last # NoOne => cursor.slot = Following(last)
    /\ \A r \in Request :
         request[r].pc = "choosing" =>
           /\ last = request[r].slot
           /\ request[r].before # NoOne => cursor.slot = Following(request[r].before)

PickInv == TypeInv /\ ChoosingHolds /\ RowFollowsPick /\ RouterFollowsPick

LEMMA SelectReadsPick ==
  ASSUME PickInv, NEW r \in Request, SelectReads(r)
  PROVE  ChoosingHolds' /\ RowFollowsPick' /\ RouterFollowsPick'
<1>1. /\ \A q \in Request \ {r} : request'[q] = request[q]
      /\ UNCHANGED <<store, cursor, last, router>> /\ store = "database" /\ holder = NoOne
  BY DEF SelectReads, PickInv, TypeInv, TypeOK, RowIsFree
<1>2. request'[r].pc = "choosing" /\ request'[r].full => request'[r].slot = cursor.slot
  <2>1. usable = Slot => Selected(usable, cursor.slot) = cursor.slot
    BY SelectedIsUsable DEF PickInv, TypeInv, TypeOK, Slot
  <2> QED
    BY <2>1 DEF SelectReads, PickInv, TypeInv, TypeOK, RequestRecord
<1>3. \/ request'[r].pc = "choosing" /\ holder' = r
      \/ request'[r].pc = "done" /\ holder' = NoOne
  BY <1>1 DEF SelectReads, PickInv, TypeInv, TypeOK, RequestRecord
<1>4. NoOne \notin Request
  BY RoutingAssumption
<1> QED
  BY <1>1, <1>2, <1>3, <1>4 DEF PickInv, ChoosingHolds, RowFollowsPick, RouterFollowsPick

LEMMA SelectCommitsPick ==
  ASSUME PickInv, NEW r \in Request, SelectCommits(r)
  PROVE  ChoosingHolds' /\ RowFollowsPick' /\ RouterFollowsPick'
<1>1. /\ \A q \in Request \ {r} : request'[q] = request[q] /\ request[q].pc # "choosing"
      /\ request'[r].pc # "choosing"
      /\ store = "database" /\ UNCHANGED store /\ holder' = NoOne
  BY DEF SelectCommits, PickInv, TypeInv, TypeOK, ChoosingHolds, New
<1>2. last' = request[r].slot /\ cursor'.slot = Following(last')
  BY DEF SelectCommits
<1> QED
  BY <1>1, <1>2 DEF ChoosingHolds, RowFollowsPick, RouterFollowsPick

LEMMA FailedChoicePick ==
  ASSUME PickInv, NEW r \in Request, SelectFails(r) \/ FileFails(r) \/ FileDropped(r)
  PROVE  ChoosingHolds' /\ RowFollowsPick' /\ RouterFollowsPick'
<1>1. /\ \A q \in Request \ {r} : request'[q] = request[q] /\ request[q].pc # "choosing"
      /\ request'[r].pc # "choosing" /\ UNCHANGED store /\ holder' = NoOne
  BY DEF SelectFails, FileFails, FileDropped, PickInv, TypeInv, TypeOK, ChoosingHolds, Over, New
<1>2. store = "database" => UNCHANGED <<cursor, last>>
  BY DEF SelectFails, FileFails, FileDropped
<1>3. store = "file" => last' = NoOne
  BY DEF SelectFails, FileFails, FileDropped
<1> QED
  BY <1>1, <1>2, <1>3 DEF PickInv, ChoosingHolds, RowFollowsPick, RouterFollowsPick

LEMMA FileSelectsPick ==
  ASSUME PickInv, NEW r \in Request, FileSelects(r)
  PROVE  ChoosingHolds' /\ RowFollowsPick' /\ RouterFollowsPick'
<1>1. /\ \A q \in Request \ {r} : request'[q] = request[q] /\ request[q].pc # "choosing"
      /\ store = "file" /\ holder = NoOne /\ UNCHANGED <<store, cursor>> /\ request[r].pc = "new"
  BY RoutingAssumption
     DEF FileSelects, PickInv, TypeInv, TypeOK, ChoosingHolds, SelectionLockFree
<1>2. CASE usable = {}
  BY <1>1, <1>2 DEF FileSelects, PickInv, TypeInv, TypeOK, ChoosingHolds, RowFollowsPick,
                    RouterFollowsPick, RequestRecord
<1>3. CASE usable # {}
  <2>1. /\ request'[r].pc = "choosing" /\ holder' = r
        /\ request'[r].slot = last' /\ request'[r].before = last
        /\ router' = Following(last')
    BY <1>3 DEF FileSelects, PickInv, TypeInv, TypeOK, RequestRecord
  <2>2. NoOne \notin Request
    BY RoutingAssumption
  <2> QED
    BY <1>1, <2>1, <2>2 DEF PickInv, ChoosingHolds, RowFollowsPick, RouterFollowsPick
<1> QED
  BY <1>2, <1>3

LEMMA FileCommitsPick ==
  ASSUME PickInv, NEW r \in Request, FileCommits(r)
  PROVE  ChoosingHolds' /\ RowFollowsPick' /\ RouterFollowsPick'
<1>1. /\ \A q \in Request \ {r} : request'[q] = request[q] /\ request[q].pc # "choosing"
      /\ request'[r].pc # "choosing"
      /\ store = "file" /\ UNCHANGED <<store, router, last>> /\ holder' = NoOne
  BY DEF FileCommits, PickInv, TypeInv, TypeOK, ChoosingHolds, New
<1>2. last = request[r].slot /\ cursor'.slot = Following(last)
  BY <1>1 DEF FileCommits, PickInv, RouterFollowsPick, TypeInv, TypeOK
<1> QED
  BY <1>1, <1>2 DEF PickInv, ChoosingHolds, RowFollowsPick, RouterFollowsPick

(* What leaves the choosing requests, the row, the Router and the lock      *)
(* alone.                                                                   *)
LEMMA PickUntouched ==
  ASSUME PickInv, UNCHANGED <<store, cursor, router, holder, last>>,
         \A r \in Request : \/ request'[r] = request[r]
                            \/ request[r].pc # "choosing" /\ request'[r].pc # "choosing"
  PROVE  ChoosingHolds' /\ RowFollowsPick' /\ RouterFollowsPick'
<1>1. holder \in Request \cup {NoOne}
  BY DEF PickInv, TypeInv, TypeOK
<1> QED
  BY <1>1 DEF PickInv, ChoosingHolds, RowFollowsPick, RouterFollowsPick

LEMMA AnswersPick ==
  ASSUME PickInv, NEW r \in Request, Answered(r, TRUE) \/ Refused(r) \/ FailoverStarts(r)
  PROVE  ChoosingHolds' /\ RowFollowsPick' /\ RouterFollowsPick'
<1>1. UNCHANGED <<store, cursor, router, holder, last>>
  BY DEF Answered, Refused, FailoverStarts, AfterFailover, picking
<1>2. /\ request[r].pc = "sent" /\ request'[r].pc # "choosing"
      /\ \A q \in Request \ {r} : request'[q] = request[q]
  BY DEF Answered, Refused, FailoverStarts, PickInv, TypeInv, TypeOK, RequestRecord
<1> QED
  BY <1>1, <1>2, PickUntouched

LEMMA QaPick ==
  ASSUME PickInv, QaPrepares \/ QaSent \/ QaTrafficFails \/ QaJudges
  PROVE  ChoosingHolds' /\ RowFollowsPick' /\ RouterFollowsPick'
<1>1. CASE QaPrepares
  <2>1. /\ store = "database" /\ UNCHANGED <<store, request, holder>> /\ holder = NoOne
        /\ last' = NoOne \/ (last' = last /\ cursor'.slot = cursor.slot)
    BY <1>1 DEF QaPrepares, RowIsFree, PickInv, TypeInv, TypeOK
  <2>2. \A r \in Request : request[r].pc # "choosing"
    BY <2>1, RoutingAssumption DEF PickInv, ChoosingHolds
  <2> QED
    BY <2>1, <2>2 DEF PickInv, ChoosingHolds, RowFollowsPick, RouterFollowsPick
<1>2. CASE QaSent \/ QaTrafficFails \/ QaJudges
  BY <1>2, PickUntouched DEF QaSent, QaTrafficFails, QaJudges, picking
<1> QED
  BY <1>1, <1>2

LEMMA CrashPick ==
  ASSUME PickInv, Crash
  PROVE  ChoosingHolds' /\ RowFollowsPick' /\ RouterFollowsPick'
<1>1. \A r \in Request : request'[r].pc # "choosing"
  <2> TAKE r \in Request
  <2>1. request'[r] = CASE request[r].pc = "choosing" -> Over
                        [] request[r].pc = "sent" -> [request[r] EXCEPT !.pc = "done"]
                        [] OTHER -> request[r]
    BY DEF Crash
  <2>2. Over.pc = "done"
    BY DEF Over, New
  <2> QED
    BY <2>1, <2>2 DEF PickInv, TypeInv, TypeOK, RequestRecord
<1>2. holder' = NoOne /\ UNCHANGED <<store, cursor>> /\ router' = cursor.slot
  BY DEF Crash
<1>3. store # "file" => last' = last
  BY DEF Crash
<1>4. store = "file" /\ last' # NoOne => cursor.slot = Following(last')
  <2>1. CASE holder = NoOne
    BY <2>1 DEF Crash, PickInv, RouterFollowsPick
  <2>2. CASE holder # NoOne
    BY <2>2 DEF Crash, PickInv, RouterFollowsPick, ChoosingHolds, TypeInv, TypeOK
  <2> QED
    BY <2>1, <2>2
<1> QED
  BY <1>1, <1>2, <1>3, <1>4 DEF PickInv, ChoosingHolds, RowFollowsPick, RouterFollowsPick

LEMMA PickStep == PickInv /\ [Next]_vars => PickInv'
<1> SUFFICES ASSUME PickInv, [Next]_vars PROVE PickInv'
  OBVIOUS
<1>1. TypeInv'
  BY NextTypes DEF PickInv
<1>2. CASE UNCHANGED vars \/ KeysChange \/ UpdateRoutingPolicy
  BY <1>1, <1>2, PickUntouched DEF vars, picking, KeysChange, UpdateRoutingPolicy, PickInv
<1>3. CASE ~(UNCHANGED vars \/ KeysChange \/ UpdateRoutingPolicy)
  <2>1. ChoosingHolds' /\ RowFollowsPick' /\ RouterFollowsPick'
    BY <1>3, SelectReadsPick, SelectCommitsPick, FailedChoicePick, FileSelectsPick,
       FileCommitsPick, AnswersPick, QaPick, CrashPick DEF Next
  <2> QED
    BY <1>1, <2>1 DEF PickInv
<1> QED
  BY <1>2, <1>3

(* A request begins to choose by its own selection only. *)
LEMMA ChoosingBegins ==
  ASSUME TypeInv, [Next]_vars, NEW r \in Request,
         request[r].pc = "new", request'[r].pc = "choosing"
  PROVE  SelectReads(r) \/ FileSelects(r)
<1>1. CASE UNCHANGED vars \/ KeysChange \/ UpdateRoutingPolicy
  BY <1>1 DEF vars, KeysChange, UpdateRoutingPolicy
<1>2. CASE QaPrepares \/ QaSent \/ QaTrafficFails \/ QaJudges
  BY <1>2 DEF QaPrepares, QaSent, QaTrafficFails, QaJudges
<1>3. CASE Crash
  BY <1>3 DEF Crash
<1>4. ASSUME NEW q \in Request, SelectReads(q) \/ FileSelects(q)
      PROVE  SelectReads(r) \/ FileSelects(r)
  <2>1. CASE q = r
    BY <1>4, <2>1
  <2>2. CASE q # r
    <3>1. request'[r] = request[r]
      BY <1>4, <2>2 DEF SelectReads, FileSelects, TypeInv, TypeOK
    <3> QED
      BY <3>1
  <2> QED
    BY <2>1, <2>2
<1>5. ASSUME NEW q \in Request,
             \/ SelectCommits(q) \/ SelectFails(q) \/ FileCommits(q) \/ FileFails(q)
             \/ FileDropped(q) \/ Answered(q, TRUE) \/ Refused(q) \/ FailoverStarts(q)
      PROVE  FALSE
  <2>1. request[q].pc \in {"choosing", "sent"} /\ \A p \in Request \ {q} : request'[p] = request[p]
    BY <1>5 DEF SelectCommits, SelectFails, FileCommits, FileFails, FileDropped, Answered, Refused,
                FailoverStarts, TypeInv, TypeOK
  <2> QED
    BY <2>1
<1> QED
  BY <1>1, <1>2, <1>3, <1>4, <1>5 DEF Next

LEMMA RowPicksAlternate ==
  ASSUME PickInv, [Next]_vars, store = "database", last # NoOne,
         NEW r \in Request, PicksOfBoth(r)
  PROVE  last' # last
<1>1. TypeInv /\ request[r].tried = <<>> /\ request'[r].tried # <<>> /\ request[r].full
  BY DEF PickInv, PicksOfBoth
<1>2. PICK q \in Request : SelectCommits(q)
  BY <1>1, OthersTryNothing
<1>3. q = r
  BY <1>1, <1>2, SelectCommitsTries DEF Tried
<1>4. last' = cursor.slot
  BY <1>1, <1>2, <1>3 DEF SelectCommits, PickInv, RowFollowsPick
<1>5. cursor.slot = Following(last) /\ last \in Slot
  BY DEF PickInv, RowFollowsPick, TypeInv, TypeOK
<1> QED
  BY <1>4, <1>5 DEF Following, Slot

LEMMA RouterPicksAlternate ==
  ASSUME PickInv, [Next]_vars, store # "database", last # NoOne,
         NEW r \in Request, PicksOfBoth(r)
  PROVE  last' # last
<1>1. TypeInv /\ request[r].pc = "new" /\ request'[r].pc = "choosing" /\ usable = Slot
  BY DEF PickInv, PicksOfBoth
<1>2. FileSelects(r)
  BY <1>1, ChoosingBegins DEF SelectReads
<1>3. last' = RouterSelected(Slot, router)
  BY <1>1, <1>2 DEF FileSelects, Slot
<1>4. router \in Slot /\ RouterSelected(Slot, router) = router
  BY <1>1, RouterSelectedIsUsable DEF TypeInv, TypeOK, Slot
<1>5. router = Following(last) /\ last \in Slot
  BY <1>2 DEF FileSelects, PickInv, RouterFollowsPick, TypeInv, TypeOK
<1> QED
  BY <1>3, <1>4, <1>5 DEF Following, Slot

(* Two first attempts in a row never go to one slot while both are usable,  *)
(* for any number of requests that select together, with a database and     *)
(* without, and through failed writes and restarts.                         *)
THEOREM PicksKeepAlternating == Spec => PicksAlternate
<1>1. Init => PickInv
  <2> SUFFICES ASSUME Init PROVE ChoosingHolds /\ RowFollowsPick /\ RouterFollowsPick
    BY InitTypes DEF PickInv
  <2> QED
    BY DEF Init, New, ChoosingHolds, RowFollowsPick, RouterFollowsPick
<1>2. PickInv /\ [Next]_vars =>
        [\A r \in Request : PicksOfBoth(r) /\ last # NoOne => last' # last]_vars
  BY RowPicksAlternate, RouterPicksAlternate
<1> QED
  BY <1>1, <1>2, PickStep, PTL DEF Spec, PicksAlternate

(* The row, the Router in memory and the simulation shown to administrators *)
(* choose the same slot: select_and_start_request, Router::select and       *)
(* simulate_routing.                                                        *)
THEOREM SelectorsAlwaysAgree == Spec => []SelectorsAgree
<1>1. TypeOK => SelectorsAgree
  <2> SUFFICES ASSUME TypeOK, usable # {}
               PROVE  /\ Simulated(usable, cursor.slot) = Selected(usable, cursor.slot)
                      /\ RouterSelected(usable, cursor.slot) = Selected(usable, cursor.slot)
    BY DEF SelectorsAgree
  <2> DEFINE next == cursor.slot
  <2>1. usable \subseteq {1, 2} /\ next \in {1, 2}
    BY DEF TypeOK, Slot
  <2>2. CASE next \in usable
    <3>1. Selected(usable, next) = next /\ RouterSelected(usable, next) = next
      BY <2>1, <2>2, SelectedIsUsable, RouterSelectedIsUsable DEF Slot
    <3>2. Simulated(usable, next) = next
      BY <2>1, <2>2 DEF Simulated
    <3> QED
      BY <3>1, <3>2
  <2>3. CASE next \notin usable
    <3>1. PICK s \in {1, 2} : usable = {s} /\ s # next
      BY <2>1, <2>3
    <3>2. Selected(usable, next) = s /\ RouterSelected(usable, next) = s
      BY <2>1, <3>1, SelectedIsUsable, RouterSelectedIsUsable DEF Slot
    <3>3. Simulated(usable, next) = s
      BY <2>1, <3>1 DEF Simulated
    <3> QED
      BY <3>2, <3>3
  <2> QED
    BY <2>2, <2>3
<1> QED
  BY <1>1, TypeCorrect, PTL

-----------------------------------------------------------------------------
(* A passing distribution case was alone: the generation moved by as many   *)
(* first attempts as were given beside it, and those of its own requests    *)
(* are among them.                                                          *)

Beside == {r \in Request : request[r].beside}
QaDone == {q \in QaRequest : request[q].pc = "done"}
OwnTried == \A q \in QaRequest : request[q].tried # <<>> => request[q].beside

QaStages ==
  /\ store # "database" => qa.pc = "idle"
  /\ qa.pc = "idle" => Beside = {} /\ \A q \in QaRequest : store = "database" => request[q].pc = "new"
  /\ qa.pc = "sending" => /\ cursor.generation = qa.before + Cardinality(Beside)
                          /\ qa.answered <= Cardinality(QaDone)
                          /\ OwnTried
  /\ qa.pc = "sent" => /\ qa.after = qa.before + Cardinality(Beside)
                       /\ QaDone = QaRequest
                       /\ OwnTried
  /\ qa.pc = "passed" => Beside \subseteq QaRequest

QaInv == TypeInv /\ QaStages

LEMMA QaAreRequests == \A q \in QaRequest : q \in Request
BY RoutingAssumption

LEMMA QaSetsAreFinite ==
  /\ IsFiniteSet(Beside) /\ Cardinality(Beside) \in Nat
  /\ IsFiniteSet(QaRequest) /\ Cardinality(QaRequest) \in Nat
  /\ IsFiniteSet(QaDone) /\ Cardinality(QaDone) \in Nat
<1>1. Beside \in SUBSET Request /\ QaRequest \in SUBSET Request /\ QaDone \in SUBSET QaRequest
  BY RoutingAssumption DEF Beside, QaDone
<1>2. IsFiniteSet(Request)
  BY RoutingAssumption
<1>3. IsFiniteSet(Beside) /\ IsFiniteSet(QaRequest)
  BY <1>1, <1>2, FS_Subset
<1>4. IsFiniteSet(QaDone)
  BY <1>1, <1>3, FS_Subset
<1> QED
  BY <1>3, <1>4, FS_CardinalityType

(* Requests only finish: what leaves beside, the answers and the cursor     *)
(* alone and lets requests finish or begin to choose keeps the stages.      *)
LEMMA QaDoneGrows ==
  ASSUME QaDone \subseteq QaDone'
  PROVE  Cardinality(QaDone) <= Cardinality(QaDone') /\ Cardinality(QaDone') \in Nat
<1>1. QaDone' \in SUBSET QaRequest
  BY DEF QaDone
<1>2. IsFiniteSet(QaDone')
  BY <1>1, QaSetsAreFinite, FS_Subset
<1>3. Cardinality(QaDone') \in Nat
  BY <1>2, FS_CardinalityType
<1> QED
  BY <1>2, <1>3, FS_Subset

LEMMA QaStagesKept ==
  ASSUME QaInv, TypeInv', UNCHANGED <<store, qa>>, cursor'.generation = cursor.generation,
         NEW r \in Request,
         \A q \in Request \ {r} : request'[q] = request[q],
         request'[r].beside = request[r].beside,
         request'[r].tried # <<>> => request[r].tried # <<>>,
         request[r].pc # "done",
         request[r].pc = "new" /\ r \in QaRequest /\ store = "database" => qa.pc = "sending"
  PROVE  QaStages'
<1>1. Beside' = Beside /\ QaDone \subseteq QaDone'
  BY QaAreRequests DEF Beside, QaDone
<1>2. OwnTried => OwnTried'
  BY QaAreRequests DEF OwnTried
<1>3. Cardinality(QaDone) <= Cardinality(QaDone') /\ Cardinality(QaDone') \in Nat
      /\ Cardinality(QaDone) \in Nat /\ qa.answered \in Nat
  BY <1>1, QaDoneGrows, QaSetsAreFinite DEF QaInv, TypeInv, TypeOK, QaRecord
<1>4. QaDone' \subseteq QaRequest
  BY DEF QaDone
<1>5. qa.pc = "idle" => \A q \in QaRequest : store = "database" => request'[q].pc = "new"
  BY QaAreRequests DEF QaInv, QaStages
<1>6. qa.pc = "sending" => qa.answered <= Cardinality(QaDone')
  BY <1>3 DEF QaInv, QaStages
<1>7. qa.pc = "sent" => QaDone' = QaRequest
  BY <1>1, <1>4 DEF QaInv, QaStages
<1>8. Cardinality(Beside') = Cardinality(Beside)
  BY <1>1
<1>9. qa' = qa /\ store' = store /\ cursor'.generation = cursor.generation
  OBVIOUS
<1> QED
  BY <1>1, <1>2, <1>5, <1>6, <1>7, <1>8, <1>9 DEF QaInv, QaStages

LEMMA SelectReadsQa ==
  ASSUME QaInv, TypeInv', NEW r \in Request, SelectReads(r)
  PROVE  QaStages'
<1>1. /\ \A q \in Request \ {r} : request'[q] = request[q]
      /\ request'[r].beside = request[r].beside /\ request'[r].tried = request[r].tried
      /\ request[r].pc = "new" /\ UNCHANGED <<store, qa, cursor>>
  BY DEF SelectReads, QaInv, TypeInv, TypeOK, RequestRecord
<1>2. r \in QaRequest => qa.pc = "sending"
  BY DEF SelectReads, MaySend
<1> QED
  BY <1>1, <1>2, QaStagesKept

LEMMA SelectCommitsQa ==
  ASSUME QaInv, TypeInv', NEW r \in Request, SelectCommits(r)
  PROVE  QaStages'
<1>1. /\ \A q \in Request \ {r} : request'[q] = request[q]
      /\ request'[r].beside = (qa.pc = "sending") /\ request'[r].pc \in {"sent", "done"}
      /\ request[r].pc = "choosing" /\ ~request[r].beside
      /\ store = "database" /\ UNCHANGED store
      /\ cursor'.generation = cursor.generation + 1 /\ cursor.generation \in Nat
  BY DEF SelectCommits, QaInv, TypeInv, TypeOK, AttemptsFollowPc, New
<1>2. /\ qa'.pc = qa.pc /\ qa'.before = qa.before /\ qa'.after = qa.after
      /\ qa'.answered = qa.answered /\ qa.before \in Nat /\ qa.answered \in Nat
  BY DEF SelectCommits, RowsOfQa, QaInv, TypeInv, TypeOK, QaRecord
<1>3. QaDone \subseteq QaDone'
  BY <1>1, QaAreRequests DEF QaDone
<1>4. CASE qa.pc = "sending"
  <2>1. Beside' = Beside \cup {r} /\ r \notin Beside
    BY <1>1, <1>4 DEF Beside
  <2>2. Cardinality(Beside') = Cardinality(Beside) + 1 /\ Cardinality(Beside) \in Nat
    BY <2>1, QaSetsAreFinite, FS_AddElement
  <2>3. Cardinality(QaDone) <= Cardinality(QaDone') /\ Cardinality(QaDone') \in Nat
        /\ Cardinality(QaDone) \in Nat
    BY <1>3, QaDoneGrows, QaSetsAreFinite
  <2>4. OwnTried'
    BY <1>1, <1>4, QaAreRequests DEF QaInv, QaStages, OwnTried
  <2> QED
    BY <1>1, <1>2, <1>4, <2>2, <2>3, <2>4 DEF QaInv, QaStages
<1>5. CASE qa.pc # "sending"
  <2>1. Beside' = Beside
    BY <1>1, <1>5 DEF Beside
  <2>2. qa.pc \in {"idle", "sent"} => r \notin QaRequest
    BY <1>1 DEF QaInv, QaStages, QaDone
  <2>3. qa.pc = "sent" => QaDone' = QaRequest /\ OwnTried'
    BY <1>1, <1>3, <2>2, QaAreRequests DEF QaInv, QaStages, OwnTried, QaDone
  <2>4. qa.pc = "idle" => \A q \in QaRequest : request'[q].pc = "new"
    BY <1>1, <2>2, QaAreRequests DEF QaInv, QaStages
  <2> QED
    BY <1>1, <1>2, <1>5, <2>1, <2>3, <2>4 DEF QaInv, QaStages
<1> QED
  BY <1>4, <1>5

LEMMA SelectFailsQa ==
  ASSUME QaInv, TypeInv', NEW r \in Request, SelectFails(r)
  PROVE  QaStages'
<1>1. /\ \A q \in Request \ {r} : request'[q] = request[q]
      /\ ~request'[r].beside /\ request'[r].tried = <<>>
      /\ request[r].pc = "choosing" /\ ~request[r].beside
      /\ UNCHANGED <<store, qa, cursor>>
  BY DEF SelectFails, QaInv, TypeInv, TypeOK, AttemptsFollowPc, Over, New
<1>2. request'[r].beside = request[r].beside
  <2>1. request'[r].beside \in BOOLEAN /\ request[r].beside \in BOOLEAN
    BY DEF QaInv, TypeInv, TypeOK, RequestRecord
  <2> QED
    BY <1>1, <2>1
<1> QED
  BY <1>1, <1>2, QaStagesKept

(* Without a database there is no distribution case. *)
LEMMA FileStepsQa ==
  ASSUME QaInv, NEW r \in Request,
         FileSelects(r) \/ FileCommits(r) \/ FileFails(r) \/ FileDropped(r)
  PROVE  QaStages'
<1>1. store # "database" /\ UNCHANGED <<store, qa>> /\ qa.pc = "idle" /\ Beside = {}
  BY DEF FileSelects, FileCommits, FileFails, FileDropped, QaInv, QaStages
<1>2. ~request'[r].beside /\ \A q \in Request \ {r} : request'[q] = request[q]
  <2>1. ~request[r].beside
    BY <1>1 DEF Beside
  <2>2. CASE FileSelects(r)
    BY <2>1, <2>2 DEF FileSelects, QaInv, TypeInv, TypeOK, RequestRecord
  <2>3. CASE FileCommits(r)
    BY <2>3 DEF FileCommits, QaInv, TypeInv, TypeOK, New
  <2>4. CASE FileFails(r) \/ FileDropped(r)
    BY <2>4 DEF FileFails, FileDropped, QaInv, TypeInv, TypeOK, Over, New
  <2> QED
    BY <2>2, <2>3, <2>4
<1>3. Beside' = {}
  BY <1>1, <1>2 DEF Beside
<1> QED
  BY <1>1, <1>3 DEF QaStages

LEMMA RefusedQa ==
  ASSUME QaInv, TypeInv', NEW r \in Request, Refused(r)
  PROVE  QaStages'
<1>1. /\ \A q \in Request \ {r} : request'[q] = request[q]
      /\ request'[r].beside = request[r].beside /\ request'[r].tried = request[r].tried
      /\ request[r].pc = "sent" /\ UNCHANGED <<store, qa, cursor>>
  BY DEF Refused, Answered, picking, QaInv, TypeInv, TypeOK, RequestRecord
<1> QED
  BY <1>1, QaStagesKept

LEMMA FailoverQa ==
  ASSUME QaInv, TypeInv', NEW r \in Request, FailoverStarts(r)
  PROVE  QaStages'
<1>1. /\ \A q \in Request \ {r} : request'[q] = request[q]
      /\ request'[r].beside = request[r].beside /\ request[r].tried # <<>>
      /\ request[r].pc = "sent" /\ UNCHANGED <<store, qa, cursor>>
  BY DEF FailoverStarts, AfterFailover, QaInv, TypeInv, TypeOK, AttemptsFollowPc, RequestRecord
<1> QED
  BY <1>1, QaStagesKept

LEMMA AnsweredQa ==
  ASSUME QaInv, TypeInv', NEW r \in Request, Answered(r, TRUE)
  PROVE  QaStages'
<1>1. /\ \A q \in Request \ {r} : request'[q] = request[q]
      /\ request'[r].beside = request[r].beside /\ request'[r].tried = request[r].tried
      /\ request[r].pc = "sent" /\ request'[r].pc = "done" /\ UNCHANGED <<store, cursor>>
  BY DEF Answered, picking, QaInv, TypeInv, TypeOK, RequestRecord
<1>2. CASE r \notin QaRequest
  <2>1. qa' = qa
    BY <1>2 DEF Answered
  <2> QED
    BY <1>1, <2>1, QaStagesKept
<1>3. CASE r \in QaRequest
  <2>1. /\ qa'.pc = qa.pc /\ qa'.before = qa.before /\ qa'.after = qa.after
        /\ qa'.answered = qa.answered + 1 /\ qa.answered \in Nat
    BY <1>3 DEF Answered, QaInv, TypeInv, TypeOK, QaRecord
  <2>2. Beside' = Beside /\ (OwnTried => OwnTried')
    BY <1>1, QaAreRequests DEF Beside, OwnTried
  <2>3. QaDone' = QaDone \cup {r} /\ r \notin QaDone
    BY <1>1, <1>3, QaAreRequests DEF QaDone
  <2>4. Cardinality(QaDone') = Cardinality(QaDone) + 1 /\ Cardinality(QaDone) \in Nat
    BY <2>3, QaSetsAreFinite, FS_AddElement
  <2>5. qa.pc \notin {"idle", "sent"} \/ store # "database"
    BY <1>1, <1>3 DEF QaInv, QaStages, QaDone
  <2>6. store # "database" => qa.pc = "idle"
    BY DEF QaInv, QaStages
  <2>7. Cardinality(Beside') = Cardinality(Beside)
    BY <2>2
  <2>8. qa.pc = "sending" => qa'.answered <= Cardinality(QaDone')
    BY <2>1, <2>4 DEF QaInv, QaStages
  <2> QED
    BY <1>1, <2>1, <2>2, <2>5, <2>6, <2>7, <2>8 DEF QaInv, QaStages
<1> QED
  BY <1>2, <1>3

LEMMA CaseStepsQa ==
  ASSUME QaInv, QaPrepares \/ QaSent \/ QaTrafficFails \/ QaJudges
  PROVE  QaStages'
<1>1. UNCHANGED <<request, store>> /\ Beside' = Beside /\ QaDone' = QaDone
  BY DEF QaPrepares, QaSent, QaTrafficFails, QaJudges, Beside, QaDone
<1>2. store = "database"
  BY DEF QaPrepares, QaSent, QaTrafficFails, QaJudges, QaInv, QaStages
<1>3. OwnTried' <=> OwnTried
  BY <1>1 DEF OwnTried
<1>4. Unused.answered = 0
  BY DEF Unused
<1>5. CASE QaPrepares
  <2>1. /\ qa'.pc = "sending" /\ qa'.before = cursor.generation /\ qa'.answered = 0
        /\ cursor'.generation = cursor.generation /\ cursor.generation \in Nat /\ qa.pc = "idle"
    BY <1>5 DEF QaPrepares, Unused, QaInv, TypeInv, TypeOK
  <2>2. Cardinality(Beside') = 0 /\ Cardinality(QaDone') \in Nat
    BY <1>1, <2>1, FS_EmptySet, QaSetsAreFinite DEF QaInv, QaStages
  <2>3. OwnTried'
    BY <1>1, <1>2, <2>1, QaAreRequests
       DEF QaInv, QaStages, OwnTried, TypeInv, AttemptsFollowPc
  <2> QED
    BY <1>1, <1>2, <2>1, <2>2, <2>3 DEF QaStages
<1>6. CASE QaSent
  <2>1. /\ qa.pc = "sending" /\ qa'.pc = "sent" /\ qa'.before = qa.before
        /\ qa'.after = cursor.generation /\ qa.answered = Cardinality(QaRequest)
    BY <1>6 DEF QaSent, Required, QaInv, TypeInv, TypeOK, QaRecord
  <2>2. qa.answered <= Cardinality(QaDone) /\ OwnTried
        /\ cursor.generation = qa.before + Cardinality(Beside)
    BY <2>1 DEF QaInv, QaStages
  <2>3. QaDone \in SUBSET QaRequest
    BY DEF QaDone
  <2>4. QaDone = QaRequest
    <3>1. Cardinality(QaDone) <= Cardinality(QaRequest)
      BY <2>3, QaSetsAreFinite, FS_Subset
    <3>2. Cardinality(QaDone) = Cardinality(QaRequest)
      BY <2>1, <2>2, <3>1, QaSetsAreFinite
    <3> QED
      BY <2>3, <3>2, QaSetsAreFinite, FS_Subset
  <2> QED
    BY <1>1, <1>2, <1>3, <2>1, <2>2, <2>4 DEF QaStages
<1>7. CASE QaTrafficFails
  <2>1. qa'.pc = "failed"
    BY <1>7 DEF QaTrafficFails, Unused
  <2> QED
    BY <1>1, <1>2, <2>1 DEF QaStages
<1>8. CASE QaJudges
  <2>1. qa.pc = "sent" /\ qa'.pc = IF Distributed THEN "passed" ELSE "failed"
    BY <1>8 DEF QaJudges, Unused
  <2>2. ASSUME Distributed PROVE Beside \subseteq QaRequest
    <3>1. \A q \in QaRequest : request[q].beside
      <4>1. \A q \in QaRequest : request[q].tried # <<>>
        BY <2>2 DEF Distributed
      <4> QED
        BY <2>1, <4>1 DEF QaInv, QaStages, OwnTried
    <3>2. QaRequest \in SUBSET Beside
      BY <3>1, QaAreRequests DEF Beside
    <3>3. Cardinality(Beside) = Cardinality(QaRequest)
      <4>1. qa.after = qa.before + Cardinality(Beside)
        BY <2>1 DEF QaInv, QaStages
      <4>2. qa.after = qa.before + Cardinality(QaRequest)
        BY <2>2 DEF Distributed, Required
      <4>3. qa.before \in Nat
        BY DEF QaInv, TypeInv, TypeOK, QaRecord
      <4> QED
        BY <4>1, <4>2, <4>3, QaSetsAreFinite
    <3> QED
      BY <3>2, <3>3, QaSetsAreFinite, FS_Subset
  <2> QED
    BY <1>1, <1>2, <2>1, <2>2 DEF QaStages
<1> QED
  BY <1>5, <1>6, <1>7, <1>8

LEMMA CrashQa ==
  ASSUME QaInv, Crash
  PROVE  QaStages'
<1>1. ASSUME NEW r \in Request
      PROVE  /\ request'[r].beside => request[r].beside
             /\ request[r].pc = "new" => request'[r].pc = "new"
  <2>1. request'[r] = CASE request[r].pc = "choosing" -> Over
                        [] request[r].pc = "sent" -> [request[r] EXCEPT !.pc = "done"]
                        [] OTHER -> request[r]
    BY DEF Crash
  <2>2. ~Over.beside
    BY DEF Over, New
  <2> QED
    BY <2>1, <2>2 DEF QaInv, TypeInv, TypeOK, RequestRecord
<1>2. Beside' \subseteq Beside
  BY <1>1 DEF Beside
<1>3. store' = store /\ qa'.pc = IF qa.pc \in {"sending", "sent"} THEN "failed" ELSE qa.pc
  BY DEF Crash, Unused
<1> QED
  BY <1>1, <1>2, <1>3, QaAreRequests DEF QaInv, QaStages

LEMMA QaStep == QaInv /\ [Next]_vars => QaInv'
<1> SUFFICES ASSUME QaInv, [Next]_vars PROVE QaInv'
  OBVIOUS
<1>1. TypeInv'
  BY NextTypes DEF QaInv
<1>2. CASE UNCHANGED vars \/ KeysChange \/ UpdateRoutingPolicy
  <2>1. UNCHANGED <<store, cursor, request, qa>>
    BY <1>2 DEF vars, picking, KeysChange, UpdateRoutingPolicy
  <2>2. Beside' = Beside /\ QaDone' = QaDone /\ (OwnTried' <=> OwnTried)
    BY <2>1 DEF Beside, QaDone, OwnTried
  <2> QED
    BY <1>1, <2>1, <2>2 DEF QaInv, QaStages
<1>3. CASE ~(UNCHANGED vars \/ KeysChange \/ UpdateRoutingPolicy)
  <2>1. QaStages'
    BY <1>1, <1>3, SelectReadsQa, SelectCommitsQa, SelectFailsQa, FileStepsQa, AnsweredQa, RefusedQa,
       FailoverQa, CaseStepsQa, CrashQa DEF Next
  <2> QED
    BY <1>1, <2>1 DEF QaInv
<1> QED
  BY <1>2, <1>3

(* A distribution case that passes had the cursor for itself, for any       *)
(* number of its requests and of others beside them, and whatever failed:   *)
(* the two generations that evaluate_case compares leave room for no other  *)
(* first attempt.                                                           *)
THEOREM PassedCasesWereAlone == Spec => []QaPassMeansExclusive
<1>1. Init => QaInv
  <2> SUFFICES ASSUME Init PROVE QaStages
    BY InitTypes DEF QaInv
  <2>1. Beside = {} /\ qa.pc = "idle" /\ \A r \in Request : request[r].pc = "new"
    BY DEF Init, New, Unused, Beside
  <2> QED
    BY <2>1, QaAreRequests DEF QaStages
<1>2. QaInv => QaPassMeansExclusive
  BY DEF QaInv, QaStages, QaPassMeansExclusive, Beside
<1> QED
  BY <1>1, <1>2, QaStep, PTL DEF Spec

=============================================================================
