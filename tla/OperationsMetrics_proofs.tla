---------------------- MODULE OperationsMetrics_proofs ----------------------
(***************************************************************************)
(* Proofs about OperationsMetrics: for any number of processes, requests    *)
(* and batch sizes, and however often a transaction fails, no closed        *)
(* request is counted twice or deleted under a rollup that counts it.       *)
(***************************************************************************)
EXTENDS OperationsMetrics, FiniteSetTheorems, TLAPS

-----------------------------------------------------------------------------
(* Types *)

LEMMA RecordTypes == NoRow \in Row /\ EmptyBucket \in Bucket /\ Idle \in Worker
BY MetricsAssumption
   DEF NoRow, Row, Time, Measured, EmptyBucket, Bucket, Idle, Worker, Settings

LEMMA InitTypes == Init => TypeOK
<1>1. 0 \in Time
  BY MetricsAssumption DEF Time
<1> QED
  BY <1>1, RecordTypes, MetricsAssumption DEF Init, TypeOK, Settings

LEMMA OneRow ==
  ASSUME TypeOK, NEW r \in Request, NEW new \in Row, row' = [row EXCEPT ![r] = new]
  PROVE  row' \in [Request -> Row]
BY DEF TypeOK

LEMMA OneWorker ==
  ASSUME TypeOK, NEW p \in Process, NEW new \in Worker, worker' = [worker EXCEPT ![p] = new]
  PROVE  worker' \in [Process -> Worker]
BY DEF TypeOK

LEMMA RequestTypes ==
  ASSUME TypeOK, NEW r \in Request, StartRequest(r) \/ CloseRequest(r)
  PROVE  TypeOK'
<1>1. CASE StartRequest(r)
  <2> DEFINE new == [NoRow EXCEPT !.state = "open", !.started = now]
  <2>1. new \in Row
    BY RecordTypes DEF TypeOK, Row, NoRow
  <2>2. row' = [row EXCEPT ![r] = new]
    BY <1>1 DEF StartRequest
  <2>3. row' \in [Request -> Row]
    BY <2>1, <2>2, OneRow
  <2> QED
    BY <1>1, <2>3 DEF StartRequest, TypeOK
<1>2. CASE CloseRequest(r)
  <2>1. PICK latency \in Measured :
          row' = [row EXCEPT ![r] = [@ EXCEPT !.state = "closed", !.finished = now,
                                              !.latency = latency]]
    BY <1>2 DEF CloseRequest
  <2> DEFINE new == [row[r] EXCEPT !.state = "closed", !.finished = now, !.latency = latency]
  <2>2. new \in Row
    BY DEF TypeOK, Row
  <2>3. row' = [row EXCEPT ![r] = new]
    BY <2>1
  <2>4. row' \in [Request -> Row]
    BY <2>2, <2>3, OneRow
  <2> QED
    BY <1>2, <2>4 DEF CloseRequest, TypeOK
<1> QED
  BY <1>1, <1>2

LEMMA BeginTypes ==
  ASSUME TypeOK, NEW p \in Process, RollupBegins(p) \/ RetentionBegins(p)
  PROVE  TypeOK'
<1>1. PICK new \in Worker : worker' = [worker EXCEPT ![p] = new]
  <2>1. CASE RollupBegins(p)
    <3>1. PICK B \in Batches(Uncounted) :
            worker' = [worker EXCEPT ![p] = [Idle EXCEPT !.pc = "rolling", !.batch = B]]
      BY <2>1 DEF RollupBegins
    <3>2. B \in SUBSET Request
      BY DEF Batches, Uncounted
    <3>3. [Idle EXCEPT !.pc = "rolling", !.batch = B] \in Worker
      BY <3>2, RecordTypes DEF Worker, Idle
    <3> QED
      BY <3>1, <3>3
  <2>2. CASE RetentionBegins(p)
    <3>1. [Idle EXCEPT !.pc = "retaining", !.settings = settings, !.at = now] \in Worker
      BY RecordTypes DEF Worker, Idle, TypeOK
    <3> QED
      BY <2>2, <3>1 DEF RetentionBegins
  <2> QED
    BY <2>1, <2>2
<1>2. worker' \in [Process -> Worker]
  BY <1>1, OneWorker
<1>3. lock' = p /\ UNCHANGED <<row, attempt, permit, bucket, settings, purged, now>>
  BY DEF RollupBegins, RetentionBegins, TryLock, tables
<1> QED
  BY <1>2, <1>3 DEF TypeOK

LEMMA BecomesIdle ==
  ASSUME TypeOK, NEW p \in Process, worker' = [worker EXCEPT ![p] = Idle]
  PROVE  worker' \in [Process -> Worker]
BY RecordTypes, OneWorker

LEMMA SubsetsAreFinite ==
  ASSUME NEW S \in SUBSET Request
  PROVE  IsFiniteSet(S) /\ Cardinality(S) \in Nat
<1>1. IsFiniteSet(S)
  BY MetricsAssumption, FS_Subset
<1> QED
  BY <1>1, FS_CardinalityType

LEMMA AddedIsABucket ==
  ASSUME NEW old \in Bucket, NEW B \in SUBSET Request
  PROVE  Added(old, B) \in Bucket
<1>1. Cardinality(B) \in Nat /\ Cardinality(Sampled(B)) \in Nat
  BY SubsetsAreFinite DEF Sampled
<1>2. \A b \in Boundary : Cardinality(Within(B, b)) \in Nat
  BY SubsetsAreFinite DEF Within
<1> QED
  BY <1>1, <1>2 DEF Added, Bucket

LEMMA DisjointUnion ==
  ASSUME NEW X, IsFiniteSet(X), NEW Y, IsFiniteSet(Y), X \cap Y = {}
  PROVE  /\ Cardinality(X \cup Y) = Cardinality(X) + Cardinality(Y)
         /\ Cardinality(X) \in Nat /\ Cardinality(Y) \in Nat
<1>1. Cardinality(X) \in Nat /\ Cardinality(Y) \in Nat
  BY FS_CardinalityType
<1>2. Cardinality(X \cap Y) = 0
  BY FS_EmptySet
<1>3. Cardinality(X \cup Y) = Cardinality(X) + Cardinality(Y) - Cardinality(X \cap Y)
  BY FS_Union
<1> QED
  BY <1>1, <1>2, <1>3

LEMMA RollupCommitsTypes ==
  ASSUME TypeOK, NEW p \in Process, RollupCommits(p)
  PROVE  TypeOK'
<1> DEFINE B == worker[p].batch
<1>1. B \in SUBSET Request
  BY DEF TypeOK, Worker
<1>2. row' = [r \in Request |-> IF r \in B THEN [row[r] EXCEPT !.rolled = TRUE] ELSE row[r]]
  BY DEF RollupCommits, Marked
<1>3. \A r \in Request : [row[r] EXCEPT !.rolled = TRUE] \in Row /\ row[r] \in Row
  BY DEF TypeOK, Row
<1>4. row' \in [Request -> Row]
  BY <1>2, <1>3
<1>5. bucket' \in [Time -> Bucket]
  <2>1. \A t \in Time : Added(bucket[t], {r \in B : row[r].finished = t}) \in Bucket
    BY <1>1, AddedIsABucket DEF TypeOK
  <2>2. bucket' = [t \in Time |-> Added(bucket[t], {r \in B : row[r].finished = t})]
    BY DEF RollupCommits
  <2> QED
    BY <2>1, <2>2
<1>6. worker' \in [Process -> Worker]
  BY BecomesIdle DEF RollupCommits
<1> QED
  BY <1>4, <1>5, <1>6 DEF RollupCommits, Unlock, TypeOK

LEMMA RetentionCommitsTypes ==
  ASSUME TypeOK, NEW p \in Process, RetentionCommits(p)
  PROVE  TypeOK'
<1>1. row' \in [Request -> Row]
  <2>1. \A r \in Request : [row[r] EXCEPT !.state = "deleted"] \in Row /\ row[r] \in Row
    BY DEF TypeOK, Row
  <2>2. row' = [r \in Request |->
                  IF Expired(r, worker[p].at, worker[p].settings)
                    THEN [row[r] EXCEPT !.state = "deleted"] ELSE row[r]]
    BY DEF RetentionCommits
  <2> QED
    BY <2>1, <2>2
<1>2. bucket' \in [Time -> Bucket] /\ purged' \subseteq Time
  BY RecordTypes DEF RetentionCommits, TypeOK
<1>3. /\ attempt' \in [Request -> {"none", "open", "closed", "deleted"}]
      /\ permit' \in [Request -> {"none", "held", "released", "deleted"}]
  BY DEF RetentionCommits, TypeOK
<1>4. worker' \in [Process -> Worker]
  BY BecomesIdle DEF RetentionCommits
<1> QED
  BY <1>1, <1>2, <1>3, <1>4 DEF RetentionCommits, Unlock, TypeOK

LEMMA NextTypes == TypeOK /\ [Next]_vars => TypeOK'
<1> SUFFICES ASSUME TypeOK, [Next]_vars PROVE TypeOK'
  OBVIOUS
<1>1. CASE UNCHANGED vars
  BY <1>1 DEF vars, TypeOK
<1>2. CASE UpdateSettings
  BY <1>2 DEF UpdateSettings, tables, TypeOK, Settings
<1>3. CASE Tick
  BY <1>3, MetricsAssumption DEF Tick, tables, TypeOK, Time
<1>4. ASSUME NEW p \in Process, MaintenanceFails(p)
      PROVE  TypeOK'
  <2>1. worker' \in [Process -> Worker]
    BY <1>4, BecomesIdle DEF MaintenanceFails
  <2> QED
    BY <1>4, <2>1 DEF MaintenanceFails, tables, Unlock, TypeOK
<1> QED
  BY <1>1, <1>2, <1>3, <1>4, RequestTypes, BeginTypes, RollupCommitsTypes, RetentionCommitsTypes
     DEF Next

(* The tables, the buckets and the transactions of the workers keep their   *)
(* types for any number of processes and requests, and whatever fails.      *)
THEOREM TypeCorrect == Spec => []TypeOK
BY InitTypes, NextTypes, PTL DEF Spec

-----------------------------------------------------------------------------
(* The maintenance lock keeps workers out of each other's batches, and a    *)
(* row that was counted stays where it is.                                  *)

WorkersHoldTheLock == \A p \in Process : worker[p].pc # "idle" => lock = p

RolledRowsAreClosed == \A r \in Request : row[r].rolled => row[r].state \in {"closed", "deleted"}

LockInv == TypeOK /\ WorkersHoldTheLock /\ RolledRowsAreClosed /\ BatchIsUntouched

LEMMA RequestsRollNothing ==
  ASSUME LockInv, NEW r \in Request, StartRequest(r) \/ CloseRequest(r)
  PROVE  /\ \A q \in Request \ {r} : row'[q] = row[q]
         /\ row[r].state \in {"none", "open"} /\ ~row'[r].rolled
<1>1. CASE StartRequest(r)
  BY <1>1 DEF StartRequest, LockInv, TypeOK, NoRow
<1>2. CASE CloseRequest(r)
  BY <1>2 DEF CloseRequest, LockInv, TypeOK, Row, RolledRowsAreClosed
<1> QED
  BY <1>1, <1>2

LEMMA RequestsKeepBatches ==
  ASSUME LockInv, NEW r \in Request, StartRequest(r) \/ CloseRequest(r)
  PROVE  WorkersHoldTheLock' /\ RolledRowsAreClosed' /\ BatchIsUntouched'
<1>1. /\ \A q \in Request \ {r} : row'[q] = row[q]
      /\ row[r].state \in {"none", "open"} /\ ~row'[r].rolled
      /\ UNCHANGED <<worker, lock>>
  BY RequestsRollNothing DEF StartRequest, CloseRequest
<1>2. Uncounted \subseteq Uncounted'
  BY <1>1 DEF Uncounted
<1> QED
  BY <1>1, <1>2 DEF LockInv, WorkersHoldTheLock, RolledRowsAreClosed, BatchIsUntouched

LEMMA BeginKeepsBatches ==
  ASSUME LockInv, NEW p \in Process, RollupBegins(p) \/ RetentionBegins(p)
  PROVE  WorkersHoldTheLock' /\ RolledRowsAreClosed' /\ BatchIsUntouched'
<1>1. /\ \A q \in Process : worker[q].pc = "idle"
      /\ lock' = p /\ row' = row
      /\ \A q \in Process \ {p} : worker'[q] = worker[q]
  BY MetricsAssumption
     DEF RollupBegins, RetentionBegins, TryLock, tables, LockInv, WorkersHoldTheLock, TypeOK
<1>2. worker'[p].pc = "rolling" => worker'[p].batch \subseteq Uncounted
  <2>1. CASE RollupBegins(p)
    <3>1. PICK B \in Batches(Uncounted) :
            worker' = [worker EXCEPT ![p] = [Idle EXCEPT !.pc = "rolling", !.batch = B]]
      BY <2>1 DEF RollupBegins
    <3>2. B \subseteq Uncounted /\ worker'[p].batch = B
      BY <3>1 DEF Batches, LockInv, TypeOK, Idle
    <3> QED
      BY <3>2
  <2>2. CASE RetentionBegins(p)
    BY <2>2 DEF RetentionBegins, LockInv, TypeOK, Idle
  <2> QED
    BY <2>1, <2>2
<1>3. Uncounted' = Uncounted
  BY <1>1 DEF Uncounted
<1> QED
  BY <1>1, <1>2, <1>3 DEF LockInv, WorkersHoldTheLock, RolledRowsAreClosed, BatchIsUntouched

(* Retention changes the state of a row and none of its other fields.       *)
LEMMA RetentionOnlyDeletes ==
  ASSUME TypeOK, NEW p \in Process, RetentionCommits(p), NEW r \in Request
  PROVE  /\ row'[r].rolled = row[r].rolled /\ row'[r].finished = row[r].finished
         /\ row'[r].latency = row[r].latency
         /\ row'[r].state \in {row[r].state, "deleted"}
<1> DEFINE deleted == [row[r] EXCEPT !.state = "deleted"]
<1>1. row'[r] = IF Expired(r, worker[p].at, worker[p].settings) THEN deleted ELSE row[r]
  BY DEF RetentionCommits
<1>2. row[r] \in Row
  BY DEF TypeOK
<1>3. /\ deleted.rolled = row[r].rolled /\ deleted.finished = row[r].finished
      /\ deleted.latency = row[r].latency /\ deleted.state = "deleted"
  BY <1>2 DEF Row
<1> HIDE DEF deleted
<1> QED
  BY <1>1, <1>3

LEMMA EndKeepsBatches ==
  ASSUME LockInv, NEW p \in Process,
         RollupCommits(p) \/ RetentionCommits(p) \/ MaintenanceFails(p)
  PROVE  WorkersHoldTheLock' /\ RolledRowsAreClosed' /\ BatchIsUntouched'
<1>1. \A q \in Process : worker'[q].pc = "idle"
  <2>1. worker[p].pc # "idle" /\ worker' = [worker EXCEPT ![p] = Idle]
    BY DEF RollupCommits, RetentionCommits, MaintenanceFails
  <2>2. \A q \in Process \ {p} : worker[q].pc = "idle"
    BY <2>1 DEF LockInv, WorkersHoldTheLock
  <2> QED
    BY <2>1, <2>2 DEF LockInv, TypeOK, Idle
<1>2. RolledRowsAreClosed'
  <2>1. CASE RollupCommits(p)
    <3>1. worker[p].batch \subseteq Uncounted
      BY <2>1 DEF RollupCommits, LockInv, BatchIsUntouched
    <3>2. \A r \in Request :
            row'[r] = IF r \in worker[p].batch THEN [row[r] EXCEPT !.rolled = TRUE] ELSE row[r]
      BY <2>1 DEF RollupCommits, Marked
    <3>3. \A r \in Request : row[r] \in Row
      BY DEF LockInv, TypeOK
    <3>4. \A r \in Request : row'[r].state = row[r].state
      BY <3>2, <3>3 DEF Row
    <3>5. \A r \in Request \ worker[p].batch : row'[r].rolled = row[r].rolled
      BY <3>2
    <3>6. \A r \in worker[p].batch : row[r].state = "closed"
      BY <3>1 DEF Uncounted
    <3> QED
      BY <3>4, <3>5, <3>6 DEF LockInv, RolledRowsAreClosed
  <2>2. CASE RetentionCommits(p)
    <3>1. \A r \in Request : row'[r].rolled = row[r].rolled
                             /\ row'[r].state \in {row[r].state, "deleted"}
      BY <2>2, RetentionOnlyDeletes DEF LockInv
    <3> QED
      BY <3>1 DEF LockInv, RolledRowsAreClosed
  <2>3. CASE MaintenanceFails(p)
    BY <2>3 DEF MaintenanceFails, tables, LockInv, RolledRowsAreClosed
  <2> QED
    BY <2>1, <2>2, <2>3
<1> QED
  BY <1>1, <1>2 DEF WorkersHoldTheLock, BatchIsUntouched

LEMMA LockStep == LockInv /\ [Next]_vars => LockInv'
<1> SUFFICES ASSUME LockInv, [Next]_vars PROVE LockInv'
  OBVIOUS
<1>1. TypeOK'
  BY NextTypes DEF LockInv
<1>2. CASE UNCHANGED vars \/ UpdateSettings \/ Tick
  <2>1. UNCHANGED <<row, worker, lock>>
    BY <1>2 DEF vars, UpdateSettings, Tick, tables
  <2> QED
    BY <1>1, <2>1 DEF LockInv, WorkersHoldTheLock, RolledRowsAreClosed, BatchIsUntouched, Uncounted
<1>3. CASE ~(UNCHANGED vars \/ UpdateSettings \/ Tick)
  <2>1. WorkersHoldTheLock' /\ RolledRowsAreClosed' /\ BatchIsUntouched'
    BY <1>3, RequestsKeepBatches, BeginKeepsBatches, EndKeepsBatches DEF Next
  <2> QED
    BY <1>1, <2>1 DEF LockInv
<1> QED
  BY <1>2, <1>3

LEMMA InitLock == Init => LockInv
<1> SUFFICES ASSUME Init PROVE WorkersHoldTheLock /\ RolledRowsAreClosed /\ BatchIsUntouched
  BY InitTypes DEF LockInv
<1> QED
  BY DEF Init, Idle, NoRow, WorkersHoldTheLock, RolledRowsAreClosed, BatchIsUntouched

(* No worker of any process counts, marks or deletes a row another worker   *)
(* is about to count: pg_try_advisory_xact_lock in both jobs.               *)
THEOREM BatchesAreExclusive == Spec => []BatchIsUntouched
<1>1. LockInv => BatchIsUntouched
  BY DEF LockInv
<1> QED
  BY <1>1, InitLock, LockStep, PTL DEF Spec

-----------------------------------------------------------------------------
(* The buckets *)

CountInv == LockInv /\ BucketsCountEachRequestOnce

LEMMA RolledIntoIsFinite ==
  ASSUME NEW t \in Time
  PROVE  IsFiniteSet(RolledInto(t)) /\ Cardinality(RolledInto(t)) \in Nat
BY SubsetsAreFinite DEF RolledInto

(* What leaves the buckets alone and rolls nothing keeps the count.         *)
LEMMA CountKept ==
  ASSUME BucketsCountEachRequestOnce, UNCHANGED <<bucket, purged>>,
         \A r \in Request : /\ row'[r].rolled <=> row[r].rolled
                            /\ row[r].rolled => row'[r].finished = row[r].finished
  PROVE  BucketsCountEachRequestOnce'
<1>1. \A t \in Time : RolledInto(t)' = RolledInto(t)
  BY DEF RolledInto
<1> QED
  BY <1>1 DEF BucketsCountEachRequestOnce

LEMMA RollupCounts ==
  ASSUME CountInv, NEW p \in Process, RollupCommits(p)
  PROVE  BucketsCountEachRequestOnce'
<1> DEFINE B == worker[p].batch
           In(t) == {r \in B : row[r].finished = t}
<1>1. B \subseteq Uncounted /\ B \subseteq Request
  BY DEF RollupCommits, CountInv, LockInv, BatchIsUntouched, Uncounted
<1>2. \A r \in Request :
        row'[r] = IF r \in B THEN [row[r] EXCEPT !.rolled = TRUE] ELSE row[r]
  BY DEF RollupCommits, Marked
<1>3. ASSUME NEW t \in Time
      PROVE  /\ RolledInto(t)' = RolledInto(t) \cup In(t)
             /\ RolledInto(t) \cap In(t) = {}
  <2>1. \A r \in Request : /\ r \in B => row'[r].rolled /\ ~row[r].rolled
                           /\ r \notin B => row'[r] = row[r]
                           /\ row'[r].finished = row[r].finished
    BY <1>1, <1>2 DEF Uncounted, CountInv, LockInv, TypeOK, Row
  <2> QED
    BY <1>1, <2>1 DEF RolledInto
<1>4. ASSUME NEW t \in Time
      PROVE  Cardinality(RolledInto(t)') = Cardinality(RolledInto(t)) + Cardinality(In(t))
  <2>1. IsFiniteSet(In(t)) /\ IsFiniteSet(RolledInto(t))
    BY <1>1, SubsetsAreFinite, RolledIntoIsFinite
  <2> HIDE DEF In
  <2> QED
    BY <1>3, <2>1, DisjointUnion
<1>5. ASSUME NEW t \in Time
      PROVE  /\ bucket'[t].count = bucket[t].count + Cardinality(In(t))
             /\ bucket[t].count \in Nat /\ Cardinality(In(t)) \in Nat
             /\ Cardinality(RolledInto(t)) \in Nat
  <2>1. bucket'[t] = Added(bucket[t], In(t))
    BY DEF RollupCommits
  <2>2. bucket[t].count \in Nat
    BY DEF CountInv, LockInv, TypeOK, Bucket
  <2>3. Cardinality(In(t)) \in Nat
    BY <1>1, SubsetsAreFinite
  <2> QED
    BY <2>1, <2>2, <2>3, RolledIntoIsFinite DEF Added
<1>6. purged' = purged
  BY DEF RollupCommits
<1> HIDE DEF In
<1> QED
  BY <1>4, <1>5, <1>6 DEF CountInv, BucketsCountEachRequestOnce

LEMMA RetentionForgets ==
  ASSUME CountInv, NEW p \in Process, RetentionCommits(p)
  PROVE  BucketsCountEachRequestOnce'
<1>1. \A t \in Time : RolledInto(t)' = RolledInto(t)
  <2>1. \A r \in Request : row'[r].rolled = row[r].rolled /\ row'[r].finished = row[r].finished
    BY RetentionOnlyDeletes DEF CountInv, LockInv
  <2> QED
    BY <2>1 DEF RolledInto
<1>2. \A t \in Time : \/ bucket'[t] = bucket[t] /\ (t \in purged' <=> t \in purged)
                      \/ bucket'[t] = EmptyBucket /\ t \in purged'
  BY DEF RetentionCommits
<1>3. \A t \in Time : EmptyBucket.count = 0 /\ Cardinality(RolledInto(t)) \in Nat
  BY RolledIntoIsFinite DEF EmptyBucket
<1> QED
  BY <1>1, <1>2, <1>3 DEF CountInv, BucketsCountEachRequestOnce

LEMMA CountStep == CountInv /\ [Next]_vars => CountInv'
<1> SUFFICES ASSUME CountInv, [Next]_vars PROVE CountInv'
  OBVIOUS
<1>1. LockInv'
  BY LockStep DEF CountInv
<1>2. CASE UNCHANGED vars \/ UpdateSettings \/ Tick
  BY <1>1, <1>2, CountKept DEF CountInv, vars, UpdateSettings, Tick, tables
<1>3. ASSUME NEW p \in Process,
             RollupBegins(p) \/ RetentionBegins(p) \/ MaintenanceFails(p)
      PROVE  BucketsCountEachRequestOnce'
  BY <1>3, CountKept DEF CountInv, RollupBegins, RetentionBegins, MaintenanceFails, tables
<1>4. ASSUME NEW r \in Request, StartRequest(r) \/ CloseRequest(r)
      PROVE  BucketsCountEachRequestOnce'
  <2>1. /\ \A q \in Request \ {r} : row'[q] = row[q]
        /\ row[r].state \in {"none", "open"} /\ ~row'[r].rolled
    BY <1>4, RequestsRollNothing DEF CountInv
  <2>2. ~row[r].rolled
    BY <2>1 DEF CountInv, LockInv, RolledRowsAreClosed
  <2>3. UNCHANGED <<bucket, purged>>
    BY <1>4 DEF StartRequest, CloseRequest
  <2> QED
    BY <2>1, <2>2, <2>3, CountKept DEF CountInv
<1> QED
  BY <1>1, <1>2, <1>3, <1>4, RollupCounts, RetentionForgets DEF CountInv, Next

(* Every counted request is in the bucket of its minute exactly once, and   *)
(* retention only ever empties a bucket, for any number of processes,       *)
(* requests and batch sizes and whatever fails: rollup_request_metrics and  *)
(* apply_operations_retention.                                              *)
THEOREM BucketsAreExact == Spec => []BucketsCountEachRequestOnce
<1>1. Init => CountInv
  <2> SUFFICES ASSUME Init PROVE BucketsCountEachRequestOnce
    BY InitLock DEF CountInv
  <2>1. \A t \in Time : RolledInto(t) = {} /\ bucket[t].count = 0
    BY DEF Init, NoRow, EmptyBucket, RolledInto
  <2> QED
    BY <2>1, FS_EmptySet DEF BucketsCountEachRequestOnce
<1>2. CountInv => BucketsCountEachRequestOnce
  BY DEF CountInv
<1> QED
  BY <1>1, <1>2, CountStep, PTL DEF Spec

-----------------------------------------------------------------------------
(* Sums.  Total adds up the columns of the buckets of a window with a fold;  *)
(* here each column counts disjoint sets of requests, so that the sum counts *)
(* their union.  Which function the fold is follows by induction on the set  *)
(* it folds: a least set on which two solutions of its equation differ is    *)
(* impossible, since the order of the finite subsets is well founded.        *)

Chosen(S) == CHOOSE x \in S : TRUE
SumStep(f, g, s) == IF s = {} THEN 0 ELSE f[Chosen(s)] + g[s \ {Chosen(s)}]
IsSum(S, f, g) == g = [s \in SUBSET S |-> SumStep(f, g, s)]

LEMMA TotalUnfolds ==
  ASSUME NEW S, NEW f
  PROVE  Total(S, f) = (CHOOSE g : IsSum(S, f, g))[S]
BY DEF Total, FoldFunctionOnSet, MapThenFoldSet, Plus, Chosen, SumStep, IsSum

LEMMA SumsAreUnique ==
  ASSUME NEW S, IsFiniteSet(S), NEW f, NEW g, NEW h, IsSum(S, f, g), IsSum(S, f, h)
  PROVE  g = h
<1> DEFINE Differ == {s \in SUBSET S : g[s] # h[s]}
<1>1. SUFFICES ASSUME Differ # {} PROVE FALSE
  <2>1. \A s \in SUBSET S : g[s] = h[s]
    BY <1>1
  <2>2. g = [s \in SUBSET S |-> g[s]] /\ h = [s \in SUBSET S |-> h[s]]
    BY DEF IsSum
  <2> QED
    BY <2>1, <2>2
<1>2. Differ \subseteq FiniteSubsetsOf(S)
  BY FS_Subset DEF FiniteSubsetsOf
<1>3. PICK s \in Differ : \A t \in Differ : <<t, s>> \notin StrictSubsetOrdering(S)
  <2> HIDE DEF Differ
  <2> QED
    BY <1>1, <1>2, FS_StrictSubsetOrderingWellFounded, WFMin
<1>4. s # {}
  BY DEF IsSum, SumStep
<1>5. s \ {Chosen(s)} \in SUBSET S /\ s \ {Chosen(s)} # s
  BY <1>4 DEF Chosen
<1>6. <<s \ {Chosen(s)}, s>> \in StrictSubsetOrdering(S)
  BY <1>5 DEF StrictSubsetOrdering
<1>7. g[s \ {Chosen(s)}] = h[s \ {Chosen(s)}]
  BY <1>3, <1>5, <1>6
<1> QED
  BY <1>4, <1>7 DEF IsSum, SumStep

(* The sum of the sizes of the classes of a set is the size of the set.     *)
LEMMA TotalCounts ==
  ASSUME NEW S, IsFiniteSet(S), NEW A, IsFiniteSet(A), NEW class,
         NEW f, \A t \in S : f[t] = Cardinality({a \in A : class[a] = t})
  PROVE  Total(S, f) = Cardinality({a \in A : class[a] \in S})
<1> DEFINE Of(s) == {a \in A : class[a] \in s}
           count == [s \in SUBSET S |-> Cardinality(Of(s))]
<1>1. \A s \in SUBSET S : IsFiniteSet(Of(s)) /\ Cardinality(Of(s)) \in Nat
  BY FS_Subset, FS_CardinalityType
<1>2. ASSUME NEW s \in SUBSET S, s # {}
      PROVE  count[s] = f[Chosen(s)] + count[s \ {Chosen(s)}]
  <2> DEFINE t == Chosen(s)
  <2>1. t \in s /\ s \ {t} \in SUBSET S /\ {t} \in SUBSET S
    BY <1>2 DEF Chosen
  <2>2. Of(s) = Of({t}) \cup Of(s \ {t}) /\ Of({t}) \cap Of(s \ {t}) = {}
    BY <2>1
  <2>3. /\ IsFiniteSet(Of({t})) /\ Cardinality(Of({t})) \in Nat
        /\ IsFiniteSet(Of(s \ {t})) /\ Cardinality(Of(s \ {t})) \in Nat
    BY <1>1, <2>1
  <2>4. f[t] = Cardinality(Of({t}))
    <3> DEFINE One == {a \in A : class[a] = t}
    <3>1. Of({t}) = One
      OBVIOUS
    <3>2. t \in S
      BY <2>1
    <3>3. f[t] = Cardinality(One)
      BY <3>2
    <3> HIDE DEF Of, One, t
    <3> QED
      BY <3>1, <3>3
  <2>5. count[s] = Cardinality(Of(s)) /\ count[s \ {t}] = Cardinality(Of(s \ {t}))
    BY <2>1
  <2> HIDE DEF Of, count, t
  <2>6. Cardinality(Of({t}) \cup Of(s \ {t})) =
          Cardinality(Of({t})) + Cardinality(Of(s \ {t}))
    BY <2>2, <2>3, DisjointUnion
  <2>7. Cardinality(Of(s)) = Cardinality(Of({t})) + Cardinality(Of(s \ {t}))
    BY <2>2, <2>6
  <2> QED
    BY <2>4, <2>5, <2>7 DEF t
<1>3. count[{}] = 0
  <2>1. Of({}) = {}
    OBVIOUS
  <2>2. count[{}] = Cardinality(Of({}))
    OBVIOUS
  <2> HIDE DEF Of, count
  <2> QED
    BY <2>1, <2>2, FS_EmptySet
<1>4. count = [s \in SUBSET S |-> count[s]]
  OBVIOUS
<1>5. count[S] = Cardinality(Of(S))
  OBVIOUS
<1> HIDE DEF count
<1>6. IsSum(S, f, count)
  <2>1. \A s \in SUBSET S : count[s] = SumStep(f, count, s)
    BY <1>2, <1>3 DEF SumStep
  <2>2. [s \in SUBSET S |-> count[s]] = [s \in SUBSET S |-> SumStep(f, count, s)]
    BY <2>1
  <2> QED
    BY <1>4, <2>2 DEF IsSum
<1>7. IsSum(S, f, CHOOSE g : IsSum(S, f, g))
  BY <1>6
<1>8. (CHOOSE g : IsSum(S, f, g)) = count
  BY <1>6, <1>7, SumsAreUnique
<1> QED
  BY <1>5, <1>8, TotalUnfolds

-----------------------------------------------------------------------------
(* The public page.  Beside its count a bucket has a column of samples and   *)
(* one per boundary; each counts the rolled requests whose latency is in a   *)
(* set, so one lemma serves them all.                                        *)

Part(X, latencies) == {r \in X : row[r].latency \in latencies}
UpTo(b) == {l \in Latency : l <= b}
Rolled == {r \in Request : row[r].rolled}
Size(t, latencies) == Cardinality(Part(RolledInto(t), latencies))

ColumnsAreExact ==
  \A t \in Time \ purged :
    /\ bucket[t].samples = Size(t, Latency)
    /\ \A b \in Boundary : bucket[t].within[b] = Size(t, UpTo(b))

MetricInv == CountInv /\ ColumnsAreExact

LEMMA PartsOfRequests ==
  ASSUME TypeOK, NEW X \in SUBSET Request
  PROVE  /\ Sampled(X) = Part(X, Latency)
         /\ \A b \in Boundary : Within(X, b) = Part(X, UpTo(b))
         /\ X = Part(X, Measured)
         /\ \A L : IsFiniteSet(Part(X, L)) /\ Cardinality(Part(X, L)) \in Nat
<1>1. \A r \in X : row[r].latency \in Measured
  BY DEF TypeOK, Row
<1>2. \A r \in X : row[r].latency # Unknown <=> row[r].latency \in Latency
  BY <1>1, MetricsAssumption DEF Measured
<1>3. \A L : IsFiniteSet(Part(X, L)) /\ Cardinality(Part(X, L)) \in Nat
  BY SubsetsAreFinite DEF Part
<1> QED
  BY <1>1, <1>2, <1>3 DEF Sampled, Within, Part, UpTo

LEMMA ColumnsKept ==
  ASSUME ColumnsAreExact, UNCHANGED <<bucket, purged>>,
         \A r \in Request : /\ row'[r].rolled <=> row[r].rolled
                            /\ row[r].rolled => /\ row'[r].finished = row[r].finished
                                                /\ row'[r].latency = row[r].latency
  PROVE  ColumnsAreExact'
<1>1. \A t \in Time : \A L : Part(RolledInto(t), L)' = Part(RolledInto(t), L)
  BY DEF RolledInto, Part
<1>2. \A t \in Time :
        /\ Size(t, Latency)' = Size(t, Latency)
        /\ \A b \in Boundary : Size(t, UpTo(b))' = Size(t, UpTo(b))
  BY <1>1 DEF UpTo, Size
<1> QED
  BY <1>2 DEF ColumnsAreExact

LEMMA RollupAddsToColumns ==
  ASSUME MetricInv, NEW p \in Process, RollupCommits(p)
  PROVE  ColumnsAreExact'
<1> DEFINE B == worker[p].batch
           In(t) == {r \in B : row[r].finished = t}
<1>1. B \subseteq Uncounted /\ B \subseteq Request /\ TypeOK
  BY DEF RollupCommits, MetricInv, CountInv, LockInv, BatchIsUntouched, Uncounted
<1>2. \A r \in Request : /\ r \in B => row'[r].rolled /\ ~row[r].rolled
                         /\ r \notin B => row'[r] = row[r]
                         /\ row'[r].finished = row[r].finished
                         /\ row'[r].latency = row[r].latency
  <2>1. \A r \in Request :
          row'[r] = IF r \in B THEN [row[r] EXCEPT !.rolled = TRUE] ELSE row[r]
    BY DEF RollupCommits, Marked
  <2> QED
    BY <1>1, <2>1 DEF Uncounted, TypeOK, Row
<1>3. ASSUME NEW t \in Time, NEW L
      PROVE  Size(t, L)'
               = Size(t, L) + Cardinality(Part(In(t), L))
  <2>1. /\ Part(RolledInto(t), L)' = Part(RolledInto(t), L) \cup Part(In(t), L)
        /\ Part(RolledInto(t), L) \cap Part(In(t), L) = {}
    BY <1>1, <1>2 DEF RolledInto, Part
  <2>2. IsFiniteSet(Part(RolledInto(t), L)) /\ IsFiniteSet(Part(In(t), L))
    <3>1. In(t) \in SUBSET Request /\ RolledInto(t) \in SUBSET Request
      BY <1>1 DEF RolledInto
    <3> HIDE DEF In
    <3> QED
      BY <1>1, <3>1, PartsOfRequests
  <2> HIDE DEF In
  <2> QED
    BY <2>1, <2>2, DisjointUnion DEF Size
<1>4. ASSUME NEW t \in Time
      PROVE  /\ bucket'[t].samples = bucket[t].samples + Cardinality(Part(In(t), Latency))
             /\ \A b \in Boundary :
                  bucket'[t].within[b] = bucket[t].within[b] + Cardinality(Part(In(t), UpTo(b)))
  <2>1. In(t) \in SUBSET Request
    BY <1>1
  <2>2. bucket'[t] = Added(bucket[t], In(t))
    BY DEF RollupCommits
  <2> HIDE DEF In
  <2>3. /\ Sampled(In(t)) = Part(In(t), Latency)
        /\ \A b \in Boundary : Within(In(t), b) = Part(In(t), UpTo(b))
    BY <1>1, <2>1, PartsOfRequests
  <2> QED
    BY <2>2, <2>3 DEF Added
<1>5. purged' = purged
  BY DEF RollupCommits
<1> HIDE DEF In, B
<1>6. \A t \in Time :
        /\ Size(t, Latency)' = Size(t, Latency) + Cardinality(Part(In(t), Latency))
        /\ \A b \in Boundary :
             Size(t, UpTo(b))' = Size(t, UpTo(b)) + Cardinality(Part(In(t), UpTo(b)))
  BY <1>3 DEF UpTo
<1>7. \A t \in Time \ purged :
        /\ bucket[t].samples = Size(t, Latency)
        /\ \A b \in Boundary : bucket[t].within[b] = Size(t, UpTo(b))
  BY DEF MetricInv, ColumnsAreExact
<1> QED
  <2> SUFFICES ASSUME NEW t \in Time \ purged
               PROVE  /\ bucket'[t].samples = Size(t, Latency)'
                      /\ \A b \in Boundary :
                           bucket'[t].within[b] = Size(t, UpTo(b))'
    BY <1>5 DEF ColumnsAreExact
  <2> QED
    BY <1>4, <1>6, <1>7

LEMMA RetentionForgetsColumns ==
  ASSUME MetricInv, NEW p \in Process, RetentionCommits(p)
  PROVE  ColumnsAreExact'
<1>1. \A t \in Time : \A L : Part(RolledInto(t), L)' = Part(RolledInto(t), L)
  <2>1. \A r \in Request : /\ row'[r].rolled = row[r].rolled /\ row'[r].finished = row[r].finished
                           /\ row'[r].latency = row[r].latency
    BY RetentionOnlyDeletes DEF MetricInv, CountInv, LockInv
  <2> QED
    BY <2>1 DEF RolledInto, Part
<1>2. \A t \in Time \ purged' : bucket'[t] = bucket[t] /\ t \notin purged
  BY DEF RetentionCommits
<1>3. \A t \in Time :
        /\ Size(t, Latency)' = Size(t, Latency)
        /\ \A b \in Boundary : Size(t, UpTo(b))' = Size(t, UpTo(b))
  BY <1>1 DEF UpTo, Size
<1> QED
  BY <1>2, <1>3 DEF MetricInv, ColumnsAreExact

LEMMA MetricStep == MetricInv /\ [Next]_vars => MetricInv'
<1> SUFFICES ASSUME MetricInv, [Next]_vars PROVE MetricInv'
  OBVIOUS
<1>1. CountInv'
  BY CountStep DEF MetricInv
<1>2. CASE UNCHANGED vars \/ UpdateSettings \/ Tick
  BY <1>1, <1>2, ColumnsKept DEF MetricInv, vars, UpdateSettings, Tick, tables
<1>3. ASSUME NEW p \in Process,
             RollupBegins(p) \/ RetentionBegins(p) \/ MaintenanceFails(p)
      PROVE  ColumnsAreExact'
  BY <1>3, ColumnsKept DEF MetricInv, RollupBegins, RetentionBegins, MaintenanceFails, tables
<1>4. ASSUME NEW r \in Request, StartRequest(r) \/ CloseRequest(r)
      PROVE  ColumnsAreExact'
  <2>1. /\ \A q \in Request \ {r} : row'[q] = row[q]
        /\ row[r].state \in {"none", "open"} /\ ~row'[r].rolled
    BY <1>4, RequestsRollNothing DEF MetricInv, CountInv
  <2>2. ~row[r].rolled
    BY <2>1 DEF MetricInv, CountInv, LockInv, RolledRowsAreClosed
  <2>3. UNCHANGED <<bucket, purged>>
    BY <1>4 DEF StartRequest, CloseRequest
  <2> QED
    BY <2>1, <2>2, <2>3, ColumnsKept DEF MetricInv
<1> QED
  BY <1>1, <1>2, <1>3, <1>4, RollupAddsToColumns, RetentionForgetsColumns DEF MetricInv, Next

LEMMA InitMetric == Init => MetricInv
<1> SUFFICES ASSUME Init PROVE MetricInv
  OBVIOUS
<1>1. \A t \in Time : RolledInto(t) = {} /\ bucket[t] = EmptyBucket
  BY DEF Init, NoRow, RolledInto
<1>2. \A t \in Time : bucket[t].count = 0 /\ bucket[t].samples = 0
                      /\ \A b \in Boundary : bucket[t].within[b] = 0
  BY <1>1 DEF EmptyBucket
<1>3. \A t \in Time : \A L : Part(RolledInto(t), L) = {}
  BY <1>1 DEF Part
<1>4. BucketsCountEachRequestOnce
  BY <1>1, <1>2, FS_EmptySet DEF BucketsCountEachRequestOnce
<1>5. ColumnsAreExact
  BY <1>2, <1>3, FS_EmptySet DEF ColumnsAreExact, Size
<1> QED
  BY <1>4, <1>5, InitLock DEF MetricInv, CountInv

LEMMA LeastNatural ==
  ASSUME NEW S \in SUBSET Nat, S # {}
  PROVE  \E n \in S : \A m \in S : n <= m
<1>1. IsWellFoundedOn({ss \in Nat \X Nat : ss[1] < ss[2]}, Nat)
  BY NatLessThanWellFounded DEF OpToRel
<1>2. PICK n \in S : \A m \in S : <<m, n>> \notin {ss \in Nat \X Nat : ss[1] < ss[2]}
  BY <1>1, WFMin
<1>3. \A m \in S : ~(m < n)
  BY <1>2
<1> QED
  BY <1>3

LEMMA GreatestNatural ==
  ASSUME NEW S \in SUBSET Nat, IsFiniteSet(S), S # {}
  PROVE  \E n \in S : \A m \in S : m <= n
<1> DEFINE Unbounded == {T \in SUBSET S : T # {} /\ \A n \in T : \E m \in T : ~(m <= n)}
<1>1. SUFFICES ASSUME Unbounded # {} PROVE FALSE
  BY <1>1
<1>2. Unbounded \subseteq FiniteSubsetsOf(S)
  BY FS_Subset DEF FiniteSubsetsOf
<1>3. PICK T \in Unbounded : \A U \in Unbounded : <<U, T>> \notin StrictSubsetOrdering(S)
  <2> HIDE DEF Unbounded
  <2> QED
    BY <1>1, <1>2, FS_StrictSubsetOrderingWellFounded, WFMin
<1>4. PICK n \in T : TRUE
  OBVIOUS
<1>5. T \ {n} \in SUBSET S /\ <<T \ {n}, T>> \in StrictSubsetOrdering(S)
  BY <1>4 DEF StrictSubsetOrdering
<1>6. T \ {n} \notin Unbounded
  BY <1>3, <1>5
<1>7. CASE T \ {n} = {}
  BY <1>4, <1>7
<1>8. CASE T \ {n} # {}
  <2>1. PICK k \in T \ {n} : \A m \in T \ {n} : m <= k
    BY <1>5, <1>6, <1>8
  <2>2. \A m \in T : m <= k \/ m <= n
    BY <2>1
  <2>3. n \in Nat /\ k \in Nat /\ T \subseteq Nat
    OBVIOUS
  <2>4. \E j \in T : \A m \in T : m <= j
    BY <2>1, <2>2, <2>3
  <2> QED
    BY <2>4
<1> QED
  BY <1>7, <1>8

(* Each column summed over a window counts the requests of that window.     *)
LEMMA WindowCounts ==
  ASSUME TypeOK, NEW L, NEW column, \A t \in InWindow :
           column[t] = Size(t, L)
  PROVE  Total(InWindow, column) = Cardinality(Part(Counted, L))
<1> DEFINE class == [r \in Request |-> row[r].finished]
           A == Part(Rolled, L)
<1>1. InWindow \subseteq Time /\ IsFiniteSet(InWindow)
  <2>1. IsFiniteSet(0 .. Horizon)
    BY MetricsAssumption, FS_Interval
  <2>2. InWindow \subseteq 0 .. Horizon
    BY DEF InWindow, Time
  <2> QED
    BY <2>1, <2>2, FS_Subset DEF Time
<1>2. IsFiniteSet(A)
  <2>1. Rolled \in SUBSET Request
    BY DEF Rolled
  <2> QED
    BY <2>1, PartsOfRequests
<1>3. ASSUME NEW t \in InWindow
      PROVE  Part(RolledInto(t), L) = {a \in A : class[a] = t}
  <2>1. \A r \in Request : r \in Part(RolledInto(t), L) <=> r \in A /\ class[r] = t
    BY DEF Part, RolledInto, Rolled
  <2>2. A \subseteq Request /\ Part(RolledInto(t), L) \subseteq Request
    BY DEF Part, RolledInto, Rolled
  <2> HIDE DEF A, class
  <2> QED
    BY <2>1, <2>2
<1>4. Part(Counted, L) = {a \in A : class[a] \in InWindow}
  BY DEF Part, Counted, Rolled
<1> HIDE DEF A, class
<1>5. \A t \in InWindow : column[t] = Cardinality({a \in A : class[a] = t})
  BY <1>3 DEF Size
<1>6. Total(InWindow, column) = Cardinality({a \in A : class[a] \in InWindow})
  BY <1>1, <1>2, <1>5, TotalCounts
<1> QED
  BY <1>4, <1>6

LEMMA SummaryCounts ==
  ASSUME MetricInv, InWindow \cap purged = {}
  PROVE  /\ RequestCount = Cardinality(Counted)
         /\ SampleCount = Cardinality(Sampled(Counted))
         /\ \A b \in Boundary : CountWithin(b) = Cardinality(Within(Counted, b))
<1>1. TypeOK /\ Counted \in SUBSET Request /\ InWindow \subseteq Time
  BY DEF MetricInv, CountInv, LockInv, Counted, InWindow
<1>2. /\ Sampled(Counted) = Part(Counted, Latency) /\ Counted = Part(Counted, Measured)
      /\ \A b \in Boundary : Within(Counted, b) = Part(Counted, UpTo(b))
  BY <1>1, PartsOfRequests
<1>3. \A t \in InWindow :
        /\ bucket[t].count = Size(t, Measured)
        /\ bucket[t].samples = Size(t, Latency)
        /\ \A b \in Boundary : bucket[t].within[b] = Size(t, UpTo(b))
  <2>1. \A t \in InWindow : t \in Time /\ t \notin purged
    BY <1>1
  <2>2. \A t \in Time : RolledInto(t) = Part(RolledInto(t), Measured)
    <3>1. \A t \in Time : RolledInto(t) \in SUBSET Request
      BY DEF RolledInto
    <3> QED
      BY <1>1, <3>1, PartsOfRequests
  <2> QED
    BY <2>1, <2>2 DEF MetricInv, CountInv, BucketsCountEachRequestOnce, ColumnsAreExact, Size
<1>4. RequestCount = Cardinality(Part(Counted, Measured))
  <2> DEFINE column == [t \in Time |-> bucket[t].count]
  <2>1. \A t \in InWindow : column[t] = Size(t, Measured)
    BY <1>1, <1>3
  <2> HIDE DEF column
  <2>2. Total(InWindow, column) = Cardinality(Part(Counted, Measured))
    BY <1>1, <2>1, WindowCounts
  <2> QED
    BY <2>2 DEF RequestCount, column
<1>5. SampleCount = Cardinality(Part(Counted, Latency))
  <2> DEFINE column == [t \in Time |-> bucket[t].samples]
  <2>1. \A t \in InWindow : column[t] = Size(t, Latency)
    BY <1>1, <1>3
  <2> HIDE DEF column
  <2>2. Total(InWindow, column) = Cardinality(Part(Counted, Latency))
    BY <1>1, <2>1, WindowCounts
  <2> QED
    BY <2>2 DEF SampleCount, column
<1>6. ASSUME NEW b \in Boundary
      PROVE  CountWithin(b) = Cardinality(Part(Counted, UpTo(b)))
  <2> DEFINE column == [t \in Time |-> bucket[t].within[b]]
  <2>1. \A t \in InWindow : column[t] = Size(t, UpTo(b))
    BY <1>1, <1>3
  <2> HIDE DEF column
  <2>2. Total(InWindow, column) = Cardinality(Part(Counted, UpTo(b)))
    BY <1>1, <2>1, WindowCounts
  <2> QED
    BY <2>2 DEF CountWithin, column
<1> QED
  BY <1>2, <1>4, <1>5, <1>6

(* The target is rounded up: enough samples are as many as the percentile   *)
(* asks for, neither one less nor one more.                                 *)
LEMMA TargetIsExact ==
  ASSUME NEW samples \in Nat, NEW found \in Nat
  PROVE  found >= Target(samples) <=> found * 100 >= samples * Percentile
<1> DEFINE asked == samples * Percentile
<1>1. asked \in Nat
  BY MetricsAssumption
<1>2. \A q \in Nat : found >= (q + 99) \div 100 <=> found * 100 >= q
  OBVIOUS
<1> HIDE DEF asked
<1>3. found >= (asked + 99) \div 100 <=> found * 100 >= asked
  BY <1>1, <1>2
<1> QED
  BY <1>3 DEF Target, asked

(* What metric_summary publishes of a window whose buckets were not deleted *)
(* is true of the requests counted in it: nothing of fewer than MinSamples, *)
(* and the least boundary that enough samples lie within, for any           *)
(* boundaries, percentile and batch sizes, any number of processes and      *)
(* requests, and whatever transactions fail.                                *)
THEOREM PublicMetricsAreHonest == Spec => []PublicMetricIsHonest
<1>1. ASSUME MetricInv PROVE PublicMetricIsHonest
  <2> SUFFICES ASSUME InWindow \cap purged = {}
               PROVE  /\ PublicMetric.shown <=> Cardinality(Counted) >= MinSamples
                      /\ PublicMetric.shown /\ Sampled(Counted) # {} =>
                           \A b \in Boundary : b >= PublicMetric.p95 <=> EnoughWithin(b)
    BY DEF PublicMetricIsHonest
  <2> DEFINE enough == {b \in Boundary : CountWithin(b) >= Target(SampleCount)}
             last == CHOOSE b \in Boundary : \A c \in Boundary : c <= b
             least == CHOOSE b \in enough : \A c \in enough : b <= c
  <2>1. TypeOK /\ Counted \in SUBSET Request
    BY <1>1 DEF MetricInv, CountInv, LockInv, Counted
  <2>2. /\ RequestCount = Cardinality(Counted) /\ Cardinality(Counted) \in Nat
        /\ SampleCount = Cardinality(Sampled(Counted)) /\ SampleCount \in Nat
        /\ \A b \in Boundary : /\ CountWithin(b) = Cardinality(Within(Counted, b))
                               /\ CountWithin(b) \in Nat
    <3>1. /\ Sampled(Counted) \in SUBSET Request
          /\ \A b \in Boundary : Within(Counted, b) \in SUBSET Request
      BY <2>1 DEF Sampled, Within
    <3> QED
      BY <1>1, <2>1, <3>1, SummaryCounts, SubsetsAreFinite
  <2>3. PublicMetric.shown <=> Cardinality(Counted) >= MinSamples
    BY <2>2, MetricsAssumption DEF PublicMetric, Suppressed
  <2>4. \A b \in Boundary : EnoughWithin(b) <=> b \in enough
    <3>1. \A b \in Boundary : CountWithin(b) >= Target(SampleCount)
                                <=> CountWithin(b) * 100 >= SampleCount * Percentile
      BY <2>2, TargetIsExact
    <3> QED
      BY <2>2, <3>1 DEF EnoughWithin
  <2>5. ASSUME NEW b \in enough, NEW c \in Boundary, b <= c
        PROVE  c \in enough
    <3>1. Within(Counted, b) \subseteq Within(Counted, c) /\ IsFiniteSet(Within(Counted, c))
      <4>1. \A r \in Counted : row[r].latency # Unknown => row[r].latency \in Nat
        BY <2>1, MetricsAssumption DEF TypeOK, Row, Measured
      <4>2. Within(Counted, b) \subseteq Within(Counted, c)
        <5>1. b \in Nat /\ c \in Nat /\ b <= c
          BY <2>5, MetricsAssumption
        <5> HIDE DEF enough
        <5> QED
          BY <4>1, <5>1 DEF Within
      <4>3. Within(Counted, c) \in SUBSET Request
        BY <2>1 DEF Within
      <4> QED
        BY <4>2, <4>3, SubsetsAreFinite
    <3>2. Cardinality(Within(Counted, b)) <= Cardinality(Within(Counted, c))
      BY <3>1, FS_Subset
    <3>3. EnoughWithin(c)
      <4>1. EnoughWithin(b) /\ Cardinality(Within(Counted, b)) \in Nat
            /\ Cardinality(Within(Counted, c)) \in Nat
        BY <2>2, <2>4
      <4>2. SampleCount * Percentile \in Nat
        BY <2>2, MetricsAssumption
      <4> QED
        BY <2>2, <3>2, <4>1, <4>2 DEF EnoughWithin
    <3> QED
      BY <2>4, <3>3
  <2>6. ASSUME PublicMetric.shown, Sampled(Counted) # {}, NEW b \in Boundary
        PROVE  b >= PublicMetric.p95 <=> b \in enough
    <3>1. SampleCount # 0
      <4>1. IsFiniteSet(Sampled(Counted))
        <5>1. Sampled(Counted) \in SUBSET Request
          BY <2>1 DEF Sampled
        <5> QED
          BY <5>1, SubsetsAreFinite
      <4> QED
        BY <2>2, <2>6, <4>1, FS_EmptySet
    <3>2. PublicMetric.p95 = IF enough = {} THEN last + 1 ELSE least
      BY <2>6, <3>1 DEF PublicMetric, Suppressed, PercentileBucket
    <3>3. Boundary \subseteq Nat /\ enough \subseteq Boundary
      BY MetricsAssumption
    <3>4. CASE enough = {}
      <4>1. last \in Boundary /\ \A c \in Boundary : c <= last
        BY MetricsAssumption, GreatestNatural
      <4> HIDE DEF enough, last
      <4> QED
        BY <3>2, <3>3, <3>4, <4>1
    <3>5. CASE enough # {}
      <4>1. least \in enough /\ \A c \in enough : least <= c
        <5> HIDE DEF enough
        <5>1. enough \in SUBSET Nat
          BY <3>3
        <5>2. \E a \in enough : \A c \in enough : a <= c
          BY <3>5, <5>1, LeastNatural
        <5> QED
          BY <5>2
      <4> HIDE DEF enough, least
      <4> QED
        BY <2>5, <3>2, <3>3, <3>5, <4>1
    <3> QED
      BY <3>4, <3>5
  <2> HIDE DEF enough
  <2> QED
    BY <2>3, <2>4, <2>6
<1> QED
  BY <1>1, InitMetric, MetricStep, PTL DEF Spec

=============================================================================
