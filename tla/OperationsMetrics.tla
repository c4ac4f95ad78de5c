-------------------------- MODULE OperationsMetrics ---------------------------
(***************************************************************************)
(* The operations workers of the gateway processes: every few seconds each  *)
(* rolls closed requests up into metric buckets, every hour each applies    *)
(* the retention settings, and both do so in one transaction that first     *)
(* tries the maintenance lock of the database.  The public metrics are      *)
(* computed from the buckets.                                               *)
(*                                                                         *)
(* Time is counted in ticks: a bucket is the requests that finished in one  *)
(* tick, and retention is a number of ticks.  A deleted row keeps its       *)
(* fields in the model, with the state "deleted".  One measured latency     *)
(* stands for duration_ms and ttfb_ms, which are summed the same way, and   *)
(* one endpoint, profile and outcome class for all.  A transaction commits  *)
(* or fails; whether its worker learns of it makes no difference.           *)
(***************************************************************************)
EXTENDS Naturals, FiniteSets, Functions

CONSTANTS
  Process,       \* gateway processes, each with its two workers
  Request,
  Boundary,      \* upper bounds of the latency classes: 250 .. 5000 ms
  Latency,       \* latencies a request may have
  Unknown,       \* duration_ms IS NULL
  BatchSize,     \* ROLLUP_BATCH_SIZE
  RequestDays,   \* values request_retention_days may take: 7 .. 90
  MetricDays,    \* values metric_retention_days may take: 7 .. 365
  Settings0,     \* the settings at the start
  MinSamples,    \* fewest samples that are published: 5
  Percentile,    \* 95
  Window,        \* ticks a public summary looks back
  Horizon,       \* bound on the clock
  NoProcess

ASSUME MetricsAssumption ==
  /\ NoProcess \notin Process /\ IsFiniteSet(Request)
  /\ Boundary \subseteq Nat /\ IsFiniteSet(Boundary) /\ Boundary # {} /\ Latency \subseteq Nat /\ Unknown \notin Nat
  /\ BatchSize \in Nat \ {0}
  /\ RequestDays \subseteq Nat \ {0} /\ MetricDays \subseteq Nat \ {0}
  /\ Settings0 \in [request: RequestDays, metric: MetricDays]
  /\ MinSamples \in Nat \ {0} /\ Percentile \in 1 .. 100
  /\ Window \in Nat /\ Horizon \in Nat

VARIABLES
  row,       \* proxy_requests
  attempt,   \* request_attempts: the attempts of each request together
  permit,    \* downstream_request_permits
  bucket,    \* metric_buckets_minute, per tick
  settings,  \* operations_settings
  worker,    \* the maintenance transaction of each process
  lock,      \* the process whose transaction holds the maintenance lock
  purged,    \* ticks whose buckets retention has deleted (history)
  now

tables == <<row, attempt, permit, bucket>>
vars == <<row, attempt, permit, bucket, settings, worker, lock, purged, now>>

-----------------------------------------------------------------------------

Time == 0 .. Horizon
Measured == Latency \cup {Unknown}

NoRow == [state |-> "none", started |-> 0, finished |-> 0, latency |-> Unknown,
          rolled |-> FALSE]
Row == [state: {"none", "open", "closed", "deleted"}, started: Time, finished: Time,
        latency: Measured, rolled: BOOLEAN]
Bucket == [count: Nat, samples: Nat, within: [Boundary -> Nat]]
EmptyBucket == [count |-> 0, samples |-> 0, within |-> [b \in Boundary |-> 0]]
Settings == [request: RequestDays, metric: MetricDays]
Worker == [pc: {"idle", "rolling", "retaining"}, batch: SUBSET Request, settings: Settings,
           at: Time]
Idle == [pc |-> "idle", batch |-> {}, settings |-> Settings0, at |-> 0]

TypeOK ==
  /\ row \in [Request -> Row]
  /\ attempt \in [Request -> {"none", "open", "closed", "deleted"}]
  /\ permit \in [Request -> {"none", "held", "released", "deleted"}]
  /\ bucket \in [Time -> Bucket]
  /\ settings \in Settings
  /\ worker \in [Process -> Worker]
  /\ lock \in Process \cup {NoProcess}
  /\ purged \subseteq Time
  /\ now \in Time

Init ==
  /\ row = [r \in Request |-> NoRow]
  /\ attempt = [r \in Request |-> "none"]
  /\ permit = [r \in Request |-> "none"]
  /\ bucket = [t \in Time |-> EmptyBucket]
  /\ settings = Settings0
  /\ worker = [p \in Process |-> Idle]
  /\ lock = NoProcess
  /\ purged = {}
  /\ now = 0

-----------------------------------------------------------------------------
(* Requests, whose life RequestLedger tells: here the row, its attempts and *)
(* its permit end together.                                                 *)

StartRequest(r) ==
  /\ row[r].state = "none"
  /\ row' = [row EXCEPT ![r] = [NoRow EXCEPT !.state = "open", !.started = now]]
  /\ attempt' = [attempt EXCEPT ![r] = "open"]
  /\ permit' = [permit EXCEPT ![r] = "held"]
  /\ UNCHANGED <<bucket, settings, worker, lock, purged, now>>

CloseRequest(r) ==
  /\ row[r].state = "open"
  /\ \E latency \in Measured :
       row' = [row EXCEPT ![r] = [@ EXCEPT !.state = "closed", !.finished = now,
                                           !.latency = latency]]
  /\ attempt' = [attempt EXCEPT ![r] = "closed"]
  /\ permit' = [permit EXCEPT ![r] = "released"]
  /\ UNCHANGED <<bucket, settings, worker, lock, purged, now>>

-----------------------------------------------------------------------------
(* rollup_request_metrics *)

Uncounted == {r \in Request : row[r].state = "closed" /\ ~row[r].rolled}

(* ORDER BY finished_at LIMIT $1 FOR UPDATE SKIP LOCKED: no transaction     *)
(* locks closed rows but those that hold the maintenance lock.              *)
Batches(S) ==
  {B \in SUBSET S :
     /\ Cardinality(B) <= BatchSize
     /\ B = S \/ Cardinality(B) = BatchSize
     /\ \A r \in B, q \in S \ B : row[r].finished <= row[q].finished}

(* pg_try_advisory_xact_lock: who does not get it leaves at once. *)
TryLock(p) == lock = NoProcess /\ lock' = p
UnlockForgotten == UNCHANGED lock
Unlock == lock' = NoProcess

RollupBegins(p) ==
  /\ worker[p].pc = "idle"
  /\ TryLock(p)
  /\ \E B \in Batches(Uncounted) :
       worker' = [worker EXCEPT ![p] = [Idle EXCEPT !.pc = "rolling", !.batch = B]]
  /\ UNCHANGED <<tables, settings, purged, now>>

Within(B, b) == {r \in B : row[r].latency # Unknown /\ row[r].latency <= b}
Sampled(B) == {r \in B : row[r].latency # Unknown}

AddedToNothing(old, B) ==
  IF B = {} THEN old
  ELSE [count |-> Cardinality(B), samples |-> Cardinality(Sampled(B)),
        within |-> [b \in Boundary |-> Cardinality(Within(B, b))]]

(* INSERT ... ON CONFLICT DO UPDATE SET each column to its sum *)
Added(old, B) ==
  [count |-> old.count + Cardinality(B),
   samples |-> old.samples + Cardinality(Sampled(B)),
   within |-> [b \in Boundary |-> old.within[b] + Cardinality(Within(B, b))]]

(* SET rolled_up_at in the transaction that counts *)
Marked(B) == [r \in Request |-> IF r \in B THEN [row[r] EXCEPT !.rolled = TRUE] ELSE row[r]]

RollupCommits(p) ==
  /\ worker[p].pc = "rolling"
  /\ LET B == worker[p].batch IN
     /\ bucket' = [t \in Time |-> Added(bucket[t], {r \in B : row[r].finished = t})]
     /\ row' = Marked(B)
  /\ worker' = [worker EXCEPT ![p] = Idle]
  /\ Unlock
  /\ UNCHANGED <<attempt, permit, settings, purged, now>>

-----------------------------------------------------------------------------
(* apply_operations_retention: now() and the settings are read first, the   *)
(* rows are what the tables hold when each statement runs.                  *)

RetentionBegins(p) ==
  /\ worker[p].pc = "idle"
  /\ TryLock(p)
  /\ worker' = [worker EXCEPT ![p] = [Idle EXCEPT !.pc = "retaining", !.settings = settings,
                                                  !.at = now]]
  /\ UNCHANGED <<tables, settings, purged, now>>

Older(time, at, days) == time + days < at

Expired(r, at, keep) ==
  /\ row[r].state = "closed"
  /\ \/ row[r].rolled /\ Older(row[r].started, at, keep.request)
     \/ ~row[r].rolled /\ Older(row[r].started, at, keep.metric)

(* One failing statement rolls all of them back. *)
RetentionCommits(p) ==
  /\ worker[p].pc = "retaining"
  /\ LET at == worker[p].at
         keep == worker[p].settings
         old(r) == Older(row[r].started, at, keep.request)
         forgotten == {t \in Time : Older(t, at, keep.metric)}
     IN  /\ row' = [r \in Request |->
                      IF Expired(r, at, keep) THEN [row[r] EXCEPT !.state = "deleted"] ELSE row[r]]
         /\ permit' = [r \in Request |->
                         IF permit[r] = "released" /\ old(r) THEN "deleted" ELSE permit[r]]
         /\ attempt' = [r \in Request |->
                          IF attempt[r] = "closed" /\ old(r) THEN "deleted" ELSE attempt[r]]
         /\ bucket' = [t \in Time |-> IF t \in forgotten THEN EmptyBucket ELSE bucket[t]]
         /\ purged' = purged \cup forgotten
  /\ worker' = [worker EXCEPT ![p] = Idle]
  /\ Unlock
  /\ UNCHANGED <<settings, now>>

(* The transaction fails or its process dies: the lock goes with it. *)
MaintenanceFails(p) ==
  /\ worker[p].pc # "idle"
  /\ worker' = [worker EXCEPT ![p] = Idle]
  /\ Unlock
  /\ UNCHANGED <<tables, settings, purged, now>>

(* update_settings: COALESCE keeps what the patch omits. *)
UpdateSettings ==
  /\ \/ \E days \in RequestDays : settings' = [settings EXCEPT !.request = days]
     \/ \E days \in MetricDays : settings' = [settings EXCEPT !.metric = days]
  /\ UNCHANGED <<tables, worker, lock, purged, now>>

Tick ==
  /\ now < Horizon
  /\ now' = now + 1
  /\ UNCHANGED <<tables, settings, worker, lock, purged>>

Next ==
  \/ \E r \in Request : StartRequest(r) \/ CloseRequest(r)
  \/ \E p \in Process : \/ RollupBegins(p) \/ RollupCommits(p) \/ MaintenanceFails(p)
                        \/ RetentionBegins(p) \/ RetentionCommits(p)
  \/ UpdateSettings \/ Tick

Spec == Init /\ [][Next]_vars

(* The rollup worker ticks every five seconds, retention once an hour: a    *)
(* rollup that is possible again and again is tried, and one that is tried  *)
(* again and again does not fail for ever.                                  *)
FairSpec ==
  /\ Spec
  /\ \A p \in Process : SF_vars(RollupBegins(p)) /\ SF_vars(RollupCommits(p))
                        /\ WF_vars(RetentionCommits(p))

-----------------------------------------------------------------------------
(* metric_summary, metric_from_row, percentile_bucket *)

InWindow == {t \in Time : t <= now /\ t + Window >= now}

Plus(a, b) == a + b
Total(S, f) == FoldFunctionOnSet(Plus, 0, f, S)

SampleCount == Total(InWindow, [t \in Time |-> bucket[t].samples])
RequestCount == Total(InWindow, [t \in Time |-> bucket[t].count])
CountWithin(b) == Total(InWindow, [t \in Time |-> bucket[t].within[b]])

Suppressed == [shown |-> FALSE, p95 |-> Unknown]

TargetRoundedDown(samples) == (samples * Percentile) \div 100
Target(samples) == (samples * Percentile + 99) \div 100

(* The first boundary that enough samples lie within; beyond the last one   *)
(* the code answers the last boundary plus one.                             *)
PercentileBucket ==
  LET enough == {b \in Boundary : CountWithin(b) >= Target(SampleCount)}
      least(S) == CHOOSE b \in S : \A c \in S : b <= c
      last == CHOOSE b \in Boundary : \A c \in Boundary : c <= b
  IN  IF SampleCount = 0 THEN Unknown
      ELSE IF enough = {} THEN last + 1 ELSE least(enough)

PublicMetric ==
  IF RequestCount < MinSamples THEN Suppressed
  ELSE [shown |-> TRUE, p95 |-> PercentileBucket]

-----------------------------------------------------------------------------
(* Properties *)

(* docs/RUNBOOK.md: a request is counted in its bucket once, and counting   *)
(* again adds nothing, with several gateways, failing transactions and      *)
(* batches smaller than the backlog; a bucket that retention deleted only   *)
(* holds the requests counted since.                                        *)
RolledInto(t) == {r \in Request : row[r].rolled /\ row[r].finished = t}
BucketsCountEachRequestOnce ==
  \A t \in Time :
    /\ bucket[t].count <= Cardinality(RolledInto(t))
    /\ t \notin purged => bucket[t].count = Cardinality(RolledInto(t))

(* The rows a rollup is counting are neither counted nor deleted by another *)
(* worker before it commits: rollup and retention share the maintenance     *)
(* lock.                                                                    *)
BatchIsUntouched ==
  \A p \in Process : worker[p].pc = "rolling" => worker[p].batch \subseteq Uncounted

(* What the public page says of a window is true of the requests counted in *)
(* it: nothing is said of fewer than MinSamples requests, and the           *)
(* percentile is the least boundary that enough of them lie within.         *)
Counted == {r \in Request : row[r].rolled /\ row[r].finished \in InWindow}
EnoughWithin(b) ==
  Cardinality(Within(Counted, b)) * 100 >= Cardinality(Sampled(Counted)) * Percentile
PublicMetricIsHonest ==
  InWindow \cap purged = {} =>
    /\ PublicMetric.shown <=> Cardinality(Counted) >= MinSamples
    /\ PublicMetric.shown /\ Sampled(Counted) # {} =>
         \A b \in Boundary : b >= PublicMetric.p95 <=> EnoughWithin(b)

(* Every closed request is counted or has reached the end of its retention: *)
(* a failing rollup, a full batch and the retention worker only delay it.   *)
EveryClosedRequestIsCounted ==
  \A r \in Request :
    row[r].state = "closed" ~> row[r].rolled \/ row[r].state = "deleted"

=============================================================================
