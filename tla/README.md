# Verification of nvidia-build-lb

TLA+ models of the gateway in `src/` (a load balancer in front of NVIDIA Build
with two upstream keys and a PostgreSQL ledger), the TLC configurations that
check them, and theorems about them that TLAPS checks. Every definition is
translated from the code; `PROJECT.json` maps it to its lines.

## 1. Inventory

| Component | State | Operations | What is hard | What makes it correct |
|---|---|---|---|---|
| Request ledger (`evidence.rs`, `main.rs`, `proxy.rs`, `streaming.rs`) | `proxy_requests`, `request_attempts`, `downstream_request_permits`; the handler's `RequestEvidence` and `StreamAttemptGuard` | admit, select and start, answer, fail over, finish, drop, release | every write may fail or lose its answer; Drop spawns detached tasks that write after the handler is gone | a row and its attempts close together and once; permits are held exactly while a provider call may run; everything started ends |
| Owner lease (`main.rs`) | `gateway_instances`, session advisory lock | open, heartbeat, cleanup, exit | crash and restart, a lease that lapses in a live process, a broken lock session | only requests of dead owners are abandoned; none of them is forgotten |
| Key vault (`core/src/lib.rs`, `main.rs`) | vault in memory, encrypted file, `upstream_keys`, `sync_lock` | add, enable, disable, retire, probe; record success, failure, quarantine | memory changes before the table; rollback; late answers of requests in flight; restart from table or file | memory and table agree; an enabled key is verified; what was switched off stays off |
| Provider receipts | `profile_probe_receipts` | profile probe, live success, invalidation | written from three transactions in any order | an invalid receipt waits for a verified key |
| Routing (`evidence.rs`, `main.rs`, `core/src/lib.rs`, `qa.rs`) | `routing_state` per profile, or the `Router` and the cursor in the vault file; the active routing policy | select and start, fail over, QA reset, policy change, simulation | two processes select at once; a QA reset or a crash between read and commit; the same choice is written three times | first attempts alternate, the generation counts them, the selectors agree, a QA verdict is about its own traffic |
| Downstream credentials (`main.rs`, `evidence.rs`, `admin.rs`, `core/src/lib.rs`) | vault and `downstream_credentials`, `downstream_request_permits` | create, patch, rotate, revoke, authorize, admit, record use | memory before table, lost answers, a patch that read before another mutation, admissions that count at the same time | a revoked or rotated token is never accepted again; permits stay within the policy |
| QA runs (`qa.rs`) | `qa_runs`, mode marker, fixtures | create, run suites, complete Hermes, time out, close on restart | one run at a time; a timeout races the completion | one active run; a terminal run never changes; the fixture mode ends with its run |
| Metrics (`evidence.rs`, `admin.rs`, `public.rs`, `rollup_request_metrics.sql`) | minute buckets, `rolled_up_at`, settings | rollup, retention, public summary | several workers beside requests that finish late; batches that are full; transactions that fail | every closed request is counted once; a published percentile is true |
| Hermes cutover tool (`nblb-hermes-cutover.rs`) | journal, snapshots, `.env`, `config.yaml`, client token | preflight, apply, verify, retire backup, recover | crash between any two file or API steps | a rerun ends on exactly one side of the commit |
| Stream relay (`streaming.rs`, `proxy.rs`, `evidence.rs`) | the validator, the queued frames, `StreamAttemptGuard` of one stream | prime, relay, finish, recover, drop | bytes cut anywhere, data over several lines, the client leaves at any await, the last write fails or its answer is lost | client, validator and request row agree on what happened |
| Payload validation | none | parse bodies | sequential, pure | malformed input is never forwarded |
| Admin operations, public API, health, consoles, binaries | projections, single statements | CRUD, reads | little of their own | — |

How they interact: a downstream request is admitted (credential, permit), picks a
key under the cursor row of its profile and starts its row and first attempt in
the same transaction. It reads the credential from the vault in memory, calls
the provider, reports the key's health through `mutate` (memory, file, table),
and closes attempt and row in one terminal transaction that also renews the
profile receipt. `Drop` of the evidence or of the stream guard spawns a task that
closes what the handler left. A watchdog in each process renews the lease and
closes what dead owners left. Two workers of each process roll closed rows up into the
buckets that the public page reads, and delete what is past its retention. Operators
change keys through the same `mutate`, and clients through `mutate_with_audit`, which
holds the same `sync_lock`. A QA run is a client of the gateway that also moves the
cursor; the Hermes helper is a process of its own that creates and revokes clients over
the admin API.

## 2. Modules

| Module | Models |
|---|---|
| `LedgerContract` | abstract specification of the request ledger |
| `RequestLedger` | request ledger, permits, owner lease; implements `LedgerContract` |
| `RequestLedger_proofs` | its theorems |
| `KeyVault` | upstream keys, vault synchronization, provider receipts |
| `KeyVault_proofs` | its theorems |
| `QaContract` | abstract specification of QA runs |
| `QaRuns` | QA runs, their tasks, timeouts and recovery; implements `QaContract` |
| `QaRuns_proofs` | its theorems |
| `CutoverContract` | abstract specification of Hermes cutovers |
| `HermesCutover` | the cutover helper and its recovery; implements `CutoverContract` |
| `HermesCutover_proofs` | its theorems |
| `DownstreamClients` | downstream credentials, authorization, admission, permits |
| `DownstreamClients_proofs` | its theorems |
| `OperationsMetrics` | rollup, retention, public summary |
| `OperationsMetrics_proofs` | its theorems |
| `Routing` | the choice of the key, with and without a database; the QA distribution case |
| `Routing_proofs` | its theorems |
| `StreamRelay` | one streamed response: validator, relay, terminal write |
| `StreamRelay_proofs` | its theorems |
| `MC` and the name of a module | its instances for TLC |

The modules share no variables: where two components meet, each models the other by
what it may do to it. `KeyVault` says when a key is usable and `Routing` lets usability
change at any time; `Routing` chooses the key and `RequestLedger` allows any choice;
`DownstreamClients` counts permits that `RequestLedger` only holds and releases;
`StreamRelay` decides from bytes what `RequestLedger` takes for an answer of the
provider; `RequestLedger` closes the rows that `OperationsMetrics` counts; `QaRuns`
treats as one verdict what `Routing` evaluates for the distribution case.

Each module that holds a component declares its parameters and faults as
CONSTANTS with one named assumption, and one action per statement, handler or
answer. A definition that no action uses and that stands right before a
definition it resembles (`StartQueuedRunOfAnySuite` before `StartQueuedRun`) is a
plausible bug: `PROJECT.json` says which property fails when the second is replaced
by the first.

### RequestLedger, LedgerContract

State: `row`, `attempts`, `permit` and `lease` are the four tables; `lock` the
session advisory lock; `proc` and `watchdog` the gateway processes; `handler` the
one task that acts for a request — the HTTP handler, then the Drop task or the
permit retry task, with the in-memory fields that decide what they write
(`permit` the guard, `class` the armed failure class, `guard` the
`StreamAttemptGuard`, `ttfb`). `lapsed` is a history variable.

Each action is one database operation with what the code does before and after
it, or one answer of the provider. A statement commits and answers, fails
(`error`), or commits without an answer (`lost`). `session` breaks the connection
that holds the advisory lock, `lapse` lets the 30 s lease of a live process run
out. `HandlerDropped` may come at every await of a handler. `CleanupStaleAttempts`,
`CleanupStalePermits` and `CleanupStaleRequests` are separate actions because the
watchdog runs three autocommit statements; `OpenVault` does the same in one
transaction, and deletes the stale owner rows (`ON DELETE SET NULL`).

`LedgerContract` is what the rest of the system may rely on, without owners, leases,
permits or handlers: of each request its verdict, the keys it called, how its latest call
stands and whether the provider has answered. It is decided once and succeeds only in the
step in which its call does; it calls one key at a time, none twice, and no other once it
was answered. Every request may move in a step, since one cleanup closes many. The mapping
takes verdict, keys and frames from the two tables and the latest call from the last
attempt: permits and leases come and go as stutters.

Left out: which key is eligible (any key may be chosen), durations, byte counts,
error texts; the row outcome `rejected` is merged into `failed`; the multimodal
handler is the buffered path of the same actions, its NVCF polling writes no
table.

### KeyVault

State: `memory` is the vault of the process (and its file while the process is
down), `previous` and `pending` the mutation that holds `sync_lock`, `db`, `slot`
and `receipt` the tables, `task` what each request or probe in flight waits for.
A mutation is two steps, as in `mutate`: `Begin` changes memory, then one of
`Acknowledged` (`sync_database_delta` committed), `Failed` (the error path with
its rollback) and `Cancelled` (the future is dropped while it awaits) ends it. The
delta is computed field by field with the guards of the SQL statements. Between
the two steps requests select keys from the table, finish, and probes start.
`Open` prefers the tables and migrates the file only into empty ones.

Left out: encryption, labels, fingerprints; request and failure counters except
that counting a missing row fails; the freshness window of receipts; all profiles
but one; the key added twice (an id is added once).

### QaRuns, QaContract

State: `status`, `cases` and `baseline` are `qa_runs.status`, `qa_cases.status` and
the owner in the snapshot of an armed persistence run; `runner` the task that
`qa::spawn` starts, `timer` the sleeping timeout task, `proc`, `target`, `scope` and
`lock` the gateway processes and their session advisory lock, `receipt` the cutovers
the Hermes helper has committed. `creator`, `displaced` and `missed` are history
variables. An incarnation that has exited is `dead` until another starts after it and
`replaced` from then on, so that fairness knows whether a restart is owed.

| Actions | Code |
|---|---|
| `Create` | `create_run` and the spawn of the task; with the fault `unspawned` the row commits and no task is started |
| `StartQueuedRun`, `ExerciseTraffic`, `StartCase`, `FinishCase`, `FinishRun` | `execute` for the suites that send traffic: one action per statement |
| `ArmHermes`, `PreparePersistence` | the two suites whose verdict comes from outside; each arms its timeout |
| `FailCases`, `FailRun` | what `spawn` does with an error of `execute`, in two statements whose errors it ignores (`cleanup`) |
| `TimeOut` | `schedule_hermes_timeout`, `schedule_persistence_timeout` |
| `HelperCommits`, `HermesFailed`, `HermesPassed` | the helper and `complete_hermes`, which also reconciles a failed run whose cutover is committed |
| `CloseInterruptedCases`, `CloseInterruptedRuns` | the two statements of `close_interrupted_runs`: under READ COMMITTED each sees its own snapshot, and a run created between them is `missed` |
| `ListPersistenceRuns`, `ResumePersistence`, `CloseAfterResume` | the rest of `recover_interrupted_runs` |
| `OpenVault`, `Crash`, `LoseSession` | processes; a broken lock session lets a second one start beside the first. Since `Owner` is finite, a process exits only while an incarnation is left to start or another process holds the lock (`Exit`): a displaced one may die beside its successor at any time |

`QaContract` is what the rest of the system relies on: one open run, final verdicts,
and only a failed Hermes run may still pass. `QaRuns` implements it under the mapping
`Verdicts`.

Left out: what a case evaluates and the evidence it stores (a verdict per case), the
traffic a suite sends, its ephemeral client and cursor; the suites that send traffic
differ in their cases only and are one kind of run.

### HermesCutover, CutoverContract

State: `env`, `config` and `loaded` are `.env`, `config.yaml` and what the running
container has read of them; `backup`, `saved`, `journal`, `receipt` and `retired` the
records of each generation on disk; `client`, `qa` and `proof` the gateway's side;
`helper` and `lock` the helper processes and `cutover.lock`. `late` holds client
creations that are still on their way, `stray` is their history. A helper process has
a generation of its own, so one set names helpers, generations and clients.

| Actions | Code |
|---|---|
| `Validate`, `DecideIntent` | what `run` reads before the lock: the run, then the local generations |
| `AcquireLock`, `RecoverNext`, `Decide`, `Preflight` | `recover_incomplete_cutovers`, one generation after the other, then the run read again |
| `Snapshot` to `Commit` | `apply`: `Script` is the order of its steps, each of which writes one thing and is done, failed, or done and reported as failed |
| `StopForRollback` to `Restart` | `rollback_after_failure`, of the own cutover or of an interrupted one |
| `MarkRolledBack`, `RevokeCandidate`, `Close`, `ReportFailed` | the cleanup after it; errors are collected by `apply` and end a recovery |
| `RevokePrevious`, `Complete`, `RecordReconciled`, `RecordPending` | `reconcile_remote_state` and its journal |
| `LockForRetirement`, `RecordRetirement`, `RemoveBackup` | `retire-backup` |
| `CreateRun`, `GatewayFailsRun`, `LateClient`, `Crash` | the gateway, the network, the end of a process |

`CutoverContract` says that generations are tried one at a time, that each is committed
or undone once and for all, and that the token of Hermes changes only with a commit,
to that of the committed generation. The refinement maps the token to what `.env`
holds while no generation is open, and to what the snapshot of the open one holds
otherwise: the rehearsal, which writes both files three times, is a stutter.

Left out: what verification asks Hermes, the secret scan, file modes and owners,
staging directories, temporary files (removing another helper's is a failed write),
labels that conflict (a generation has one label and creates one client), helper
versions. A crash is that of the process: the loss of unsynced renames with the
machine is not modelled.

### DownstreamClients

State: `memory`, `previous` and `pending` as in `KeyVault`, `db` and `policy` the two
halves of `downstream_credentials`, `issued` the generations of tokens drawn for a
client (a token is its client and a generation), `patching` what each PATCH handler
has read, `request`, `permit` and `admitting` the requests, their permits and the row
lock of an admission. `handed`, `gone` and `dropped` are history: the generation last
answered to the administrator, the clients whose revocation was answered, the clients
whose mutation was abandoned by its caller.

| Actions | Code |
|---|---|
| `CreateClient`, `RotateClient`, `RevokeClient`, `ReadForUpdate`, `UpdateClient` | the handlers of `admin.rs`; the PATCH reads its row in a statement of its own |
| `Acknowledged`, `Failed`, `Cancelled` | the three ends of `mutate_with_audit`: committed, rolled back in memory (the table may have committed), the caller is gone |
| `Authorize` | `authorize_downstream`: memory and row under `sync_lock` |
| `BeginAdmission`, `LockAndCount`, `InsertPermit`, `AdmissionFails` | `acquire_downstream_permit`, whose `now()` is fixed before it waits for the advisory lock |
| `RecordUse`, `RequestEnds`, `ReleasePermit`, `ReleaseOrphan` | the use that is recorded before the provider is called, the end, the permit |
| `Crash`, `Open`, `Tick` | process and clock |

Left out: labels change nothing but the uniqueness of active ones and are fixed per
client; counters and `last_used_at`; audit rows, which are in the mutation's
transaction.

### OperationsMetrics

State: `row`, `attempt` and `permit` of each request as far as rollup and retention
look at them, `bucket` per tick, `settings`, the maintenance transaction of each process
(`worker`) and the advisory lock both jobs try (`lock`). `RollupBegins` reads its batch
and `RollupCommits` adds it to the buckets and marks it, in one transaction;
`RetentionBegins` fixes `now()` and the settings, `RetentionCommits` deletes what the
tables hold by then; `MaintenanceFails` is a failed transaction or a dead process.
`PublicMetric` is `metric_summary` with `percentile_bucket`. Suppression counts requests,
as the code does: a percentile may rest on fewer samples that have a latency, and
`DESIGN.md` (privacy suppression) can be read either way.

Left out: all but one endpoint, profile and outcome class; `ttfb_ms`, which is summed
like `duration_ms`; retention of audit events, incidents and QA evidence.

### Routing

State: `store` tells whether there is a database; `cursor` is the row of
`routing_state` or the cursor in the vault file, `router` the `Router` in memory,
`holder` whoever holds the row or `selection_lock`, `request` the attempts of each
request, `retryable` the active policy, `qa` the distribution case. `last` is the
history of the latest pick.

| Actions | Code |
|---|---|
| `SelectReads`, `SelectCommits`, `SelectFails` | `select_and_start_request`, one transaction whose candidates are read under the lock of the cursor |
| `FileSelects`, `FileCommits`, `FileFails`, `FileDropped` | the path without a database: `Router::select`, `set_cursor` and its undo |
| `Answered`, `Refused`, `FailoverStarts` | the attempt loop with the statuses of the policy |
| `UpdateRoutingPolicy`, `KeysChange`, `Crash` | the rest of the system |
| `QaPrepares`, `QaSent`, `QaTrafficFails`, `QaJudges` | the distribution case |

Left out: profiles but one (each has a cursor of its own), slots but two (the schema
allows no other), the fields of a policy that no code reads for a decision.

### StreamRelay

State: `script` is what the provider would send, `wire` what is left of it, `parser`
the `SseValidator`, `queue` the frames to pass on, `stage` the position of the handler
or of the stream it has become, `guard` the `StreamAttemptGuard`, `row` the request
row, `out` what the client was given. `PrimeChunk`, `PrimeEnds`, `HandOver` and
`HandOverFails` are the part that may still fail over; `PassOn`, `RelayChunk`,
`ProviderFails`, `ProviderEnds`, `IdleTimeout`, `SeesDone` and `Accounts` the polls of
`chat_response_stream`; `CloseCommits`, `CloseFails`, `Recovers` and `Drop` the terminal
write, its recovery and the guard. The validator is checked against a reference that
reads the script frame by frame and knows nothing of chunks.

`validate_frame` joins the data lines of a frame with line breaks and takes the result for
`[DONE]`, after a trim, or for JSON, both of which read over blank lines and breaks. A line
of data is therefore a chunk of a message (`a`, `b`), a part of one that is written over
two lines (`head`, `tail`), `done`, `bad` or `blank`, and `Says` is what a frame says
however it is laid out. What it emits is `data: {data}` with the joined value as it is, so
that only the first line keeps its prefix: `Legible` is what a reader of server-sent events
finds in it.

`bytes_out` is known by what it adds up, the frames given and the final one (`[DONE]`, or
the error frame of a class): the two totals of `finish_stream_success`, for the write
(`SuccessBytes`) and for its recovery (`RecoveryBytes`), differ in the latter, and a lost
answer leaves the first in the row while the client gets the second.

Left out: bytes within a line, the JSON checks of a chunk (it is `bad` or it is not) and
JSON over more than two lines, the limits on buffer and frame, the number of bytes of a
frame.

## 3. Runs

| Run | Instance | Checks |
|---|---|---|
| `ledger` | 1 request with fixture, streamed or buffered, 2 owners, 3 keys, at most 2 attempts, all faults | `ClosedRowHasNoOpenAttempt`, `FailoverCountExact`, `RowSucceedsWithItsAttempt`, `CancelledIffHandedOff`, `LiveOwnerIsNeverAbandoned`, `InFlightHoldsPermit`, `VerdictsAreFinal`, `ImplementsContract` |
| `ledger_live` | 1 streamed request, 2 owners, crashes and lapsed leases, `FairSpec` | `PermitsAreReleased`, `StartedRequestsClose`, `OpenAttemptsClose` |
| `ledger_permit` | lost answers | finding: `HeldPermitHasAReleaser` |
| `vault` | 4 keys, 2 slots, all faults, no task | `ActiveKeysHaveTheirSlots` |
| `vault_races` | 2 keys, 1 slot, 2 tasks, failed synchronizations and crashes | `MemoryMatchesDatabase`, `EnabledKeysAreVerified`, `OffStaysOff`, `AddKeepsEnabledKeys`, `FailuresNeverShortenCooldowns` |
| `qa` | a traffic, a persistence and a Hermes run, 2 cases, 2 processes; lost answers, crashes, lock sessions, failed closing statements, unspawned runs | `PassedRunsPassedEveryCase`, `PersistencePassesOnRestart`, `ImplementsContract` |
| `qa_live` | the same runs with 1 case, failed statements, crashes (of a displaced process beside its successor too), lock sessions, `FairSpec` | `ClosedRunsHaveNoOpenCase`, `EveryRunEnds` |
| `cutover` | 3 helpers, 2 QA runs; crashes, failed and unsynced writes, failed commands, lost and late answers | `HermesRunsWhatIsWritten`, `TokenStaysActive`, `UndoneClientsAreRevoked`, `PassedRunsAreCommitted`, `BackupsOutliveTheirUse`, `ImplementsContract` |
| `clients` | 1 client, 2 requests, 1 PATCH in flight, policies with each limit, 2 minutes, all faults | `GoneStaysGone`, `DeadTokensAreRefused`, `AdmissionsRespectThePolicy` |
| `metrics` | 2 processes, 2 requests, batches of 1, 2 retention settings, 3 ticks, failing transactions, `FairSpec` | `BucketsCountEachRequestOnce`, `PublicMetricIsHonest`, `EveryClosedRequestIsCounted` |
| `routing` | 2 client requests (one may not fail over) and a distribution case of 2, with and without a database, lost answers, failed writes, crashes | `GenerationCountsFirstAttempts`, `QaPassMeansExclusive`, `PicksAlternate` |
| `stream` | every response of at most 4 frames of 7 kinds (one writes its chunk over two lines, one has a blank data line) and 3 tails, every way to cut it, timeouts, provider errors, failed writes, lost answers, clients that leave | `ClientSeesWhatWasSent`, `StreamsFailForCause`, `LedgerMatchesTheClient` |

A finding is a disagreement between the code and what a comment or a document of
the repository says of it; its run checks the statement alone and TLC shows the
shortest behaviour that refutes it. The type invariants are not repeated in the runs:
`TypeOK` is proved for every module, and adding it to the `INVARIANTS` of a configuration
checks it in any of them.
Nor are `FirstFrameEndsFailover` and `OneAttemptPerKey`: `ImplementsContract` of `ledger`
says both of every step, and section 6 lists their theorems.

### Divergences met while modelling

Besides `ledger_permit`, seven statements of the repository do not hold of the code.
Each has a configuration that is not one of the runs above and with which TLC prints
the counterexample (`tlc -config X.cfg MCModule`):

| Configuration | What is stated | What happens |
|---|---|---|
| `KeyVaultReceipt.cfg` | `main.rs` on `sync_database_delta`: receipts are invalid once a key loses verification or is retired (`InvalidReceiptsAwaitVerification`) | a success that was in flight when the key was quarantined or retired renews the receipt |
| `KeyVaultCancel.cfg` | an acknowledged disable, retirement or quarantine lasts (`OffStaysOff`) | a cancelled disable leaves the key off in memory and on in the table; the next disable finds nothing to change in memory, writes nothing and is acknowledged, and requests go on selecting the key from the table |
| `RequestLedgerFixture.cfg` | `docs/ARCHITECTURE.md`: the final attempt and its request become terminal in one transaction (`RowsCloseWithTheirAttempts`) | a QA fixture that needs a stream and meets a buffered request closes the row with `RequestEvidence::fail` alone (`proxy.rs`), and its attempt stays open until a restart |
| `HermesCutoverSync.cfg` | `docs/RUNBOOK.md`: a committed generation is not rolled back (`CommittedIsNotRolledBack`) | the sync of the directory fails after the journal was renamed, and the helper rolls back |
| `StreamRelayAnswer.cfg` | `streaming.rs` on `finish_request_and_attempt`: when it takes the error path, "the typed finalizer rolled back" (`ErrorsAreNoSuccess`) | the commit of a success loses its answer: the row has succeeded and counts the bytes of `[DONE]`, the recovery finds it closed, and the client gets the longer error frame |
| `StreamRelayLines.cfg` | `streaming.rs`, `validate_frame`: a chunk it has accepted is emitted as a data frame (`FramesArriveWhole`) | a chunk that came over several data lines is accepted and passed on with a prefix on its first line only; the reader of the stream loses the others |
| `DownstreamClientsPatch.cfg` | `main.rs`: a synchronization applies only the fields its mutation changes (`OmittedScopesAreKept`) | a PATCH without scopes writes the ones it has read before another PATCH changed them |

`RequestLedgerPair.cfg` is a larger instance for the one invariant that needs two
requests in the ledger, `ConcurrencyLimit` (no error; `ConcurrencyIsLimited` proves it,
and `clients` checks the limit where it is counted). `QaRunsThree.cfg` checks the
properties of `qa_live` with a third process and without the Hermes run (no error).

## 4. Bounds, and why they are enough

- Every bound is a CONSTANT: `Owner`, `Request`, `Key`, `MaxConcurrency`,
  `MaxUpstreamKeys` (`RequestLedger`); `Key`, `Task`, `MaxUpstreamKeys`, `MaxDelay`,
  `Horizon` (`KeyVault`); the run sets, `Case` and `Owner` (`QaRuns`);
  `Helper` and `Run` (`HermesCutover`); `Client`, `Request`, `Admin`, `MaxGeneration`,
  `Horizon` (`DownstreamClients`); `Process`, `Request`, `BatchSize`, `Horizon`
  (`OperationsMetrics`); `Request`, `QaRequest` (`Routing`); `MaxFrames` (`StreamRelay`).
  `Owner` is a set
  of incarnations of a process: one restarts while another may still live, and a
  finite set also bounds the crashes. No counter grows beyond these sets.
- `ledger` has two owners, because every hazard of the lease is one process that closes
  what another one has left, and three keys against a limit of two attempts, so that a
  key could be tried twice if the code let it. One request at a time is enough for the
  properties that relate a row to its own attempts and its handler: the constraint
  `OneIsSent` lets either the streamed or the buffered one be sent. The view `UsedState`
  leaves the advisory lock out once no process is left to start, for only `OpenVault`
  reads it and no property of the run does. The permit count is the one thing requests
  share, and `RequestLedgerPair.cfg` has two of them under a limit of one.
- `vault` has four keys for two slots: adding to a full vault displaces a key, whose
  slot the next one takes. `vault_races` has two tasks in flight, the smallest
  number for which the second answer finds what the first one wrote; a longest
  cooldown of 2 under a clock of 2 ticks distinguishes a renewed, a shorter and an
  expired cooldown.
- `qa` has one run of each kind, two cases (one open while the other is closed) and two
  processes; its view `Unnamed` leaves out the histories that only `qa_live` reads. `qa_live`
  uses one case: its properties hold or fail per run. Its two processes are enough for the
  hard case, a displaced process that creates a run beside its successor and dies: without
  the exception of `EveryRunEnds` TLC prints a behaviour of 13 states that ends in it. `QaRunsThree.cfg` adds a
  process, so that the successor dies, or is displaced, as well.
- `cutover` has three helpers, since the hard case needs three: one commits, one
  fails or dies on the way to the next commit, one recovers; and two runs, one for
  each commit. Every prefix of the twenty steps of `apply` may be the last.
- `clients` has one client, because no action relates two of them but the uniqueness of
  labels; two requests reach every limit of one, and with one of them in the queue
  while the other inserts they show what happens when counting is not under the lock;
  two generations are one token and its successor; with `MinutesPerDay = 3` and a
  clock of two minutes a request of the last minute counts for the day and no longer
  for the minute. The theorems about it hold for any number of each.
- `metrics` has two processes and two requests in batches of one, so that a backlog is
  left for the next rollup, and three ticks, so that a row can outlive either setting
  before or after it is counted.
- `routing` has two requests beside the two of the distribution case: one may come
  between them and one between reset and first request.
- `stream` needs four frames for a chunk, another message, `[DONE]` and a frame after
  it. Two of its seven kinds of frames have two data lines: a chunk in two parts, and one
  whose first line is blank. The tails are the partial frames a provider may leave.
- Symmetry (`Key`, `Task`, `Owner`, `Helper`, `Run`, the requests of
  `clients`, the QA requests of `routing`) is declared only in runs without liveness
  properties; the elements of a symmetric set are interchangeable in `Init`, `Next`
  and the properties.
- `CHECK_DEADLOCK FALSE` in all runs: when every request, task or run of the
  instance is over and the last process has done its recovery, nothing happens. That
  something which should happen does not is the matter of the liveness properties.

## 5. Fairness

`RequestLedger!FairSpec`. Weak fairness of `HandlerStep` per request: each await of a
handler is bounded by a timeout of the pool, of the provider client or of the
stream, and tokio polls what is ready; `StreamEnded` is among these steps, so a
stream ends by itself or because its client goes. `HandlerDropped` and the faults are
never fair. Weak fairness of `WatchdogStep` per owner: the watchdog loops every few
seconds as long as its process lives. `LeaseExpires` is fair for a dead owner only:
its lease is never renewed and time passes. `OpenVault` is fair since the
supervisor restarts a process that exited.

`QaRuns!FairSpec`. Weak fairness of the task of a run, of a sleeping timeout, of the
recovery steps and of `Restart`: compose starts the container of a process that has exited
again (`restart: unless-stopped`), and it gets past `VaultStore::open` once the lock is
free. A start without an exit before it, crashes, the Hermes helper and its reports are not
fair: a run ends although nobody ever reports its cutover. `EveryRunEnds` excepts a run
whose creator lost its lock session and then died (`Orphaned`, told by the history
`creator`, which unlike the task and the timeout survives the crash): the successor holds
the lock and has recovered already, so the container that compose starts waits for the
lock, and nobody looks for the run.

`OperationsMetrics!FairSpec`. The rollup worker ticks every five seconds in every
process and competes for the maintenance lock: strong fairness of `RollupBegins` and
`RollupCommits` says that a rollup which is possible again and again is tried and does
not fail for ever, weak fairness of `RetentionCommits` that a retention transaction
ends. Retention need never begin, and requests need not end.

The other modules state safety only: a choice of key, a mutation or a stream ends when
its awaits do, which `RequestLedger` already says of a request.

## 6. What is proved

`TLAPS` checks these for every value of the constants that satisfies the named
assumptions (`LedgerAssumption`, `VaultAssumption`, `QaAssumption`, `CutoverAssumption`,
`RoutingAssumption`, `MetricsAssumption`, `ClientsAssumption`, `StreamAssumption`): any
number of requests, keys, owners, runs, cases, helpers, clients and processes.

**`RequestLedger_proofs`.** `IInv` is `TypeOK /\ RowsFollowHandlers`. `TypeOK` alone is
not inductive: a handler that starts its next attempt must know its key, and the
first selection must find no row (`RowsFollowHandlers`). One lemma per group of
actions shows which types it keeps.
- `TypeCorrect`: the invariant.
- `VerdictsNeverChange`: a closed row and a closed attempt keep their outcome in
  every step, whoever of handler, Drop task, watchdog and restarted process comes
  second. The argument is an effect lemma: every action changes the ledger by
  rewriting open entries in place, appending an open attempt, or not at all.
- `FailoverCountCorrect`: the failover count in a row is the number of its attempts
  less one, from the same effect lemma.

`FollowsInv` adds to `IInv` what the ledger owes to the handler. `AttemptsFollow`: the
open attempt is the last one, of the handler's owner and for the key it calls; a handler
that is about to fail over has none open and a key it has not tried. `FramesFollow`:
nothing is answered in the phases before the first frame, and the failure class armed
for the Drop task knows it. `RowFollows`: the verdict of the row agrees with both. None
of the five properties below is inductive alone: that a failover never follows an
answered attempt depends on the phase that allows it, and what the Drop task writes on
the class the handler armed before it went.
- `FollowsCorrect`, `ClosedRowsAreSettled`, `NoFailoverAfterTheFirstFrame`,
  `RowsSucceedTogether`, `CancelledMeansHandedOff`, `AttemptsAreSequential`.

`OwnersInv` adds that the open row and the held permit carry the owner of their handler,
that this process lives while the handler does, and that the lease of a live process is
missing or past only if it lapsed (`LeasesLapse`): the cleanups judge by the lease, and
without this they could not be shown to spare a live owner.
- `OwnersCorrect`, `LiveOwnersKeepTheirRequests`, `InFlightRequestsHoldPermits`.
- `LedgerKeepsItsContract`: `RequestLedger` implements `LedgerContract`, under all faults.
  Beside `FollowsInv` it needs that the last call of an open row is open, failed or
  abandoned (`OpenRowsGoOn`), which a handler between two attempts relies on; the moves of
  the contract themselves keep that, so refinement and invariant are proved together.
- `ConcurrencyIsLimited`: neither held permits nor provider calls of owners that kept
  their lease exceed `max_concurrency`, for any number of requests.

**`KeyVault_proofs`.** `VaultInv` says that outside a mutation memory, previous vault
and table are the same, and that while one is in flight the table still is the
previous vault and memory is an `Outcome` of that operation on it — what each of the
nine operations may do to one key. `TaskInv` ties the mutation of a request to the
task that waits for it. Without the outcome of the operation in flight, the delta
that the synchronization computes field by field could not be shown to bring the
table to the memory (`DeltaIsMemory`). The theorems assume that answers arrive
(`Faults \subseteq {"error", "crash"}`); `KeyVaultCancel.cfg` shows that a
cancelled handler breaks them, and a lost answer does in the same way.
- `MemoryIsTheDatabase`, `EnabledKeysStayVerified`, `AcknowledgedOffStaysOff`:
  invariants.
- `AddNeverDisplacesEnabledKeys`, `RetirementIsFinal`, `CooldownsOutliveFailures`:
  what no step does to a row of the table, as long as answers arrive.

`SlotsInv` does without the assumption. Once an answer is lost, table and memory part
and `VaultInv` is gone; what is left is that memory is one legal operation away from
`previous` (`MutationInv`) and that neither memory, nor `previous`, nor the table has
more active keys than slots. The guards of the delta and of the slot search then keep
the slots apart, whatever the table has become.
- `TypeCorrect`, `SlotsAreExclusive`: under every fault.

**`QaRuns_proofs`.** Three invariants, each for what the next one needs. `StatusInv` (one
open run) gives the refinement. `EvidenceInv` says of each run which task may work
on it, that the cases a task left behind passed unless it counted a failure, and
that a persistence run keeps its other cases pending until the restart case is
decided. `SettledInv` adds that a task which left a case behind left it closed.
- `RunsKeepTheContract`: `QaRuns` implements `QaContract`, with all faults.
- `TypeCorrect`, `PassedRunsAreBacked`, `PersistenceNeedsARestart`: with all faults.
- `ClosedRunsAreSettled`: with all faults except failing closing statements of
  `spawn`, whose errors the code ignores.

**`HermesCutover_proofs`.** `CutoverInv` has three parts beside `TypeOK`. `LockInv`: a
helper past its lock step holds `cutover.lock`, and only one does. `RecordsInv` says what
the disk and the gateway hold whoever is at work: at most one generation is pending, and
its backup is whole; a snapshot holds two files that belong together; when no generation
is open `.env` and `config.yaml` do too (`Settled`); a run has one generation. `HelperInv` says of each helper
what it may rely on at its step: `Applied` counts what the twenty steps of `apply` have
established so far, and the rollback, the reconciliation and the recovery have
counterparts. A crash keeps `RecordsInv` and loses `HelperInv`, a recovery starts from
`RecordsInv` alone: neither would be inductive without the other. All theorems assume that
a commit is durable once its journal is renamed (`CommitsAreDurable`, no `commit_sync`):
`HermesCutoverSync.cfg` shows that the code needs it. `HermesRunsBothFiles` also assumes
that the `docker stop` of a rollback works (`StopsWork`).
- `CutoverKeepsItsContract`: `HermesCutover` implements `CutoverContract`. `Snapshot`
  begins, `Commit` commits and `Close` undoes a generation; every other step, the crashes
  and the rehearsal included, leaves verdicts and token alone.
- `TypeCorrect`, `HermesRunsBothFiles`, `TokensStayActive`, `UndoneGenerationsAreRevoked`,
  `PassedRunsHaveTheirGeneration`, `RunsAreCommittedOnce`, `BackupsAreKept`,
  `CommittedGenerationsStay`: invariants.

**`Routing_proofs`.** Four invariants. `TypeInv` adds to `TypeOK` that a request has tried
something exactly when it was sent. `CountInv` is `TypeInv` and the property itself:
`SelectCommits` adds one request to those that have tried a key and no other action
does. `PickInv` says that who is choosing holds the lock, that the cursor follows the
latest pick, and in the file mode what an undo would bring back; without the last part
the undo of a selection could not be shown to leave the rotation intact. `QaInv` counts
by stage what the case has sent and what was sent beside it: the generation has moved
by the sum, so that a passing case leaves nothing for others.
- `TypeCorrect`, `GenerationIsExact`, `PicksKeepAlternating`, `PassedCasesWereAlone`.
- `SelectorsAlwaysAgree`: `select_and_start_request`, `Router::select` and
  `simulate_routing` choose the same slot from the same cursor and keys.

**`OperationsMetrics_proofs`.** `LockInv` says that the worker in a transaction is the one
that holds the maintenance lock, that a row counted was closed, and that a batch is
still uncounted (`BatchIsUntouched`); `CountInv` adds the property. A commit counts
disjoint sets, one per tick, of rows nobody else has marked.
- `TypeCorrect`, `BatchesAreExclusive`, `BucketsAreExact`.
- `PublicMetricsAreHonest`: what the page publishes of a window none of whose buckets was
  purged is true of its requests. By `BucketsAreExact` each bucket holds the cardinalities
  of one tick; their sum over the window is the cardinality of what was counted in it,
  since the ticks are disjoint, and the counts within a boundary grow with the boundary,
  so that the least one with enough of them decides for every other. That the boundaries
  are finitely many (`MetricsAssumption`: the code has an array of them) is what makes
  there be a least one.

**`DownstreamClients_proofs`.** `ShapeInv` says that the mutation in flight is all that
lies between `previous` and `memory`, that operations never revive or remove a client
nor take a token back (`Evolves`), and that every credential has a token once it exists
(`Drawn`). `Promises` says of every client that was not abandoned that its table row,
and `previous` while the process runs, are at least as new as what was acknowledged.
Both are needed: a lost answer lets table and memory part, and only the guards of the
delta with `Evolves` show that the next transaction cannot lead the table back.
- `RevokedStaysRevoked`, `DeadTokensOpenNothing`: under all faults. A client whose
  mutation was abandoned (`dropped`) is excepted: nobody was told anything.

`AdmissionInv` says that a transaction which has counted holds the lock of its client, and
that what it counted still stands (`Stands`): the row is active and unexpired, and one
more permit fits each limit. A patch waits for that row (`CommitSpares`), an insert and a
lock of another request are about another client, and the permits there are form a
finite set although the requests need not. The counts themselves are the library's facts
about subsets.
- `AdmissionsStayWithinPolicy`: every inserted permit is within the policy of the moment,
  under all faults. `TypeCorrect` follows from the same invariant.

**`StreamRelay_proofs`.** `StreamInv` says, by stage, which frames `guard` has added up of
what the client was given and whether the row may already be closed. It is about control
alone and asks nothing of the validator but that it may reject.
- `LedgerKeepsFaith`: a client that is told `[DONE]` has a row that succeeded, and a
  closed row counts the frames its client was given and the final one, byte for byte.
  A success whose answer was lost is the one exception, and the guard is armed then: the
  property does not claim that the row counts the error frame the client gets.

`FaithInv` adds what the reader has made of the bytes. `WireInv`: what is left on the wire
is an end of what was sent. `ReadInv`: what was passed on and what is queued are the
chunks of some frames the reader accepted, and the validator has either made of the
frames that have arrived what the reference makes of them, with the pieces since in its
buffer (`Reads`), or met one that no reader accepts (`Refuses`). `CauseInv`: by stage, what
may already be blamed, and that success is only ever wanted after everything was given. A
request that may still fail over has given its client nothing, which is a part of it. The
step is an induction over the pieces of a chunk: `FlattenSeq` lays the script out on the
wire (`FlattenLaysOut`), `FoldLeft` reads a chunk piece by piece (`FeedReadsOneByOne`), and
one piece extends the buffer, closes a frame, or is a blank between frames (`PieceRead`).
`StreamAssumption` says of the tails a provider may leave that they are not themselves
whole frames: two breaks in a row are the end of one.
- `ClientIsFaithfullyServed`: the client was given exactly the chunks of a prefix of what
  was sent, all of them if it was told `[DONE]`, however the bytes were cut and the data
  written over lines; and it can read each that was sent on one line. Of the others
  `FramesArriveWhole` does not hold.
- `FailuresHaveACause`: a stream is blamed on the provider only if it did wrong.
- `TypeCorrect` follows from `FaithInv`.

Induction over data. What a fold computes cannot be had from the library's induction
theorems, which take an operator as a parameter. Here it is had from a least
counterexample: of the numbers up to which a fact about a fold does not hold there is a
smallest one (`WFMin` over the order of `Nat`, `HoldsUpTo`), and the fold at that number is
a step from the one before. This works where the recursion is a function over an initial
part of `Nat`, or over finite sets by the community modules, and it is why `Feed` and
`FlattenSeq` need not be left to TLC.

Model-checked only: the liveness properties (`PermitsAreReleased`, `StartedRequestsClose`,
`OpenAttemptsClose`, `EveryRunEnds`, `EveryClosedRequestIsCounted`), since fairness and
ENABLED are out of the prover's reach. Every invariant and every action property of a
passing run is stated by a theorem.

Where a property is checked without a fault, it is because the fault breaks it and the
repository promises nothing: `HermesRunsWhatIsWritten` does not hold when the ignored
`docker stop` of a rollback fails (`stop`: the container goes on with the candidate's
token, which is then revoked), nor `EveryRunEnds` and `ClosedRunsHaveNoOpenCase` when
the closing statements of a QA task fail (`cleanup`). With `commit_sync`,
`TokenStaysActive` fails too: the rollback puts the previous token back, and the next
helper, which reads a committed journal, revokes it.

## 7. What is not modelled

- Payload validation: request bodies and the JSON of a single chunk are checked by pure
  functions; what they decide is a choice of the environment in `RequestLedger` and the
  frame `bad` in `StreamRelay`.
- The ephemeral client of a QA suite: `exercise_traffic` returns early without revoking
  it, and nothing in the repository says who does, so there is no property to state.
- Admin operations other than those on keys, clients, settings, routing policy and QA
  runs; public API but the metrics, health, request ids: single statements with
  optimistic versions and projections, with no interleaving of their own.
- Service binaries, consoles, migrations: one-shot scripts and user interfaces.
- Inside the modelled parts: durations, error texts, encryption, fingerprints, and the
  number of bytes (`StreamRelay` knows `bytes_out` by the frames it adds up, `RequestLedger`
  not at all). The database is modelled by its committed statements; isolation
  shows where a transaction has two statements whose snapshots differ
  (`close_interrupted_runs`) or where separate autocommit statements follow each
  other (the watchdog).

## 8. Plan

1. Abstract specifications and the proofs that they are implemented: a key registry with
   atomic operations, which `KeyVault` implements while answers arrive; an atomic
   `SseValidator` on whole frames for `StreamRelay`.
2. Incidents and models of the admin operations; the ephemeral client of a QA suite
   once the repository says who revokes it.
