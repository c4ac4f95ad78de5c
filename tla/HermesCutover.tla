---------------------------- MODULE HermesCutover ----------------------------
(***************************************************************************)
(* The helper that moves Hermes from its own provider key to a client of    *)
(* the gateway (bin/nblb-hermes-cutover.rs): a transaction over two files,  *)
(* a container, a client of the gateway and a QA run, recorded in a journal *)
(* beside a snapshot of the files, and finished or undone by the next       *)
(* helper when its own one dies.                                            *)
(*                                                                          *)
(* Every helper process has a generation of its own, used once it applies,  *)
(* so that a helper names its generation, its client and its snapshot.  A   *)
(* file write, container command or request succeeds or fails ("error"); a  *)
(* request may also take effect while its answer is lost ("lost") or after  *)
(* the helper has given up ("late"); the rename of a file may be in place   *)
(* while the sync of its directory fails ("sync", and "commit_sync" for the *)
(* committed journal); the docker stop of a rollback, whose error is        *)
(* ignored, may leave the container running ("stop").  A "crash" ends the   *)
(* helper, not the machine.                                                 *)
(***************************************************************************)
EXTENDS Naturals, Sequences, FiniteSets

CONSTANTS Helper, Run, Faults, Original, NoHelper, NoRun

FaultKinds == {"error", "lost", "late", "sync", "commit_sync", "stop", "crash"}

ASSUME CutoverAssumption ==
  /\ Original \notin Helper /\ NoHelper \notin Helper /\ NoRun \notin Run
  /\ Faults \subseteq FaultKinds

VARIABLES
  env,      \* whose token .env holds: that of a generation, or the original key
  config,   \* where config.yaml points: "direct" or "gateway"
  loaded,   \* the files the running container has read, or Stopped
  backup,   \* the directory of each generation
  saved,    \* the two files in it
  journal,  \* journal.json in it; the last one when the directory is gone
  receipt,  \* the run in the cutover receipt of each generation
  retired,  \* generations with a retirement receipt
  client,   \* downstream client of each generation
  late,     \* clients whose creation is still on its way to the gateway
  stray,    \* history: clients that were created late
  qa,       \* status of each Hermes QA run
  proof,    \* the generation in the audit event of a passed run
  helper,   \* the processes
  lock      \* holder of cutover.lock

files == <<env, config, loaded>>
records == <<backup, saved, journal, receipt, retired>>
gateway == <<client, late, stray, qa, proof>>
vars == <<env, config, loaded, backup, saved, journal, receipt, retired,
          client, late, stray, qa, proof, helper, lock>>

May(fault) == fault \in Faults

-----------------------------------------------------------------------------
(* The journal *)

Undoable == {"client_operation_prepared", "candidate_ready", "candidate_applied"}
Committed == {"committed", "reconcile_pending", "reconciled"}
Undone == {"rolled_back", "recovered"}
Pending == Undoable \cup {"rollback_cleanup_pending", "committed", "reconcile_pending"}

(* The steps of apply, in their order: from "stop" on, the candidate is put
   into place, taken back as a rehearsal and put into place again. *)
Script ==
  <<"snapshot", "issue", "candidate_ready",
    "stop", "env", "config", "candidate_applied", "start", "verify",
    "stop", "old_env", "old_config", "start",
    "stop", "env", "config", "start", "verify",
    "receipt", "commit">>

Current(h) == helper[h].gen
Own(h) == helper[h].gen = h
At(h, pc) == helper[h].pc = pc
Doing(h, operation) == At(h, "applying") /\ Script[helper[h].step] = operation

Stopped == [env |-> Original, config |-> "stopped"]
OnDisk == [env |-> env, config |-> config]
Whole == {g \in Helper : backup[g] = "whole"}
Damaged == {g \in Helper : backup[g] = "partial"}

NewHelper ==
  [pc |-> "idle", run |-> NoRun, intent |-> "none", gen |-> NoHelper, step |-> 1, issued |-> FALSE]

Init ==
  /\ env = Original /\ config = "direct" /\ loaded = [env |-> Original, config |-> "direct"]
  /\ backup = [h \in Helper |-> "none"]
  /\ saved = [h \in Helper |-> [env |-> Original, config |-> "direct"]]
  /\ journal = [h \in Helper |-> "none"]
  /\ receipt = [h \in Helper |-> NoRun] /\ retired = {}
  /\ client = [h \in Helper |-> "none"] /\ late = {} /\ stray = {}
  /\ qa = [r \in Run |-> "absent"] /\ proof = [r \in Run |-> NoHelper]
  /\ helper = [h \in Helper |-> NewHelper]
  /\ lock = NoHelper

-----------------------------------------------------------------------------
(* Where a helper goes next *)

Goto(h, pc) == helper' = [helper EXCEPT ![h].pc = pc] /\ UNCHANGED lock
Work(h, pc, g) == helper' = [helper EXCEPT ![h].pc = pc, ![h].gen = g] /\ UNCHANGED lock
Exit(h) ==
  /\ helper' = [helper EXCEPT ![h] = [NewHelper EXCEPT !.pc = "done"]]
  /\ lock' = IF lock = h THEN NoHelper ELSE lock

(* A failed recovery ends the helper; a failed cutover is reported. *)
GiveUp(h) == IF Own(h) THEN Goto(h, "reporting") ELSE Exit(h)

(* A step of apply that is done, or fails and is undone; a file may have been
   replaced although the write is reported as failed. *)
Onwards(h) == helper' = [helper EXCEPT ![h].step = @ + 1] /\ UNCHANGED lock
Undo(h) == helper' = [helper EXCEPT ![h].pc = "stopping", ![h].step = 1] /\ UNCHANGED lock
Attempted(h, effect, nothing, fault) ==
  \/ effect /\ Onwards(h)
  \/ May("error") /\ nothing /\ Undo(h)
  \/ May(fault) /\ effect /\ Undo(h)

Write(g, state) == journal' = [journal EXCEPT ![g] = state]

(* A write of the journal whose error is only printed *)
TryToWrite(g, state) ==
  Write(g, state) \/ (May("error") /\ UNCHANGED journal)

-----------------------------------------------------------------------------
(* Before the lock *)

(* validate_qa_run_target *)
Validate(h, r) ==
  /\ At(h, "idle") /\ qa[r] # "absent"
  /\ helper' = [helper EXCEPT ![h].pc = "validated", ![h].run = r, ![h].intent = qa[r]]
  /\ UNCHANGED <<files, records, gateway, lock>>

HasLocalGeneration(r, states) ==
  \E g \in Whole : journal[g] \in states /\ receipt[g] = r

(* has_matching_local_generation, qa_run_intent *)
DecideIntent(h) ==
  /\ At(h, "validated")
  /\ IF Damaged = {} /\ (helper[h].intent = "running" \/ HasLocalGeneration(helper[h].run, Committed))
       THEN Goto(h, "waiting")
       ELSE Exit(h)
  /\ UNCHANGED <<files, records, gateway>>

(* preflight and verify, which need no run and end with the recovery *)
JustRecover(h) ==
  /\ At(h, "idle") /\ Goto(h, "waiting")
  /\ UNCHANGED <<files, records, gateway>>

-----------------------------------------------------------------------------
(* recover_incomplete_cutovers *)

(* No recovery is tried while a backup cannot be verified. *)
AcquireLock(h) ==
  /\ At(h, "waiting") /\ lock = NoHelper
  /\ IF Damaged = {}
       THEN helper' = [helper EXCEPT ![h].pc = "recovering"] /\ lock' = h
       ELSE Exit(h)
  /\ UNCHANGED <<files, records, gateway>>

UnfinishedFiles == {g \in Whole : journal[g] \in Pending \ {"rollback_cleanup_pending"}}
Unfinished == {g \in Whole : journal[g] \in Pending}

RecoverNextWithoutRollback(h) ==
  /\ At(h, "recovering")
  /\ \E g \in Unfinished :
       Work(h, IF journal[g] \in Committed THEN "reconciling" ELSE "revoking", g)
  /\ UNCHANGED <<files, records, gateway>>
RecoverNext(h) ==
  /\ At(h, "recovering")
  /\ \E g \in Unfinished :
       Work(h, CASE journal[g] \in Committed -> "reconciling"
                 [] journal[g] \in Undoable -> "stopping"
                 [] OTHER -> "revoking", g)
  /\ UNCHANGED <<files, records, gateway>>

(* The run is read again under the lock (post_lock_qa_decision). *)
RunUnderLock(h) == qa[helper[h].run]
Proceed(h) == RunUnderLock(h) = "running" /\ helper[h].intent = "running"

Begin(h) ==
  /\ helper' = [helper EXCEPT ![h].pc = "preflight", ![h].intent = "none", ![h].gen = h]
  /\ UNCHANGED lock

Decide(h) ==
  /\ At(h, "recovering") /\ Unfinished = {}
  /\ IF helper[h].run # NoRun /\ Proceed(h) THEN Begin(h) ELSE Exit(h)
  /\ UNCHANGED <<files, records, gateway>>

Preflight(h) ==
  /\ At(h, "preflight")
  /\ Goto(h, "applying") \/ (May("error") /\ Goto(h, "reporting"))
  /\ UNCHANGED <<files, records, gateway>>

-----------------------------------------------------------------------------
(* apply *)

(* snapshot publishes the directory with one rename. *)
Snapshot(h) ==
  LET publish ==
        /\ backup' = [backup EXCEPT ![h] = "whole"]
        /\ saved' = [saved EXCEPT ![h] = OnDisk]
        /\ Write(h, "client_operation_prepared")
  IN
  /\ Doing(h, "snapshot")
  /\ \/ publish /\ Onwards(h)
     \/ May("error") /\ UNCHANGED <<backup, saved, journal>> /\ Goto(h, "reporting")
     \/ May("sync") /\ publish /\ Goto(h, "reporting")
  /\ UNCHANGED <<files, receipt, retired, gateway>>

IssueClient(h) ==
  /\ Doing(h, "issue")
  /\ \/ /\ client' = [client EXCEPT ![h] = "active"] /\ UNCHANGED late
        /\ helper' = [helper EXCEPT ![h].step = @ + 1, ![h].issued = TRUE] /\ UNCHANGED lock
     \/ May("error") /\ UNCHANGED <<client, late>> /\ Undo(h)
     \/ May("lost") /\ client' = [client EXCEPT ![h] = "active"] /\ UNCHANGED late /\ Undo(h)
     \/ May("late") /\ late' = late \cup {h} /\ UNCHANGED client /\ Undo(h)
  /\ UNCHANGED <<files, records, stray, qa, proof>>

JournalCandidate(h) ==
  /\ \E state \in {"candidate_ready", "candidate_applied"} :
       /\ Doing(h, state)
       /\ Attempted(h, Write(h, state), UNCHANGED journal, "sync")
  /\ UNCHANGED <<files, backup, saved, receipt, retired, gateway>>

StopContainer(h) ==
  /\ Doing(h, "stop")
  /\ Attempted(h, loaded' = Stopped, UNCHANGED loaded, "error")
  /\ UNCHANGED <<env, config, records, gateway>>

WriteEnv(h) ==
  /\ \/ Doing(h, "env") /\ Attempted(h, env' = h, UNCHANGED env, "sync")
     \/ Doing(h, "old_env") /\ Attempted(h, env' = saved[h].env, UNCHANGED env, "sync")
  /\ UNCHANGED <<config, loaded, records, gateway>>

WriteConfig(h) ==
  /\ \/ Doing(h, "config") /\ Attempted(h, config' = "gateway", UNCHANGED config, "sync")
     \/ Doing(h, "old_config") /\ Attempted(h, config' = saved[h].config, UNCHANGED config, "sync")
  /\ UNCHANGED <<env, loaded, records, gateway>>

(* Starting a container that runs changes nothing. *)
Started == IF loaded = Stopped THEN OnDisk ELSE loaded

(* docker start and the health check, which may fail with the container up *)
StartContainer(h) ==
  /\ Doing(h, "start")
  /\ Attempted(h, loaded' = Started, UNCHANGED loaded, "error")
  /\ UNCHANGED <<env, config, records, gateway>>

VerifyHermes(h) ==
  /\ Doing(h, "verify")
  /\ \/ IF loaded = [env |-> h, config |-> "gateway"] /\ client[h] = "active"
          THEN Onwards(h) ELSE Undo(h)
     \/ May("error") /\ Undo(h)
  /\ UNCHANGED <<files, records, gateway>>

WriteReceipt(h) ==
  /\ Doing(h, "receipt")
  /\ Attempted(h, receipt' = [receipt EXCEPT ![h] = helper[h].run], UNCHANGED receipt, "sync")
  /\ UNCHANGED <<files, backup, saved, journal, retired, gateway>>

Committing(h) ==
  helper' = [helper EXCEPT ![h].pc = "reconciling", ![h].step = 1] /\ UNCHANGED lock

CommitUnjournaled(h) ==
  /\ Doing(h, "commit") /\ Committing(h)
  /\ UNCHANGED <<files, records, gateway>>
Commit(h) ==
  /\ Doing(h, "commit")
  /\ \/ Write(h, "committed") /\ Committing(h)
     \/ May("error") /\ UNCHANGED journal /\ Undo(h)
     \/ May("commit_sync") /\ Write(h, "committed") /\ Undo(h)
  /\ UNCHANGED <<files, backup, saved, receipt, retired, gateway>>

-----------------------------------------------------------------------------
(* rollback_after_failure, of the own cutover or of an interrupted one *)

StopForRollback(h) ==
  /\ At(h, "stopping") /\ Goto(h, "restoring_env")
  /\ loaded' = Stopped \/ (May("stop") /\ UNCHANGED loaded)
  /\ UNCHANGED <<env, config, records, gateway>>

RestoreEnv(h) ==
  /\ At(h, "restoring_env")
  /\ \/ env' = saved[Current(h)].env /\ Goto(h, "restoring_config")
     \/ May("error") /\ UNCHANGED env /\ GiveUp(h)
     \/ May("sync") /\ env' = saved[Current(h)].env /\ GiveUp(h)
  /\ UNCHANGED <<config, loaded, records, gateway>>

RestoreConfig(h) ==
  /\ At(h, "restoring_config")
  /\ \/ config' = saved[Current(h)].config /\ Goto(h, "restarting")
     \/ May("error") /\ UNCHANGED config /\ GiveUp(h)
     \/ May("sync") /\ config' = saved[Current(h)].config /\ GiveUp(h)
  /\ UNCHANGED <<env, loaded, records, gateway>>

(* When the client was not issued, apply has nothing to clean up. *)
AfterRollback(h) ==
  CASE ~Own(h) -> Goto(h, "revoking")
    [] Own(h) /\ ~helper[h].issued -> Goto(h, "reporting")
    [] OTHER -> Goto(h, "marking")

Restart(h) ==
  /\ At(h, "restarting")
  /\ \/ loaded' = Started /\ AfterRollback(h)
     \/ May("error") /\ loaded' \in {loaded, Stopped} /\ GiveUp(h)
  /\ UNCHANGED <<env, config, records, gateway>>

MarkRolledBack(h) ==
  /\ At(h, "marking") /\ TryToWrite(h, "rollback_cleanup_pending") /\ Goto(h, "revoking")
  /\ UNCHANGED <<files, backup, saved, receipt, retired, gateway>>

(* The client is the one the journal names, or is found by its label. *)
RevokedNamedClient(g) ==
  IF journal[g] # "client_operation_prepared" /\ client[g] = "active"
  THEN [client EXCEPT ![g] = "revoked"] ELSE client
RevokedClient(g) ==
  IF client[g] = "active" THEN [client EXCEPT ![g] = "revoked"] ELSE client

RevokeCandidate(h) ==
  /\ At(h, "revoking")
  /\ \/ client' = RevokedClient(Current(h)) /\ Goto(h, "closing")
     \/ May("error") /\ UNCHANGED client /\ GiveUp(h)
     \/ May("lost") /\ client' = RevokedClient(Current(h)) /\ GiveUp(h)
  /\ UNCHANGED <<files, records, late, stray, qa, proof>>

Close(h) ==
  LET g == Current(h)
      state == IF Own(h) \/ journal[g] = "rollback_cleanup_pending" THEN "rolled_back"
               ELSE "recovered"
  IN
  /\ At(h, "closing")
  /\ \/ Write(g, state) /\ (IF Own(h) THEN Goto(h, "reporting") ELSE Goto(h, "recovering"))
     \/ May("error") /\ UNCHANGED journal /\ GiveUp(h)
     \/ May("sync") /\ Write(g, state) /\ GiveUp(h)
  /\ UNCHANGED <<files, backup, saved, receipt, retired, gateway>>

ReportFailed(h) ==
  LET r == helper[h].run IN
  /\ At(h, "reporting") /\ Exit(h)
  /\ \/ qa' = IF qa[r] = "running" THEN [qa EXCEPT ![r] = "failed"] ELSE qa
     \/ May("error") /\ UNCHANGED qa
  /\ UNCHANGED <<files, records, client, late, stray, proof>>

-----------------------------------------------------------------------------
(* reconcile_remote_state *)

PreviousAndOwn(g) == {c \in Helper : client[c] = "active"}
Previous(g) == {c \in Helper \ {g} : client[c] = "active"}

(* A failed reconciliation is left to the next helper. *)
Postpone(h) == IF Own(h) THEN Goto(h, "postponing") ELSE Exit(h)

RevokePrevious(h) ==
  /\ At(h, "reconciling")
  /\ \E revoked \in SUBSET Previous(Current(h)) :
       /\ client' = [c \in Helper |-> IF c \in revoked THEN "revoked" ELSE client[c]]
       /\ \/ revoked = Previous(Current(h)) /\ Goto(h, "completing")
          \/ May("error") /\ Postpone(h)
  /\ UNCHANGED <<files, records, late, stray, qa, proof>>

(* complete_hermes of the gateway: a running run, a failed one whose cutover is
   committed, or the same completion once more. *)
Completable(r, g) ==
  \/ qa[r] \in {"running", "failed"} /\ client[g] = "active"
  \/ qa[r] = "passed" /\ proof[r] = g

Complete(h) ==
  LET g == Current(h)
      r == receipt[g]
      pass == qa' = [qa EXCEPT ![r] = "passed"] /\ proof' = [proof EXCEPT ![r] = g]
  IN
  /\ At(h, "completing")
  /\ \/ IF Completable(r, g) THEN pass /\ Goto(h, "recording")
                            ELSE UNCHANGED <<qa, proof>> /\ Postpone(h)
     \/ May("error") /\ UNCHANGED <<qa, proof>> /\ Postpone(h)
     \/ May("lost") /\ Completable(r, g) /\ pass /\ Postpone(h)
  /\ UNCHANGED <<files, records, client, late, stray>>

RecordReconciled(h) ==
  /\ At(h, "recording")
  /\ \/ /\ Write(Current(h), "reconciled")
        /\ IF Own(h) THEN Exit(h) ELSE Goto(h, "recovering")
     \/ May("error") /\ UNCHANGED journal /\ Postpone(h)
     \/ May("sync") /\ Write(Current(h), "reconciled") /\ Postpone(h)
  /\ UNCHANGED <<files, backup, saved, receipt, retired, gateway>>

RecordPending(h) ==
  /\ At(h, "postponing") /\ TryToWrite(h, "reconcile_pending") /\ Exit(h)
  /\ UNCHANGED <<files, backup, saved, receipt, retired, gateway>>

-----------------------------------------------------------------------------
(* retire_backup *)

LockForRetirement(h, g) ==
  /\ At(h, "idle") /\ lock = NoHelper /\ lock' = h
  /\ helper' = [helper EXCEPT ![h].pc = "retiring", ![h].gen = g]
  /\ UNCHANGED <<files, records, gateway>>

RetirableWithReceipt(g) == g \in Whole /\ receipt[g] # NoRun
Retirable(g) == g \in Whole /\ journal[g] = "reconciled" /\ receipt[g] # NoRun

RecordRetirement(h) ==
  LET g == Current(h) IN
  /\ At(h, "retiring") /\ g \notin retired
  /\ \/ Retirable(g) /\ retired' = retired \cup {g} /\ UNCHANGED <<helper, lock>>
     \/ (~Retirable(g) \/ May("error")) /\ UNCHANGED retired /\ Exit(h)
  /\ UNCHANGED <<files, backup, saved, journal, receipt, gateway>>

(* The files are removed one by one, then the directory. *)
RemoveBackup(h) ==
  LET g == Current(h) IN
  /\ At(h, "retiring") /\ g \in retired
  /\ \/ backup[g] = "whole" /\ backup' = [backup EXCEPT ![g] = "partial"] /\ UNCHANGED <<helper, lock>>
     \/ backup[g] = "partial" /\ backup' = [backup EXCEPT ![g] = "gone"] /\ UNCHANGED <<helper, lock>>
     \/ (backup[g] = "gone" \/ May("error")) /\ UNCHANGED backup /\ Exit(h)
  /\ UNCHANGED <<files, saved, journal, receipt, retired, gateway>>

-----------------------------------------------------------------------------
(* The environment *)

CreateRun(r) ==
  /\ qa[r] = "absent" /\ \A q \in Run : qa[q] # "running"
  /\ qa' = [qa EXCEPT ![r] = "running"]
  /\ UNCHANGED <<files, records, client, late, stray, proof, helper, lock>>

(* The timeout of the run, or a restart of the gateway *)
GatewayFailsRun(r) ==
  /\ qa[r] = "running" /\ qa' = [qa EXCEPT ![r] = "failed"]
  /\ UNCHANGED <<files, records, client, late, stray, proof, helper, lock>>

LateClient(h) ==
  /\ h \in late /\ late' = late \ {h} /\ stray' = stray \cup {h}
  /\ client' = [client EXCEPT ![h] = "active"]
  /\ UNCHANGED <<files, records, qa, proof, helper, lock>>

Crash(h) ==
  /\ May("crash") /\ helper[h].pc \notin {"idle", "done"} /\ Exit(h)
  /\ UNCHANGED <<files, records, gateway>>

-----------------------------------------------------------------------------
Recover(h) == DecideIntent(h) \/ AcquireLock(h) \/ RecoverNext(h) \/ Decide(h) \/ Preflight(h)
Apply(h) ==
  \/ Snapshot(h) \/ IssueClient(h) \/ JournalCandidate(h) \/ StopContainer(h) \/ WriteEnv(h)
  \/ WriteConfig(h) \/ StartContainer(h) \/ VerifyHermes(h) \/ WriteReceipt(h) \/ Commit(h)
RollBack(h) ==
  \/ StopForRollback(h) \/ RestoreEnv(h) \/ RestoreConfig(h) \/ Restart(h) \/ MarkRolledBack(h)
  \/ RevokeCandidate(h) \/ Close(h) \/ ReportFailed(h)
Reconcile(h) ==
  RevokePrevious(h) \/ Complete(h) \/ RecordReconciled(h) \/ RecordPending(h)
Retire(h) == RecordRetirement(h) \/ RemoveBackup(h)

Next ==
  \/ \E h \in Helper :
       JustRecover(h) \/ Recover(h) \/ Apply(h) \/ RollBack(h) \/ Reconcile(h) \/ Retire(h)
  \/ \E h \in Helper, r \in Run : Validate(h, r)
  \/ \E h, g \in Helper : LockForRetirement(h, g)
  \/ \E h \in Helper : LateClient(h) \/ Crash(h)
  \/ \E r \in Run : CreateRun(r) \/ GatewayFailsRun(r)

Spec == Init /\ [][Next]_vars

-----------------------------------------------------------------------------
TypeOK ==
  /\ env \in Helper \cup {Original} /\ config \in {"direct", "gateway"}
  /\ loaded \in [env : Helper \cup {Original}, config : {"direct", "gateway", "stopped"}]
  /\ backup \in [Helper -> {"none", "whole", "partial", "gone"}]
  /\ saved \in [Helper -> [env : Helper \cup {Original}, config : {"direct", "gateway"}]]
  /\ journal \in [Helper -> {"none"} \cup Pending \cup Committed \cup Undone]
  /\ receipt \in [Helper -> Run \cup {NoRun}] /\ retired \subseteq Helper
  /\ client \in [Helper -> {"none", "active", "revoked"}]
  /\ late \subseteq Helper /\ stray \subseteq Helper
  /\ qa \in [Run -> {"absent", "running", "passed", "failed"}]
  /\ proof \in [Run -> Helper \cup {NoHelper}]
  /\ helper \in [Helper ->
       [pc : {"idle", "validated", "waiting", "recovering", "preflight", "applying", "stopping",
              "restoring_env", "restoring_config", "restarting", "marking", "revoking", "closing",
              "reporting", "reconciling", "completing", "recording", "postponing", "retiring",
              "done"},
        run : Run \cup {NoRun}, intent : {"none", "running", "passed", "failed"},
        gen : Helper \cup {NoHelper}, step : DOMAIN Script, issued : BOOLEAN]]
  /\ lock \in Helper \cup {NoHelper}

(* A generation is open from its snapshot until it is committed or its client
   is revoked after the rollback. *)
Open == {g \in Helper : journal[g] \in Undoable \cup {"rollback_cleanup_pending"}}

(* The token Hermes is entitled to: what .env holds when no generation is open,
   and what the snapshot of the open generation holds. *)
Token == IF Open = {} THEN env ELSE saved[CHOOSE g \in Open : TRUE].env

(* As long as no generation is open, the two files belong together and the
   container has read both -- across crashes between any two steps, failed
   commands and the recovery of another helper. *)
HermesRunsWhatIsWritten ==
  Open = {} =>
    /\ config = IF env = Original THEN "direct" ELSE "gateway"
    /\ loaded = OnDisk

(* The token Hermes runs with, or would be rolled back to, is never revoked. *)
TokenStaysActive == Token \in Helper => client[Token] = "active"

(* Once a generation is undone its client is revoked, unless the gateway
   created it after the recovery had looked for it. *)
UndoneClientsAreRevoked ==
  \A g \in Helper \ stray : journal[g] \in Undone => client[g] # "active"

(* A QA run is passed by the one generation that is committed for it, and that
   generation has its receipt; a helper that waited for the lock while another
   one committed the run does not commit it again. *)
PassedRunsAreCommitted ==
  \A r \in Run : qa[r] = "passed" =>
    \E g \in Helper : journal[g] \in Committed /\ receipt[g] = r /\ proof[r] = g
OneGenerationPerRun ==
  \A g, k \in Helper :
    journal[g] \in Committed /\ journal[k] \in Committed /\ receipt[g] = receipt[k] => g = k

(* The snapshot of a generation that may have to be rolled back or reconciled
   is not removed. *)
BackupsOutliveTheirUse ==
  \A g \in Helper : journal[g] \in Pending => backup[g] = "whole"

(* docs/RUNBOOK.md: a generation whose journal is committed is not rolled back
   and its client is not revoked. *)
CommittedIsNotRolledBack ==
  \A h \in Helper :
    At(h, "stopping") \/ At(h, "restoring_env") \/ At(h, "restoring_config") =>
      journal[Current(h)] \notin Committed

(* What the rest of the system relies on. *)
Verdict(g) ==
  CASE g \in Open -> "open"
    [] journal[g] \in Committed -> "committed"
    [] journal[g] \in Undone -> "undone"
    [] OTHER -> "none"
Contract == INSTANCE CutoverContract WITH
  Generation <- Helper, verdict <- [g \in Helper |-> Verdict(g)], token <- Token
ImplementsContract == Contract!Spec
=============================================================================
