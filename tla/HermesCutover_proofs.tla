------------------------ MODULE HermesCutover_proofs -------------------------
(***************************************************************************)
(* Theorems about HermesCutover, for every set of helpers and of QA runs,   *)
(* as long as the journal entry "committed" is durable once it is written:  *)
(* Faults does not hold "commit_sync".  Only what concerns the container    *)
(* needs the docker stop of a rollback to work ("stop").                    *)
(***************************************************************************)
EXTENDS HermesCutover, Integers, TLAPS

CommitsAreDurable == ~May("commit_sync")
StopsWork == ~May("stop")

-----------------------------------------------------------------------------
(* What one helper leaves to the next: the records and the files *)

ConfigOf(token) == IF token = Original THEN "direct" ELSE "gateway"

(* A generation that its helper has not begun *)
Fresh(g) == journal[g] = "none" /\ client[g] = "none" /\ g \notin late

(* Only one generation at a time waits to be finished or undone. *)
OneIsPending ==
  \A g, k \in Helper : journal[g] \in Pending /\ journal[k] \in Pending => g = k

NothingPending == \A g \in Helper : journal[g] \notin Pending

(* A backup is removed once its generation is reconciled. *)
BackupOf(g) ==
  /\ journal[g] \in Pending => backup[g] = "whole"
  /\ g \in retired => journal[g] = "reconciled"

(* The snapshot was taken while Hermes ran what was written. *)
SnapshotOf(g) ==
  journal[g] # "none" =>
    /\ saved[g].env # g
    /\ saved[g].env \in Helper => journal[saved[g].env] # "none"
    /\ saved[g].config = ConfigOf(saved[g].env)

(* The files are those of the snapshot again, and Hermes runs with them. *)
RunsWhatIsWritten == May("stop") \/ loaded = OnDisk
Restored(g) == OnDisk = saved[g] /\ RunsWhatIsWritten

InForce(g) ==
  env = g /\ client[g] = "active" /\ receipt[g] \in Run

(* What the state recorded in the journal of a generation tells a helper *)
StateOf(g) ==
  /\ journal[g] \in Undoable \cup {"rollback_cleanup_pending"} =>
       (saved[g].env \in Helper => client[saved[g].env] = "active")
  /\ journal[g] = "rollback_cleanup_pending" => Restored(g)
  /\ journal[g] \in {"committed", "reconcile_pending"} => InForce(g)
  /\ journal[g] = "reconciled" =>
       receipt[g] \in Run /\ qa[receipt[g]] = "passed" /\ proof[receipt[g]] = g
  /\ journal[g] \in Undone => client[g] # "active" \/ g \in stray

Settled ==
  Open = {} =>
    /\ config = ConfigOf(env) /\ RunsWhatIsWritten
    /\ env \in Helper => client[env] = "active"

RunOf(r) ==
  qa[r] = "passed" =>
    proof[r] \in Helper /\ journal[proof[r]] \in Committed /\ receipt[proof[r]] = r

RecordsInv ==
  /\ OneIsPending
  /\ \A g \in Helper : BackupOf(g) /\ SnapshotOf(g) /\ StateOf(g)
  /\ Settled
  /\ env \in Helper => journal[env] # "none"
  /\ \A r \in Run : RunOf(r)
  /\ OneGenerationPerRun

(* What a helper may rely on *)
Unlocked == {"idle", "validated", "waiting", "done"}
LockInv == \A h \in Helper : helper[h].pc \notin Unlocked <=> lock = h

Uncommitted(r) == \A g \in Helper : journal[g] \in Committed => receipt[g] # r

Applied(h) ==
  /\ journal[h] \in Undoable
  /\ helper[h].step >= 16 => env = h
  /\ helper[h].step >= 17 => config = "gateway"
  /\ helper[h].step >= 19 => loaded = [env |-> h, config |-> "gateway"] /\ client[h] = "active"
  /\ helper[h].step >= 20 => receipt[h] = helper[h].run

Cutting == {"preflight", "applying"}
RollingBack == {"stopping", "restoring_env", "restoring_config", "restarting", "marking"}
CleaningUp == {"revoking", "closing"}
Reconciling == {"reconciling", "completing", "recording", "postponing"}

Owner(h) ==
  /\ helper[h].pc \in Cutting \cup {"marking", "reporting", "postponing"} => Own(h)
  /\ helper[h].pc \in {"idle", "validated", "waiting", "recovering"} => ~Own(h)
  /\ helper[h].pc \notin {"done", "retiring"} /\ ~Own(h) => Fresh(h)
  /\ helper[h].pc \notin {"done", "retiring"} /\ Own(h) => helper[h].run \in Run
  /\ helper[h].pc \in RollingBack \cup CleaningUp \cup Reconciling \cup {"retiring"} => Current(h) \in Helper

Cut(h) ==
  /\ helper[h].pc \in Cutting => Uncommitted(helper[h].run)
  /\ helper[h].pc = "preflight" \/ (helper[h].pc = "applying" /\ helper[h].step = 1) =>
       Fresh(h) /\ NothingPending
  /\ helper[h].pc = "applying" /\ helper[h].step # 1 => Applied(h)
  /\ helper[h].pc # "applying" => helper[h].step = 1

RolledBack(h) ==
  LET g == Current(h) IN
  /\ helper[h].pc \in RollingBack => journal[g] \in Undoable
  /\ helper[h].pc \in {"restoring_env", "restoring_config", "restarting"} => May("stop") \/ loaded = Stopped
  /\ helper[h].pc \in {"restoring_config", "restarting"} => env = saved[g].env
  /\ helper[h].pc = "restarting" => config = saved[g].config
  /\ helper[h].pc \in {"marking"} \cup CleaningUp => Restored(g)
  /\ helper[h].pc \in CleaningUp => journal[g] \in Undoable \cup {"rollback_cleanup_pending"}
  /\ helper[h].pc = "closing" => client[g] # "active" \/ g \in stray

Reconciled(h) ==
  LET g == Current(h) IN
  helper[h].pc \in Reconciling =>
    /\ journal[g] \in Committed /\ InForce(g)
    /\ backup[g] = "whole" /\ g \notin retired
    /\ \A k \in Helper \ {g} : journal[k] \notin Pending
    /\ helper[h].pc = "recording" => qa[receipt[g]] = "passed" /\ proof[receipt[g]] = g

HelperInv(h) == Owner(h) /\ Cut(h) /\ RolledBack(h) /\ Reconciled(h)

CutoverInv == TypeOK /\ LockInv /\ RecordsInv /\ \A h \in Helper : HelperInv(h)

-----------------------------------------------------------------------------
(* How the program of apply and the place of a helper move *)

LEMMA ScriptSteps ==
  /\ DOMAIN Script = 1 .. 20
  /\ Script[1] = "snapshot" /\ Script[2] = "issue" /\ Script[3] = "candidate_ready"
  /\ Script[4] = "stop" /\ Script[5] = "env" /\ Script[6] = "config"
  /\ Script[7] = "candidate_applied" /\ Script[8] = "start" /\ Script[9] = "verify"
  /\ Script[10] = "stop" /\ Script[11] = "old_env" /\ Script[12] = "old_config"
  /\ Script[13] = "start" /\ Script[14] = "stop" /\ Script[15] = "env"
  /\ Script[16] = "config" /\ Script[17] = "start" /\ Script[18] = "verify"
  /\ Script[19] = "receipt" /\ Script[20] = "commit"
BY DEF Script

LEMMA StepOf ==
  ASSUME NEW s \in DOMAIN Script
  PROVE  /\ s \in 1 .. 20
         /\ Script[s] = "snapshot" <=> s = 1
         /\ Script[s] = "issue" <=> s = 2
         /\ Script[s] = "candidate_ready" <=> s = 3
         /\ Script[s] = "candidate_applied" <=> s = 7
         /\ Script[s] = "stop" <=> s \in {4, 10, 14}
         /\ Script[s] = "env" <=> s \in {5, 15}
         /\ Script[s] = "config" <=> s \in {6, 16}
         /\ Script[s] = "old_env" <=> s = 11
         /\ Script[s] = "old_config" <=> s = 12
         /\ Script[s] = "start" <=> s \in {8, 13, 17}
         /\ Script[s] = "verify" <=> s \in {9, 18}
         /\ Script[s] = "receipt" <=> s = 19
         /\ Script[s] = "commit" <=> s = 20
<1>1. s \in 1 .. 20
  BY ScriptSteps
<1>2. \/ s = 1 \/ s = 2 \/ s = 3 \/ s = 4 \/ s = 5 \/ s = 6 \/ s = 7 \/ s = 8 \/ s = 9 \/ s = 10
      \/ s = 11 \/ s = 12 \/ s = 13 \/ s = 14 \/ s = 15 \/ s = 16 \/ s = 17 \/ s = 18 \/ s = 19
      \/ s = 20
  BY <1>1
<1> QED BY <1>1, <1>2, ScriptSteps

HelperRecord ==
  [pc : {"idle", "validated", "waiting", "recovering", "preflight", "applying", "stopping",
         "restoring_env", "restoring_config", "restarting", "marking", "revoking", "closing",
         "reporting", "reconciling", "completing", "recording", "postponing", "retiring",
         "done"},
   run : Run \cup {NoRun}, intent : {"none", "running", "passed", "failed"},
   gen : Helper \cup {NoHelper}, step : DOMAIN Script, issued : BOOLEAN]

(* One helper moves to a place, on a generation. *)
MovesTo(h, pc, g) ==
  /\ helper' \in [Helper -> HelperRecord]
  /\ helper'[h].pc = pc /\ helper'[h].gen = g
  /\ \A k \in Helper \ {h} : helper'[k] = helper[k]

Keeps(h, pc) ==
  /\ MovesTo(h, pc, helper[h].gen)
  /\ helper'[h].run = helper[h].run /\ lock' = lock

Place == {"idle", "validated", "waiting", "recovering", "preflight", "applying", "stopping",
          "restoring_env", "restoring_config", "restarting", "marking", "revoking", "closing",
          "reporting", "reconciling", "completing", "recording", "postponing", "retiring", "done"}

Intents == {"none", "running", "passed", "failed"}

(* A record with its fields left unexpanded: edits need no more of them.     *)
LEMMA HelperFields ==
  HelperRecord = [pc : Place, run : Run \cup {NoRun}, intent : Intents,
                  gen : Helper \cup {NoHelper}, step : DOMAIN Script, issued : BOOLEAN]
BY DEF HelperRecord, Place, Intents

LEMMA GotoMoves ==
  ASSUME TypeOK, NEW h \in Helper, NEW pc \in Place, Goto(h, pc)
  PROVE  Keeps(h, pc) /\ helper'[h].step = helper[h].step
<1>1. helper \in [Helper -> HelperRecord]
  BY DEF TypeOK, HelperRecord
<1> QED BY <1>1 DEF Goto, Keeps, MovesTo, HelperRecord, Place

LEMMA WorkMoves ==
  ASSUME TypeOK, NEW h \in Helper, NEW g \in Helper, NEW pc \in Place, Work(h, pc, g)
  PROVE  /\ MovesTo(h, pc, g) /\ lock' = lock
         /\ helper'[h].step = helper[h].step /\ helper'[h].run = helper[h].run
<1>1. helper \in [Helper -> HelperRecord]
  BY DEF TypeOK, HelperRecord
<1> DEFINE new == [helper[h] EXCEPT !.pc = pc, !.gen = g]
<1>2. /\ new \in HelperRecord /\ new.pc = pc /\ new.gen = g
      /\ new.step = helper[h].step /\ new.run = helper[h].run
  BY <1>1, HelperFields
<1>3. helper' = [helper EXCEPT ![h] = new] /\ lock' = lock
  BY <1>1 DEF Work
<1> HIDE DEF new
<1> QED BY <1>1, <1>2, <1>3 DEF MovesTo

LEMMA ExitMoves ==
  ASSUME TypeOK, NEW h \in Helper, Exit(h)
  PROVE  /\ MovesTo(h, "done", NoHelper) /\ helper'[h].step = 1
         /\ lock' = IF lock = h THEN NoHelper ELSE lock
<1>1. helper \in [Helper -> HelperRecord]
  BY DEF TypeOK, HelperRecord
<1> DEFINE new == [NewHelper EXCEPT !.pc = "done"]
<1>2. 1 \in DOMAIN Script
  BY ScriptSteps
<1>3. NewHelper \in HelperRecord /\ NewHelper.gen = NoHelper /\ NewHelper.step = 1
  BY <1>2 DEF NewHelper, HelperRecord
<1>4. new \in HelperRecord /\ new.pc = "done" /\ new.gen = NoHelper /\ new.step = 1
  BY <1>3 DEF HelperRecord
<1>5. helper' = [helper EXCEPT ![h] = new] /\ lock' = IF lock = h THEN NoHelper ELSE lock
  BY DEF Exit
<1> HIDE DEF new
<1> QED BY <1>1, <1>4, <1>5 DEF MovesTo

LEMMA OnwardsMoves ==
  ASSUME TypeOK, NEW h \in Helper, helper[h].step \in 1 .. 19, Onwards(h)
  PROVE  Keeps(h, helper[h].pc) /\ helper'[h].step = helper[h].step + 1
<1>1. helper \in [Helper -> HelperRecord]
  BY DEF TypeOK, HelperRecord
<1>2. helper[h].step + 1 \in DOMAIN Script
  BY ScriptSteps
<1> DEFINE new == [helper[h] EXCEPT !.step = helper[h].step + 1]
<1>3. /\ new \in HelperRecord /\ new.pc = helper[h].pc /\ new.step = helper[h].step + 1
      /\ new.gen = helper[h].gen /\ new.run = helper[h].run
  BY <1>1, <1>2, HelperFields
<1>4. helper' = [helper EXCEPT ![h] = new] /\ lock' = lock
  BY <1>1 DEF Onwards
<1> HIDE DEF new
<1> QED BY <1>1, <1>3, <1>4 DEF Keeps, MovesTo

LEMMA UndoMoves ==
  ASSUME TypeOK, NEW h \in Helper, Undo(h)
  PROVE  Keeps(h, "stopping") /\ helper'[h].step = 1
<1>1. helper \in [Helper -> HelperRecord] /\ 1 \in DOMAIN Script
  BY ScriptSteps DEF TypeOK, HelperRecord
<1>0. "stopping" \in Place
  BY DEF Place
<1> DEFINE new == [helper[h] EXCEPT !.pc = "stopping", !.step = 1]
<1>2. /\ new \in HelperRecord /\ new.pc = "stopping" /\ new.step = 1
      /\ new.gen = helper[h].gen /\ new.run = helper[h].run
  BY <1>0, <1>1, HelperFields
<1>3. helper' = [helper EXCEPT ![h] = new] /\ lock' = lock
  BY <1>1 DEF Undo
<1> HIDE DEF new
<1> QED BY <1>1, <1>2, <1>3 DEF Keeps, MovesTo

LEMMA CommittingMoves ==
  ASSUME TypeOK, NEW h \in Helper, Committing(h)
  PROVE  Keeps(h, "reconciling") /\ helper'[h].step = 1
<1>1. helper \in [Helper -> HelperRecord] /\ 1 \in DOMAIN Script
  BY ScriptSteps DEF TypeOK, HelperRecord
<1>0. "reconciling" \in Place
  BY DEF Place
<1> DEFINE new == [helper[h] EXCEPT !.pc = "reconciling", !.step = 1]
<1>2. /\ new \in HelperRecord /\ new.pc = "reconciling" /\ new.step = 1
      /\ new.gen = helper[h].gen /\ new.run = helper[h].run
  BY <1>0, <1>1, HelperFields
<1>3. helper' = [helper EXCEPT ![h] = new] /\ lock' = lock
  BY <1>1 DEF Committing
<1> HIDE DEF new
<1> QED BY <1>1, <1>2, <1>3 DEF Keeps, MovesTo

-----------------------------------------------------------------------------
(* The lock *)

LEMMA OneHolder ==
  ASSUME LockInv, NEW h \in Helper, helper[h].pc \notin Unlocked
  PROVE  lock = h /\ \A k \in Helper \ {h} : helper[k].pc \in Unlocked
BY DEF LockInv

LEMMA LockIsKept ==
  ASSUME LockInv, NEW h \in Helper, NEW pc, NEW g, MovesTo(h, pc, g), lock' = lock,
         pc \in Unlocked <=> helper[h].pc \in Unlocked
  PROVE  LockInv'
BY DEF LockInv, MovesTo

LEMMA LockIsTaken ==
  ASSUME LockInv, NEW h \in Helper, NEW pc, NEW g, MovesTo(h, pc, g), pc \notin Unlocked,
         lock = NoHelper, lock' = h
  PROVE  LockInv'
BY CutoverAssumption DEF LockInv, MovesTo

LEMMA LockIsReleased ==
  ASSUME LockInv, NEW h \in Helper, NEW g, MovesTo(h, "done", g),
         lock' = IF lock = h THEN NoHelper ELSE lock
  PROVE  LockInv'
BY CutoverAssumption DEF LockInv, MovesTo, Unlocked

(* The helpers that wait for the lock rely on nothing but their own          *)
(* generation.                                                               *)
LEMMA OthersKeep ==
  ASSUME LockInv, NEW h \in Helper, helper[h].pc \notin Unlocked,
         NEW pc, NEW g, MovesTo(h, pc, g),
         \A k \in Helper \ {h} : HelperInv(k) /\ (Fresh(k) => Fresh(k)')
  PROVE  \A k \in Helper \ {h} : HelperInv(k)'
<1> SUFFICES ASSUME NEW k \in Helper \ {h} PROVE HelperInv(k)'
  OBVIOUS
<1>1. helper[k].pc \in Unlocked /\ helper'[k] = helper[k]
  BY OneHolder DEF MovesTo
<1>2. HelperInv(k) /\ (Fresh(k) => Fresh(k)')
  OBVIOUS
<1>3. Owner(k)'
  BY <1>1, <1>2 DEF HelperInv, Owner, Own, Cutting, RollingBack, CleaningUp, Reconciling, Unlocked
<1>4. Cut(k)'
  BY <1>1, <1>2 DEF HelperInv, Cut, Cutting, Unlocked
<1>5. RolledBack(k)'
  BY <1>1 DEF RolledBack, RollingBack, CleaningUp, Unlocked
<1>6. Reconciled(k)'
  BY <1>1 DEF Reconciled, Reconciling, Unlocked
<1> QED BY <1>3, <1>4, <1>5, <1>6 DEF HelperInv

-----------------------------------------------------------------------------
(* What the effects of the steps leave of the records *)

JournalIs(g, state) == \A k \in Helper : journal'[k] = IF k = g THEN state ELSE journal[k]

LEMMA RecordsFrame ==
  ASSUME RecordsInv, UNCHANGED <<files, records, gateway>>
  PROVE  RecordsInv'
BY DEF RecordsInv, OneIsPending, BackupOf, SnapshotOf, StateOf, Settled, RunOf, OneGenerationPerRun,
       Restored, RunsWhatIsWritten, OnDisk, InForce, Open, files, records, gateway

(* An open generation: it alone is pending, and nothing is settled. *)
LEMMA OpenIsAlone ==
  ASSUME OneIsPending, NEW g \in Helper, journal[g] \in Undoable \cup {"rollback_cleanup_pending"}
  PROVE  /\ Open = {g}
         /\ \A k \in Helper \ {g} : journal[k] \notin Pending
BY DEF OneIsPending, Open, Pending, Undoable

LEMMA FilesMove ==
  ASSUME RecordsInv, NEW g \in Helper, journal[g] \in Undoable,
         UNCHANGED <<records, gateway>>,
         env' \in Helper => journal[env'] # "none"
  PROVE  RecordsInv'
<1>1. Open = {g} /\ \A k \in Helper \ {g} : journal[k] \notin Pending
  BY OpenIsAlone DEF RecordsInv
<1>2. /\ UNCHANGED <<backup, saved, journal, receipt, retired, client, late, stray, qa, proof>>
      /\ Open' = {g}
  BY <1>1 DEF records, gateway, Open
<1>3. ASSUME NEW k \in Helper PROVE (BackupOf(k) /\ SnapshotOf(k) /\ StateOf(k))'
  <2>1. BackupOf(k) /\ SnapshotOf(k) /\ StateOf(k)
    BY DEF RecordsInv
  <2>2. journal[k] \notin {"rollback_cleanup_pending", "committed", "reconcile_pending"}
    BY <1>1 DEF Pending, Undoable
  <2> QED BY <1>2, <2>1, <2>2 DEF BackupOf, SnapshotOf, StateOf
<1>4. OneIsPending' /\ OneGenerationPerRun' /\ \A r \in Run : RunOf(r)'
  BY <1>2 DEF RecordsInv, OneIsPending, OneGenerationPerRun, RunOf
<1>5. Settled'
  BY <1>2 DEF Settled
<1> QED BY <1>2, <1>3, <1>4, <1>5 DEF RecordsInv

(* candidate_ready, candidate_applied, rollback_cleanup_pending *)
LEMMA JournalStaysOpen ==
  ASSUME RecordsInv, NEW g \in Helper, journal[g] \in Undoable,
         NEW state \in Undoable \cup {"rollback_cleanup_pending"}, JournalIs(g, state),
         state = "rollback_cleanup_pending" => Restored(g),
         UNCHANGED <<files, backup, saved, receipt, retired, gateway>>
  PROVE  RecordsInv'
<1>1. Open = {g} /\ \A k \in Helper \ {g} : journal[k] \notin Pending
  BY OpenIsAlone DEF RecordsInv
<1>2. /\ UNCHANGED <<env, config, loaded, backup, saved, receipt, retired,
                    client, late, stray, qa, proof>>
      /\ \A k \in Helper \ {g} : journal'[k] = journal[k]
      /\ journal'[g] = state
  BY DEF files, gateway, JournalIs
<1>3. Open' = {g}
  BY <1>1, <1>2 DEF Open
<1>4. ASSUME NEW k \in Helper PROVE (BackupOf(k) /\ SnapshotOf(k) /\ StateOf(k))'
  <2>1. BackupOf(k) /\ SnapshotOf(k) /\ StateOf(k)
    BY DEF RecordsInv
  <2>2. CASE k = g
    <3>1. BackupOf(k)'
      BY <1>2, <2>1, <2>2 DEF BackupOf, Pending, Undoable
    <3>2. SnapshotOf(k)'
      BY <1>2, <2>1, <2>2 DEF SnapshotOf, Undoable
    <3>3. StateOf(k)'
      BY <1>2, <2>1, <2>2
         DEF StateOf, Undoable, Undone, Restored, OnDisk, RunsWhatIsWritten
    <3> QED BY <3>1, <3>2, <3>3
  <2>3. CASE k # g
    <3>1. BackupOf(k)' /\ SnapshotOf(k)'
      BY <1>2, <2>1, <2>3 DEF BackupOf, SnapshotOf, Undoable
    <3>2. StateOf(k)'
      BY <1>2, <2>1, <2>3 DEF StateOf, Restored, OnDisk, RunsWhatIsWritten, InForce
    <3> QED BY <3>1, <3>2
  <2> QED BY <2>2, <2>3
<1>5. OneIsPending'
  BY <1>1, <1>2 DEF OneIsPending
<1>6. OneGenerationPerRun'
  BY <1>2 DEF RecordsInv, OneGenerationPerRun, Committed, Undoable
<1>7. \A r \in Run : RunOf(r)'
  BY <1>2 DEF RecordsInv, RunOf, Committed, Undoable
<1>8. Settled'
  BY <1>3 DEF Settled
<1>9. env' \in Helper => journal'[env'] # "none"
  BY <1>2 DEF RecordsInv, Undoable
<1> QED BY <1>4, <1>5, <1>6, <1>7, <1>8, <1>9 DEF RecordsInv

(* rolled_back, recovered *)
LEMMA JournalCloses ==
  ASSUME RecordsInv, NEW g \in Helper, journal[g] \in Undoable \cup {"rollback_cleanup_pending"},
         NEW state \in Undone, JournalIs(g, state),
         Restored(g), client[g] # "active" \/ g \in stray,
         UNCHANGED <<files, backup, saved, receipt, retired, gateway>>
  PROVE  RecordsInv'
<1>1. Open = {g} /\ \A k \in Helper \ {g} : journal[k] \notin Pending
  BY OpenIsAlone DEF RecordsInv
<1>2. /\ UNCHANGED <<env, config, loaded, backup, saved, receipt, retired,
                    client, late, stray, qa, proof>>
      /\ \A k \in Helper \ {g} : journal'[k] = journal[k]
      /\ journal'[g] = state
  BY DEF files, gateway, JournalIs
<1>3. journal[g] # "none" /\ journal[g] \notin Committed
  BY DEF Undoable, Committed
<1>4. state \notin Pending /\ state \notin Committed /\ state # "none" /\ state # "reconciled"
  BY DEF Undone, Pending, Undoable, Committed
<1>5. ASSUME NEW k \in Helper PROVE (BackupOf(k) /\ SnapshotOf(k) /\ StateOf(k))'
  <2>1. BackupOf(k) /\ SnapshotOf(k) /\ StateOf(k)
    BY DEF RecordsInv
  <2>2. CASE k = g
    <3>1. BackupOf(k)'
      BY <1>2, <1>3, <1>4, <2>1, <2>2 DEF BackupOf, Committed
    <3>2. SnapshotOf(k)'
      BY <1>2, <1>3, <1>4, <2>1, <2>2 DEF SnapshotOf
    <3>3. StateOf(k)'
      BY <1>2, <1>4, <2>1, <2>2 DEF StateOf, Pending, Undone, Undoable
    <3> QED BY <3>1, <3>2, <3>3
  <2>3. CASE k # g
    <3>1. BackupOf(k)' /\ SnapshotOf(k)'
      BY <1>2, <1>4, <2>1, <2>3 DEF BackupOf, SnapshotOf
    <3>2. StateOf(k)'
      BY <1>2, <2>1, <2>3 DEF StateOf, Restored, OnDisk, RunsWhatIsWritten, InForce
    <3> QED BY <3>1, <3>2
  <2> QED BY <2>2, <2>3
<1>6. OneIsPending'
  BY <1>1, <1>2, <1>4 DEF OneIsPending
<1>7. OneGenerationPerRun'
  BY <1>2, <1>4 DEF RecordsInv, OneGenerationPerRun
<1>8. \A r \in Run : RunOf(r)'
  BY <1>2, <1>3 DEF RecordsInv, RunOf
<1>9. Settled'
  <2>1. OnDisk = saved[g] /\ SnapshotOf(g) /\ StateOf(g)
    BY DEF Restored, RecordsInv
  <2>2. env = saved[g].env /\ config = saved[g].config
    BY <2>1 DEF OnDisk
  <2>3. config = ConfigOf(env) /\ (env \in Helper => client[env] = "active")
    BY <1>3, <2>1, <2>2 DEF SnapshotOf, StateOf
  <2>4. RunsWhatIsWritten'
    BY <1>2 DEF Restored, RunsWhatIsWritten, OnDisk
  <2> QED BY <1>2, <2>3, <2>4 DEF Settled, ConfigOf
<1>10. env' \in Helper => journal'[env'] # "none"
  BY <1>2, <1>4 DEF RecordsInv
<1> QED BY <1>5, <1>6, <1>7, <1>8, <1>9, <1>10 DEF RecordsInv


LEMMA JournalCommits ==
  ASSUME RecordsInv, NEW g \in Helper, journal[g] \in Undoable, JournalIs(g, "committed"),
         InForce(g), config = "gateway", loaded = OnDisk, Uncommitted(receipt[g]),
         UNCHANGED <<files, backup, saved, receipt, retired, gateway>>
  PROVE  RecordsInv'
<1>1. Open = {g} /\ \A k \in Helper \ {g} : journal[k] \notin Pending
  BY OpenIsAlone DEF RecordsInv
<1>2. /\ UNCHANGED <<env, config, loaded, backup, saved, receipt, retired,
                    client, late, stray, qa, proof>>
      /\ \A k \in Helper \ {g} : journal'[k] = journal[k]
      /\ journal'[g] = "committed"
  BY DEF files, gateway, JournalIs
<1>3. journal[g] # "none" /\ journal[g] \notin Committed /\ journal[g] \in Pending
  BY DEF Undoable, Committed, Pending
<1>4. ASSUME NEW k \in Helper PROVE (BackupOf(k) /\ SnapshotOf(k) /\ StateOf(k))'
  <2>1. BackupOf(k) /\ SnapshotOf(k) /\ StateOf(k)
    BY DEF RecordsInv
  <2>2. CASE k = g
    <3>1. BackupOf(k)'
      BY <1>2, <1>3, <2>1, <2>2 DEF BackupOf, Committed
    <3>2. SnapshotOf(k)'
      BY <1>2, <1>3, <2>1, <2>2 DEF SnapshotOf
    <3>3. StateOf(k)'
      BY <1>2, <2>2 DEF StateOf, Undone, Undoable, InForce
    <3> QED BY <3>1, <3>2, <3>3
  <2>3. CASE k # g
    <3>1. BackupOf(k)' /\ SnapshotOf(k)'
      BY <1>2, <2>1, <2>3 DEF BackupOf, SnapshotOf
    <3>2. StateOf(k)'
      BY <1>2, <2>1, <2>3 DEF StateOf, Restored, OnDisk, RunsWhatIsWritten, InForce
    <3> QED BY <3>1, <3>2
  <2> QED BY <2>2, <2>3
<1>5. OneIsPending'
  BY <1>1, <1>2 DEF OneIsPending
<1>6. OneGenerationPerRun'
  <2> SUFFICES ASSUME NEW a \in Helper, NEW b \in Helper, journal'[a] \in Committed,
                      journal'[b] \in Committed, receipt[a] = receipt[b]
               PROVE  a = b
    BY <1>2 DEF OneGenerationPerRun
  <2>1. CASE a # g /\ b # g
    BY <1>2, <2>1 DEF RecordsInv, OneGenerationPerRun
  <2>2. CASE a = g \/ b = g
    BY <1>2, <2>2 DEF Uncommitted
  <2> QED BY <2>1, <2>2
<1>7. \A r \in Run : RunOf(r)'
  BY <1>2, <1>3 DEF RecordsInv, RunOf
<1>8. Settled'
  <2>1. env = g /\ client[g] = "active" /\ g # Original
    BY CutoverAssumption DEF InForce
  <2> QED BY <1>2, <2>1 DEF Settled, ConfigOf, RunsWhatIsWritten, OnDisk
<1>9. env' \in Helper => journal'[env'] # "none"
  BY <1>2 DEF RecordsInv
<1> QED BY <1>4, <1>5, <1>6, <1>7, <1>8, <1>9 DEF RecordsInv

(* reconciled, and reconcile_pending when its write was not the last one *)
LEMMA JournalReconciles ==
  ASSUME RecordsInv, NEW g \in Helper, journal[g] \in Committed,
         NEW state \in {"reconciled", "reconcile_pending"}, JournalIs(g, state),
         InForce(g), backup[g] = "whole", g \notin retired,
         \A k \in Helper \ {g} : journal[k] \notin Pending,
         state = "reconciled" => qa[receipt[g]] = "passed" /\ proof[receipt[g]] = g,
         UNCHANGED <<files, backup, saved, receipt, retired, gateway>>
  PROVE  RecordsInv'
<1>1. /\ UNCHANGED <<env, config, loaded, backup, saved, receipt, retired,
                    client, late, stray, qa, proof>>
      /\ \A k \in Helper \ {g} : journal'[k] = journal[k]
      /\ journal'[g] = state
  BY DEF files, gateway, JournalIs
<1>2. state \in Committed /\ state # "none" /\ journal[g] # "none"
  BY DEF Committed
<1>3. Open' = Open
  BY <1>1 DEF Open, Undoable, Committed
<1>4. ASSUME NEW k \in Helper PROVE (BackupOf(k) /\ SnapshotOf(k) /\ StateOf(k))'
  <2>1. BackupOf(k) /\ SnapshotOf(k) /\ StateOf(k)
    BY DEF RecordsInv
  <2>2. CASE k = g
    <3>1. BackupOf(k)'
      BY <1>1, <2>2 DEF BackupOf
    <3>2. SnapshotOf(k)'
      BY <1>1, <1>2, <2>1, <2>2 DEF SnapshotOf
    <3>3. StateOf(k)'
      BY <1>1, <2>2 DEF StateOf, Undone, Undoable, InForce
    <3> QED BY <3>1, <3>2, <3>3
  <2>3. CASE k # g
    <3>1. BackupOf(k)' /\ SnapshotOf(k)'
      BY <1>1, <1>2, <2>1, <2>3 DEF BackupOf, SnapshotOf
    <3>2. StateOf(k)'
      BY <1>1, <2>1, <2>3 DEF StateOf, Restored, OnDisk, RunsWhatIsWritten, InForce
    <3> QED BY <3>1, <3>2
  <2> QED BY <2>2, <2>3
<1>5. OneIsPending'
  BY <1>1 DEF OneIsPending
<1>6. OneGenerationPerRun'
  BY <1>1 DEF RecordsInv, OneGenerationPerRun
<1>7. \A r \in Run : RunOf(r)'
  BY <1>1, <1>2 DEF RecordsInv, RunOf
<1>8. Settled'
  BY <1>1, <1>3 DEF RecordsInv, Settled, RunsWhatIsWritten, OnDisk
<1>9. env' \in Helper => journal'[env'] # "none"
  BY <1>1, <1>2 DEF RecordsInv
<1> QED BY <1>4, <1>5, <1>6, <1>7, <1>8, <1>9 DEF RecordsInv

(* A snapshot opens a generation while none is pending. *)
LEMMA SnapshotOpens ==
  ASSUME RecordsInv, TypeOK, NEW h \in Helper, Fresh(h), NothingPending,
         JournalIs(h, "client_operation_prepared"),
         backup' = [backup EXCEPT ![h] = "whole"], saved' = [saved EXCEPT ![h] = OnDisk],
         UNCHANGED <<files, receipt, retired, gateway>>
  PROVE  RecordsInv'
<1>1. /\ UNCHANGED <<env, config, loaded, receipt, retired, client, late, stray, qa, proof>>
      /\ \A k \in Helper \ {h} :
           journal'[k] = journal[k] /\ backup'[k] = backup[k] /\ saved'[k] = saved[k]
      /\ journal'[h] = "client_operation_prepared" /\ backup'[h] = "whole" /\ saved'[h] = OnDisk
  BY DEF files, gateway, JournalIs, TypeOK
<1>2. journal[h] = "none" /\ Open = {} /\ Open' = {h}
  <2>1. \A k \in Helper : journal[k] \notin Undoable \cup {"rollback_cleanup_pending"}
    BY DEF NothingPending, Pending
  <2> QED BY <1>1, <2>1 DEF Fresh, Open, Undoable
<1>3. /\ config = ConfigOf(env)
      /\ env \in Helper => client[env] = "active" /\ journal[env] # "none"
  BY <1>2 DEF RecordsInv, Settled
<1>4. ASSUME NEW k \in Helper PROVE (BackupOf(k) /\ SnapshotOf(k) /\ StateOf(k))'
  <2>1. BackupOf(k) /\ SnapshotOf(k) /\ StateOf(k)
    BY DEF RecordsInv
  <2>2. CASE k = h
    <3>1. BackupOf(k)'
      BY <1>1, <1>2, <2>1, <2>2 DEF BackupOf
    <3>2. SnapshotOf(k)'
      <4>1. env # h /\ OnDisk.env = env /\ OnDisk.config = config
        BY <1>2, <1>3 DEF OnDisk
      <4>2. env \in Helper => journal'[env] # "none"
        BY <1>1, <1>3
      <4> QED BY <1>1, <1>3, <2>2, <4>1, <4>2 DEF SnapshotOf, ConfigOf
    <3>3. StateOf(k)'
      <4>1. OnDisk.env = env
        BY DEF OnDisk
      <4> QED BY <1>1, <1>3, <2>2, <4>1 DEF StateOf, Undone, Undoable
    <3> QED BY <3>1, <3>2, <3>3
  <2>3. CASE k # h
    <3>1. BackupOf(k)' /\ SnapshotOf(k)'
      BY <1>1, <2>1, <2>3 DEF BackupOf, SnapshotOf, ConfigOf
    <3>2. StateOf(k)'
      BY <1>1, <2>1, <2>3 DEF StateOf, Restored, OnDisk, RunsWhatIsWritten, InForce
    <3> QED BY <3>1, <3>2
  <2> QED BY <2>2, <2>3
<1>5. OneIsPending'
  BY <1>1 DEF OneIsPending, NothingPending
<1>6. OneGenerationPerRun'
  BY <1>1, <1>2 DEF RecordsInv, OneGenerationPerRun, Committed
<1>7. \A r \in Run : RunOf(r)'
  BY <1>1, <1>2 DEF RecordsInv, RunOf, Committed
<1>8. Settled'
  BY <1>2 DEF Settled
<1>9. env' \in Helper => journal'[env'] # "none"
  BY <1>1, <1>3
<1> QED BY <1>4, <1>5, <1>6, <1>7, <1>8, <1>9 DEF RecordsInv


LEMMA ClientsMove ==
  ASSUME RecordsInv, UNCHANGED <<files, records, qa, proof>>, stray \subseteq stray',
         \A k \in Helper : journal[k] \in Undoable \cup {"rollback_cleanup_pending"} =>
           (saved[k].env \in Helper => client'[saved[k].env] = "active"),
         \A k \in Helper : journal[k] \in {"committed", "reconcile_pending"} => client'[k] = "active",
         Open = {} => (env \in Helper => client'[env] = "active"),
         \A k \in Helper : journal[k] \in Undone => client'[k] # "active" \/ k \in stray'
  PROVE  RecordsInv'
<1>1. UNCHANGED <<env, config, loaded, backup, saved, journal, receipt, retired, qa, proof>>
  BY DEF files, records
<1>2. ASSUME NEW k \in Helper PROVE (BackupOf(k) /\ SnapshotOf(k) /\ StateOf(k))'
  <2>1. BackupOf(k) /\ SnapshotOf(k) /\ StateOf(k)
    BY DEF RecordsInv
  <2> QED BY <1>1, <2>1
          DEF BackupOf, SnapshotOf, StateOf, Restored, OnDisk, RunsWhatIsWritten, InForce
<1>3. OneIsPending' /\ OneGenerationPerRun' /\ \A r \in Run : RunOf(r)'
  BY <1>1 DEF RecordsInv, OneIsPending, OneGenerationPerRun, RunOf
<1>4. Settled'
  BY <1>1 DEF RecordsInv, Settled, Open, RunsWhatIsWritten, OnDisk
<1> QED BY <1>1, <1>2, <1>3, <1>4 DEF RecordsInv

LEMMA ClientGained ==
  ASSUME RecordsInv, client \in [Helper -> {"none", "active", "revoked"}],
         NEW g \in Helper, journal[g] \in Undone => g \in stray',
         client' = [client EXCEPT ![g] = "active"], stray \subseteq stray',
         UNCHANGED <<files, records, qa, proof>>
  PROVE  RecordsInv'
<1>1. \A k \in Helper : client'[k] = IF k = g THEN "active" ELSE client[k]
  OBVIOUS
<1>2. \A k \in Helper : StateOf(k)
  BY DEF RecordsInv
<1>3. /\ \A k \in Helper : journal[k] \in Undoable \cup {"rollback_cleanup_pending"} =>
           (saved[k].env \in Helper => client'[saved[k].env] = "active")
      /\ \A k \in Helper : journal[k] \in {"committed", "reconcile_pending"} => client'[k] = "active"
  BY <1>1, <1>2 DEF StateOf, InForce
<1>4. Open = {} => (env \in Helper => client'[env] = "active")
  BY <1>1 DEF RecordsInv, Settled
<1>5. \A k \in Helper : journal[k] \in Undone => client'[k] # "active" \/ k \in stray'
  BY <1>1, <1>2 DEF StateOf
<1> QED BY <1>3, <1>4, <1>5, ClientsMove

LEMMA CandidateRevoked ==
  ASSUME RecordsInv, client \in [Helper -> {"none", "active", "revoked"}],
         NEW g \in Helper, journal[g] \in Undoable \cup {"rollback_cleanup_pending"},
         client' = RevokedClient(g), UNCHANGED <<files, records, late, stray, qa, proof>>
  PROVE  RecordsInv'
<1>1. \A k \in Helper : client'[k] = client[k] \/ (k = g /\ client'[k] = "revoked")
  BY DEF RevokedClient
<1>2. \A k \in Helper : StateOf(k) /\ SnapshotOf(k)
  BY DEF RecordsInv
<1>3. Open = {g} /\ \A k \in Helper \ {g} : journal[k] \notin Pending
  BY OpenIsAlone DEF RecordsInv
<1>4. saved[g].env # g /\ (saved[g].env \in Helper => client[saved[g].env] = "active")
  BY <1>2 DEF StateOf, SnapshotOf, Undoable
<1>5. \A k \in Helper : journal[k] \in Undoable \cup {"rollback_cleanup_pending"} =>
        (saved[k].env \in Helper => client'[saved[k].env] = "active")
  BY <1>1, <1>3, <1>4 DEF Pending
<1>6. \A k \in Helper : journal[k] \notin {"committed", "reconcile_pending"}
  BY <1>3 DEF Pending, Undoable
<1>7. \A k \in Helper : journal[k] \in Undone => client'[k] # "active" \/ k \in stray
  BY <1>1, <1>2 DEF StateOf
<1> QED BY <1>3, <1>5, <1>6, <1>7, ClientsMove

(* revoke_previous_clients, for some or all of them *)
LEMMA PreviousRevoked ==
  ASSUME RecordsInv, NEW g \in Helper, journal[g] \in Committed, InForce(g),
         \A k \in Helper \ {g} : journal[k] \notin Pending,
         NEW revoked \in SUBSET Previous(g),
         client' = [c \in Helper |-> IF c \in revoked THEN "revoked" ELSE client[c]],
         UNCHANGED <<files, records, late, stray, qa, proof>>
  PROVE  RecordsInv'
<1>1. \A k \in Helper : client'[k] = client[k] \/ (k # g /\ client'[k] = "revoked")
  BY DEF Previous
<1>2. client'[g] = "active" /\ env = g
  BY <1>1 DEF InForce
<1>3. \A k \in Helper : StateOf(k)
  BY DEF RecordsInv
<1>4. \A k \in Helper : journal[k] \notin Undoable \cup {"rollback_cleanup_pending"}
  BY DEF Pending, Committed, Undoable
<1>5. \A k \in Helper : journal[k] \in {"committed", "reconcile_pending"} => client'[k] = "active"
  BY <1>2 DEF Pending
<1>6. \A k \in Helper : journal[k] \in Undone => client'[k] # "active" \/ k \in stray
  BY <1>1, <1>3 DEF StateOf
<1> QED BY <1>2, <1>4, <1>5, <1>6, ClientsMove

(* A run is passed once and for all. *)
LEMMA RunsMove ==
  ASSUME RecordsInv, UNCHANGED <<files, records, client, late, stray>>,
         \A r \in Run : qa[r] = "passed" => qa'[r] = "passed" /\ proof'[r] = proof[r],
         \A r \in Run : qa'[r] = "passed" /\ qa[r] # "passed" =>
           proof'[r] \in Helper /\ journal[proof'[r]] \in Committed /\ receipt[proof'[r]] = r
  PROVE  RecordsInv'
<1>1. UNCHANGED <<env, config, loaded, backup, saved, journal, receipt, retired, client, late, stray>>
  BY DEF files, records
<1>2. ASSUME NEW k \in Helper PROVE (BackupOf(k) /\ SnapshotOf(k) /\ StateOf(k))'
  <2>1. BackupOf(k) /\ SnapshotOf(k) /\ StateOf(k)
    BY DEF RecordsInv
  <2>2. (BackupOf(k) /\ SnapshotOf(k))'
    BY <1>1, <2>1 DEF BackupOf, SnapshotOf
  <2>3. journal[k] = "reconciled" => qa'[receipt[k]] = "passed" /\ proof'[receipt[k]] = k
    BY <2>1 DEF StateOf
  <2>4. StateOf(k)'
    BY <1>1, <2>1, <2>3 DEF StateOf, Restored, OnDisk, RunsWhatIsWritten, InForce
  <2> QED BY <2>2, <2>4
<1>3. OneIsPending' /\ OneGenerationPerRun'
  BY <1>1 DEF RecordsInv, OneIsPending, OneGenerationPerRun
<1>4. \A r \in Run : RunOf(r)'
  BY <1>1 DEF RecordsInv, RunOf
<1>5. Settled'
  BY <1>1 DEF RecordsInv, Settled, Open, RunsWhatIsWritten, OnDisk
<1> QED BY <1>1, <1>2, <1>3, <1>4, <1>5 DEF RecordsInv

LEMMA ReceiptMoves ==
  ASSUME RecordsInv, NEW g \in Helper, journal[g] \in Undoable,
         \A k \in Helper \ {g} : receipt'[k] = receipt[k],
         UNCHANGED <<files, backup, saved, journal, retired, gateway>>
  PROVE  RecordsInv'
<1>1. UNCHANGED <<env, config, loaded, backup, saved, journal, retired, client, late, stray, qa, proof>>
  BY DEF files, gateway
<1>2. journal[g] \notin Committed
  BY DEF Undoable, Committed
<1>3. ASSUME NEW k \in Helper PROVE (BackupOf(k) /\ SnapshotOf(k) /\ StateOf(k))'
  <2>1. BackupOf(k) /\ SnapshotOf(k) /\ StateOf(k)
    BY DEF RecordsInv
  <2>2. journal[k] \in Committed => receipt'[k] = receipt[k]
    BY <1>2
  <2>3. StateOf(k)'
    BY <1>1, <2>1, <2>2 DEF StateOf, Restored, OnDisk, RunsWhatIsWritten, InForce, Committed
  <2> QED BY <1>1, <2>1, <2>3 DEF BackupOf, SnapshotOf
<1>4. OneIsPending'
  BY <1>1 DEF RecordsInv, OneIsPending
<1>5. OneGenerationPerRun'
  BY <1>1, <1>2 DEF RecordsInv, OneGenerationPerRun
<1>6. \A r \in Run : RunOf(r)'
  BY <1>1, <1>2 DEF RecordsInv, RunOf
<1>7. Settled'
  BY <1>1 DEF RecordsInv, Settled, Open, RunsWhatIsWritten, OnDisk
<1> QED BY <1>1, <1>3, <1>4, <1>5, <1>6, <1>7 DEF RecordsInv

(* Only the backup of a reconciled generation is retired and removed. *)
LEMMA BackupsMove ==
  ASSUME RecordsInv, UNCHANGED <<files, saved, journal, receipt, gateway>>,
         \A g \in Helper : g \in retired' => journal[g] = "reconciled",
         \A g \in Helper : backup'[g] = backup[g] \/ journal[g] = "reconciled"
  PROVE  RecordsInv'
<1>1. UNCHANGED <<env, config, loaded, saved, journal, receipt, client, late, stray, qa, proof>>
  BY DEF files, gateway
<1>2. ASSUME NEW k \in Helper PROVE (BackupOf(k) /\ SnapshotOf(k) /\ StateOf(k))'
  <2>1. BackupOf(k) /\ SnapshotOf(k) /\ StateOf(k)
    BY DEF RecordsInv
  <2>2. BackupOf(k)'
    BY <1>1, <2>1 DEF BackupOf, Pending, Undoable
  <2>3. (SnapshotOf(k) /\ StateOf(k))'
    BY <1>1, <2>1 DEF SnapshotOf, StateOf, Restored, OnDisk, RunsWhatIsWritten, InForce
  <2> QED BY <2>2, <2>3
<1>3. OneIsPending' /\ OneGenerationPerRun' /\ \A r \in Run : RunOf(r)'
  BY <1>1 DEF RecordsInv, OneIsPending, OneGenerationPerRun, RunOf
<1>4. Settled'
  BY <1>1 DEF RecordsInv, Settled, Open, RunsWhatIsWritten, OnDisk
<1> QED BY <1>1, <1>2, <1>3, <1>4 DEF RecordsInv

-----------------------------------------------------------------------------
(* What a helper may rely on where it goes next *)

DataTyped ==
  /\ env \in Helper \cup {Original} /\ config \in {"direct", "gateway"}
  /\ loaded \in [env : Helper \cup {Original}, config : {"direct", "gateway", "stopped"}]
  /\ backup \in [Helper -> {"none", "whole", "partial", "gone"}]
  /\ saved \in [Helper -> [env : Helper \cup {Original}, config : {"direct", "gateway"}]]
  /\ journal \in [Helper -> {"none"} \cup Pending \cup Committed \cup Undone]
  /\ receipt \in [Helper -> Run \cup {NoRun}] /\ retired \subseteq Helper
  /\ client \in [Helper -> {"none", "active", "revoked"}]
  /\ late \subseteq Helper /\ stray \subseteq Helper
  /\ qa \in [Run -> {"absent", "running", "passed", "failed"}]
  /\ proof \in [Run -> Helper \cup {NoHelper}]

LEMMA TypeParts ==
  TypeOK <=> /\ DataTyped
             /\ helper \in [Helper -> HelperRecord] /\ lock \in Helper \cup {NoHelper}
BY DEF TypeOK, DataTyped, HelperRecord

LEMMA TypePartsAfter ==
  ASSUME DataTyped', helper' \in [Helper -> HelperRecord], lock' \in Helper \cup {NoHelper}
  PROVE  TypeOK'
BY DEF TypeOK, DataTyped, HelperRecord

FreshKept(h) == \A k \in Helper \ {h} : Fresh(k) => Fresh(k)'

LEMMA Assemble ==
  ASSUME CutoverInv, NEW h \in Helper, helper[h].pc \notin Unlocked,
         NEW pc, NEW g, MovesTo(h, pc, g), DataTyped', RecordsInv', FreshKept(h),
         \/ pc \notin Unlocked /\ lock' = lock
         \/ pc = "done" /\ lock' = IF lock = h THEN NoHelper ELSE lock,
         HelperInv(h)'
  PROVE  CutoverInv'
<1>1. LockInv /\ lock \in Helper \cup {NoHelper} /\ \A k \in Helper : HelperInv(k)
  BY TypeParts DEF CutoverInv
<1>2. LockInv'
  BY <1>1, LockIsKept, LockIsReleased
<1>3. TypeOK'
  BY <1>1, TypePartsAfter DEF MovesTo
<1>4. \A k \in Helper \ {h} : HelperInv(k)'
  BY <1>1, OthersKeep DEF FreshKept
<1> QED BY <1>2, <1>3, <1>4 DEF CutoverInv

LEMMA DoneReached ==
  ASSUME NEW h \in Helper, MovesTo(h, "done", NoHelper), helper'[h].step = 1
  PROVE  HelperInv(h)'
BY DEF HelperInv, Owner, Cut, RolledBack, Reconciled, MovesTo,
       Cutting, RollingBack, CleaningUp, Reconciling

LEMMA RollbackReached ==
  ASSUME NEW h \in Helper, NEW pc \in RollingBack \cup CleaningUp, NEW g \in Helper,
         MovesTo(h, pc, g), helper'[h].step = 1,
         g = h => helper'[h].run \in Run, g # h => Fresh(h)' /\ pc # "marking",
         RolledBack(h)'
  PROVE  HelperInv(h)'
<1>1. helper'[h].pc = pc /\ helper'[h].gen = g
  BY DEF MovesTo
<1>2. Owner(h)'
  BY <1>1 DEF Owner, Own, Current, Cutting, RollingBack, CleaningUp
<1>3. Cut(h)' /\ Reconciled(h)'
  BY <1>1 DEF Cut, Reconciled, Cutting, RollingBack, CleaningUp, Reconciling
<1> QED BY <1>2, <1>3 DEF HelperInv

LEMMA ReconcileReached ==
  ASSUME NEW h \in Helper, NEW pc \in Reconciling, NEW g \in Helper,
         MovesTo(h, pc, g), helper'[h].step = 1,
         g = h => helper'[h].run \in Run, g # h => Fresh(h)' /\ pc # "postponing",
         Reconciled(h)'
  PROVE  HelperInv(h)'
<1>1. helper'[h].pc = pc /\ helper'[h].gen = g
  BY DEF MovesTo
<1>2. Owner(h)'
  BY <1>1 DEF Owner, Own, Current, Cutting, Reconciling
<1>3. Cut(h)' /\ RolledBack(h)'
  BY <1>1 DEF Cut, RolledBack, Cutting, RollingBack, CleaningUp, Reconciling
<1> QED BY <1>2, <1>3 DEF HelperInv

LEMMA ReportReached ==
  ASSUME NEW h \in Helper, MovesTo(h, "reporting", h), helper'[h].step = 1, helper'[h].run \in Run
  PROVE  HelperInv(h)'
BY DEF HelperInv, Owner, Own, Current, Cut, RolledBack, Reconciled, MovesTo,
       Cutting, RollingBack, CleaningUp, Reconciling

LEMMA RecoveryReached ==
  ASSUME NEW h \in Helper, NEW g, g # h, MovesTo(h, "recovering", g), helper'[h].step = 1, Fresh(h)'
  PROVE  HelperInv(h)'
BY DEF HelperInv, Owner, Own, Current, Cut, RolledBack, Reconciled, MovesTo,
       Cutting, RollingBack, CleaningUp, Reconciling

LEMMA ApplyReached ==
  ASSUME NEW h \in Helper, MovesTo(h, "applying", h), helper'[h].run \in Run,
         Uncommitted(helper[h].run)', helper'[h].step # 1, Applied(h)'
  PROVE  HelperInv(h)'
BY DEF HelperInv, Owner, Own, Current, Cut, RolledBack, Reconciled, MovesTo,
       Cutting, RollingBack, CleaningUp, Reconciling

LEMMA RetirementReached ==
  ASSUME NEW h \in Helper, NEW g \in Helper, MovesTo(h, "retiring", g), helper'[h].step = 1
  PROVE  HelperInv(h)'
BY DEF HelperInv, Owner, Own, Current, Cut, RolledBack, Reconciled, MovesTo,
       Cutting, RollingBack, CleaningUp, Reconciling

-----------------------------------------------------------------------------
(* The ways out of a step *)

LEMMA ExitKeeps ==
  ASSUME CutoverInv, NEW h \in Helper, helper[h].pc \notin Unlocked, Exit(h),
         DataTyped', RecordsInv', FreshKept(h)
  PROVE  CutoverInv'
<1>1. TypeOK
  BY DEF CutoverInv
<1>2. /\ MovesTo(h, "done", NoHelper) /\ helper'[h].step = 1
      /\ lock' = IF lock = h THEN NoHelper ELSE lock
  BY <1>1, ExitMoves
<1> QED BY <1>2, DoneReached, Assemble

LEMMA ReportKeeps ==
  ASSUME CutoverInv, NEW h \in Helper, helper[h].pc \notin Unlocked \cup {"retiring"}, Own(h),
         helper[h].step = 1, Goto(h, "reporting"), DataTyped', RecordsInv', FreshKept(h)
  PROVE  CutoverInv'
<1>1. TypeOK /\ helper[h].run \in Run
  BY DEF CutoverInv, HelperInv, Owner, Unlocked
<1>2. /\ MovesTo(h, "reporting", h) /\ helper'[h].step = 1 /\ helper'[h].run \in Run
      /\ lock' = lock
  BY <1>1, GotoMoves DEF Keeps, Own, Place
<1>3. "reporting" \notin Unlocked
  BY DEF Unlocked
<1> QED BY <1>2, <1>3, ReportReached, Assemble

LEMMA UndoKeeps ==
  ASSUME CutoverInv, NEW h \in Helper, helper[h].pc = "applying", journal'[h] \in Undoable,
         Undo(h), DataTyped', RecordsInv', FreshKept(h)
  PROVE  CutoverInv'
<1>1. TypeOK /\ helper[h].run \in Run /\ helper[h].gen = h
  BY DEF CutoverInv, HelperInv, Owner, Own, Cutting
<1>2. /\ MovesTo(h, "stopping", h) /\ helper'[h].step = 1 /\ helper'[h].run \in Run
      /\ lock' = lock
  BY <1>1, UndoMoves DEF Keeps
<1>3. "stopping" \notin Unlocked /\ "applying" \notin Unlocked /\ "stopping" \in RollingBack
  BY DEF Unlocked, RollingBack
<1>4. RolledBack(h)'
  BY <1>2 DEF MovesTo, RolledBack, CleaningUp, Current
<1> QED BY <1>2, <1>3, <1>4, RollbackReached, Assemble

(* The next step of the script *)
LEMMA OnwardsKeeps ==
  ASSUME CutoverInv, NEW h \in Helper, helper[h].pc = "applying", helper[h].step \in 1 .. 19,
         Onwards(h), Applied(h)', Uncommitted(helper[h].run)',
         DataTyped', RecordsInv', FreshKept(h)
  PROVE  CutoverInv'
<1>1. TypeOK /\ helper[h].run \in Run /\ helper[h].gen = h
  BY DEF CutoverInv, HelperInv, Owner, Own, Cutting
<1>2. /\ MovesTo(h, "applying", h) /\ helper'[h].step # 1 /\ helper'[h].run \in Run
      /\ lock' = lock
  BY <1>1, OnwardsMoves DEF Keeps
<1>3. "applying" \notin Unlocked
  BY DEF Unlocked
<1> QED BY <1>2, <1>3, ApplyReached, Assemble

LEMMA GiveUpKeeps ==
  ASSUME CutoverInv, NEW h \in Helper, helper[h].pc \in RollingBack \cup CleaningUp, GiveUp(h),
         DataTyped', RecordsInv', FreshKept(h)
  PROVE  CutoverInv'
<1>1. helper[h].step = 1 /\ helper[h].pc \notin Unlocked \cup {"retiring"}
  BY DEF CutoverInv, HelperInv, Cut, RollingBack, CleaningUp, Unlocked
<1>2. CASE Own(h)
  BY <1>1, <1>2, ReportKeeps DEF GiveUp
<1>3. CASE ~Own(h)
  BY <1>1, <1>3, ExitKeeps DEF GiveUp
<1> QED BY <1>2, <1>3

LEMMA RollbackGoesOn ==
  ASSUME CutoverInv, NEW h \in Helper, helper[h].pc \in RollingBack \cup CleaningUp,
         NEW pc \in RollingBack \cup CleaningUp, Goto(h, pc), pc = "marking" => Own(h),
         RolledBack(h)', DataTyped', RecordsInv', FreshKept(Current(h))
  PROVE  CutoverInv'
<1>1. /\ TypeOK /\ helper[h].step = 1 /\ helper[h].pc \notin Unlocked /\ pc \notin Unlocked
      /\ Current(h) \in Helper
      /\ Own(h) => helper[h].run \in Run
      /\ ~Own(h) => Fresh(h)
  BY DEF CutoverInv, HelperInv, Owner, Cut, RollingBack, CleaningUp, Unlocked
<1>2. pc \in Place
  BY DEF RollingBack, CleaningUp, Place
<1>3. /\ MovesTo(h, pc, Current(h)) /\ lock' = lock /\ helper'[h].step = 1
      /\ helper'[h].run = helper[h].run
  BY <1>1, <1>2, GotoMoves DEF Keeps, Current
<1>4. FreshKept(h)
  <2> SUFFICES ASSUME NEW k \in Helper \ {h}, Fresh(k) PROVE Fresh(k)'
    BY DEF FreshKept
  <2>1. CASE k # Current(h)
    BY <2>1 DEF FreshKept
  <2>2. CASE k = Current(h)
    <3>1. journal[k] # "none"
      BY <2>2 DEF CutoverInv, HelperInv, RolledBack, Undoable, RollingBack, CleaningUp
    <3> QED BY <3>1 DEF Fresh
  <2> QED BY <2>1, <2>2
<1>5. Current(h) # h => Fresh(h)' /\ pc # "marking"
  BY <1>1 DEF FreshKept, Own, Current
<1>6. Current(h) = h => helper'[h].run \in Run
  BY <1>1, <1>3 DEF Own, Current
<1>7. HelperInv(h)'
  BY <1>1, <1>3, <1>5, <1>6, RollbackReached
<1> QED BY <1>1, <1>3, <1>4, <1>7, Assemble


LEMMA ReconcileGoesOn ==
  ASSUME CutoverInv, NEW h \in Helper, helper[h].pc \in Reconciling,
         NEW pc \in Reconciling, Goto(h, pc), pc = "postponing" => Own(h),
         Reconciled(h)', DataTyped', RecordsInv', FreshKept(Current(h))
  PROVE  CutoverInv'
<1>1. /\ TypeOK /\ helper[h].step = 1 /\ helper[h].pc \notin Unlocked /\ pc \notin Unlocked
      /\ Current(h) \in Helper
      /\ Own(h) => helper[h].run \in Run
      /\ ~Own(h) => Fresh(h)
  BY DEF CutoverInv, HelperInv, Owner, Cut, Reconciling, Unlocked
<1>2. pc \in Place
  BY DEF Reconciling, Place
<1>3. /\ MovesTo(h, pc, Current(h)) /\ lock' = lock /\ helper'[h].step = 1
      /\ helper'[h].run = helper[h].run
  BY <1>1, <1>2, GotoMoves DEF Keeps, Current
<1>4. FreshKept(h)
  <2> SUFFICES ASSUME NEW k \in Helper \ {h}, Fresh(k) PROVE Fresh(k)'
    BY DEF FreshKept
  <2>1. CASE k # Current(h)
    BY <2>1 DEF FreshKept
  <2>2. CASE k = Current(h)
    <3>1. journal[k] # "none"
      BY <2>2 DEF CutoverInv, HelperInv, Reconciled, Committed
    <3> QED BY <3>1 DEF Fresh
  <2> QED BY <2>1, <2>2
<1>5. Current(h) # h => Fresh(h)' /\ pc # "postponing"
  BY <1>1 DEF FreshKept, Own, Current
<1>6. Current(h) = h => helper'[h].run \in Run
  BY <1>1, <1>3 DEF Own, Current
<1>7. HelperInv(h)'
  BY <1>1, <1>3, <1>5, <1>6, ReconcileReached
<1> QED BY <1>1, <1>3, <1>4, <1>7, Assemble

LEMMA PostponeKeeps ==
  ASSUME CutoverInv, NEW h \in Helper, helper[h].pc \in Reconciling, Postpone(h),
         Own(h) => Reconciled(h)', DataTyped', RecordsInv', FreshKept(h)
  PROVE  CutoverInv'
<1>1. helper[h].pc \notin Unlocked /\ "postponing" \in Reconciling
  BY DEF Reconciling, Unlocked
<1>2. CASE Own(h)
  BY <1>1, <1>2, ReconcileGoesOn DEF Postpone, Own, Current
<1>3. CASE ~Own(h)
  BY <1>1, <1>3, ExitKeeps DEF Postpone
<1> QED BY <1>2, <1>3

-----------------------------------------------------------------------------
(* apply *)

LEMMA ApplyFacts ==
  ASSUME CutoverInv, NEW h \in Helper, helper[h].pc = "applying"
  PROVE  /\ helper[h].pc \notin Unlocked \cup {"retiring"}
         /\ Own(h) /\ Current(h) = h /\ helper[h].run \in Run
         /\ helper[h].step \in DOMAIN Script
         /\ TypeOK /\ DataTyped /\ RecordsInv /\ Uncommitted(helper[h].run)
         /\ helper[h].step = 1 => Fresh(h) /\ NothingPending
         /\ helper[h].step # 1 => Applied(h)
<1>1. TypeOK /\ RecordsInv /\ Owner(h) /\ Cut(h)
  BY DEF CutoverInv, HelperInv
<1>2. DataTyped /\ helper \in [Helper -> HelperRecord]
  BY <1>1, TypeParts
<1> QED BY <1>1, <1>2 DEF Owner, Cut, Own, Current, Cutting, Unlocked, HelperRecord

LEMMA FreshFrame ==
  ASSUME NEW h, UNCHANGED <<journal, client, late>>
  PROVE  FreshKept(h)
BY DEF FreshKept, Fresh

(* The gateway and the records as they are, or the journal of one's own     *)
(* generation on its way                                                    *)
LEMMA RunFrame ==
  ASSUME TypeOK, NEW h \in Helper, NEW pc, Keeps(h, pc), receipt' = receipt,
         Uncommitted(helper[h].run),
         \A k \in Helper : journal'[k] \in Committed => journal[k] \in Committed
  PROVE  Uncommitted(helper[h].run)'
BY DEF Keeps, Uncommitted

LEMMA SnapshotKeeps ==
  ASSUME CutoverInv, NEW h \in Helper, Snapshot(h)
  PROVE  CutoverInv'
<1> DEFINE publish ==
      /\ backup' = [backup EXCEPT ![h] = "whole"]
      /\ saved' = [saved EXCEPT ![h] = OnDisk]
      /\ Write(h, "client_operation_prepared")
<1>1. helper[h].pc = "applying" /\ Script[helper[h].step] = "snapshot"
  BY DEF Snapshot, Doing, At
<1>2. /\ TypeOK /\ DataTyped /\ RecordsInv /\ Own(h) /\ helper[h].run \in Run
      /\ helper[h].pc \notin Unlocked \cup {"retiring"}
      /\ helper[h].step = 1 /\ Fresh(h) /\ NothingPending /\ Uncommitted(helper[h].run)
  BY <1>1, ApplyFacts, StepOf
<1>3. UNCHANGED <<files, receipt, retired, gateway>>
  BY DEF Snapshot
<1>4. ASSUME publish
      PROVE  /\ RecordsInv' /\ DataTyped' /\ FreshKept(h) /\ journal'[h] \in Undoable
             /\ \A k \in Helper : journal'[k] \in Committed => journal[k] \in Committed
  <2>1. JournalIs(h, "client_operation_prepared")
    BY <1>2, <1>4 DEF JournalIs, Write, DataTyped
  <2>2. RecordsInv'
    BY <1>2, <1>3, <1>4, <2>1, SnapshotOpens
  <2>3. OnDisk \in [env : Helper \cup {Original}, config : {"direct", "gateway"}]
    BY <1>2 DEF OnDisk, DataTyped
  <2>4. DataTyped'
    <3>1. journal' \in [Helper -> {"none"} \cup Pending \cup Committed \cup Undone]
      BY <1>2, <1>4 DEF DataTyped, Write, Pending, Undoable
    <3>2. /\ backup' \in [Helper -> {"none", "whole", "partial", "gone"}]
          /\ saved' \in [Helper -> [env : Helper \cup {Original}, config : {"direct", "gateway"}]]
      BY <1>2, <1>4, <2>3 DEF DataTyped
    <3> QED BY <1>2, <1>3, <3>1, <3>2 DEF DataTyped, files, gateway
  <2>5. FreshKept(h)
    BY <1>3, <2>1 DEF FreshKept, Fresh, JournalIs, gateway
  <2> QED BY <2>1, <2>2, <2>4, <2>5 DEF JournalIs, Undoable, Committed
<1>5. CASE publish /\ Onwards(h)
  <2>1. Keeps(h, "applying") /\ helper'[h].step = 2
    BY <1>1, <1>2, <1>5, OnwardsMoves
  <2>2. Uncommitted(helper[h].run)'
    BY <1>2, <1>3, <1>4, <1>5, <2>1, RunFrame
  <2>3. Applied(h)'
    BY <1>4, <1>5, <2>1 DEF Applied
  <2> QED BY <1>1, <1>2, <1>4, <1>5, <2>2, <2>3, OnwardsKeeps
<1>6. CASE UNCHANGED <<backup, saved, journal>> /\ Goto(h, "reporting")
  <2>1. UNCHANGED <<files, records, gateway>>
    BY <1>3, <1>6 DEF records
  <2>2. RecordsInv' /\ DataTyped' /\ FreshKept(h)
    BY <1>2, <2>1, RecordsFrame, FreshFrame DEF files, records, gateway, DataTyped
  <2> QED BY <1>2, <1>6, <2>2, ReportKeeps
<1>7. CASE publish /\ Goto(h, "reporting")
  BY <1>2, <1>4, <1>7, ReportKeeps
<1> QED BY <1>5, <1>6, <1>7 DEF Snapshot

LEMMA ApplyFiles ==
  ASSUME CutoverInv, NEW h \in Helper, helper[h].pc = "applying", helper[h].step \in 2 .. 17,
         UNCHANGED <<records, gateway>>,
         env' \in Helper \cup {Original}, env' \in Helper => journal[env'] # "none",
         config' \in {"direct", "gateway"},
         loaded' \in [env : Helper \cup {Original}, config : {"direct", "gateway", "stopped"}],
         \/ Undo(h)
         \/ /\ Onwards(h)
            /\ helper[h].step >= 15 => env' = h
            /\ helper[h].step >= 16 => config' = "gateway"
  PROVE  CutoverInv'
<1>1. /\ TypeOK /\ DataTyped /\ RecordsInv /\ helper[h].run \in Run
      /\ journal[h] \in Undoable /\ Uncommitted(helper[h].run)
  BY ApplyFacts DEF Applied
<1>2. RecordsInv'
  BY <1>1, FilesMove
<1>3. UNCHANGED <<backup, saved, journal, receipt, retired, client, late, stray, qa, proof>>
  BY DEF records, gateway
<1>4. DataTyped' /\ FreshKept(h)
  BY <1>1, <1>3, FreshFrame DEF DataTyped
<1>5. CASE Undo(h)
  BY <1>1, <1>2, <1>3, <1>4, <1>5, UndoKeeps
<1>6. CASE /\ Onwards(h)
           /\ helper[h].step >= 15 => env' = h
           /\ helper[h].step >= 16 => config' = "gateway"
  <2>1. helper[h].step \in 1 .. 19
    OBVIOUS
  <2>2. Keeps(h, "applying") /\ helper'[h].step = helper[h].step + 1
    BY <1>1, <1>6, <2>1, OnwardsMoves
  <2>3. Uncommitted(helper[h].run)'
    BY <1>1, <1>3, <2>2, RunFrame
  <2>4. Applied(h)'
    BY <1>1, <1>3, <1>6, <2>2 DEF Applied
  <2> QED BY <1>2, <1>4, <1>6, <2>1, <2>3, <2>4, OnwardsKeeps
<1> QED BY <1>5, <1>6


LEMMA FilesKeep ==
  ASSUME CutoverInv, NEW h \in Helper, StopContainer(h) \/ WriteEnv(h) \/ WriteConfig(h) \/ StartContainer(h)
  PROVE  CutoverInv'
<1>1. /\ helper[h].pc = "applying"
      /\ Script[helper[h].step] \in {"stop", "env", "old_env", "config", "old_config", "start"}
      /\ UNCHANGED <<records, gateway>>
  BY DEF StopContainer, WriteEnv, WriteConfig, StartContainer, Doing, At
<1>2. /\ DataTyped /\ RecordsInv /\ Applied(h) /\ helper[h].step \in DOMAIN Script
      /\ helper[h].step \in 2 .. 17
  BY <1>1, ApplyFacts, StepOf
<1>3. /\ env \in Helper \cup {Original} /\ saved[h].env \in Helper \cup {Original}
      /\ config \in {"direct", "gateway"} /\ saved[h].config \in {"direct", "gateway"}
      /\ loaded \in [env : Helper \cup {Original}, config : {"direct", "gateway", "stopped"}]
  BY <1>2 DEF DataTyped
<1>4. /\ Stopped \in [env : Helper \cup {Original}, config : {"direct", "gateway", "stopped"}]
      /\ OnDisk \in [env : Helper \cup {Original}, config : {"direct", "gateway", "stopped"}]
  BY <1>3 DEF Stopped, OnDisk
<1>5. /\ journal[h] # "none"
      /\ env \in Helper => journal[env] # "none"
      /\ saved[h].env \in Helper => journal[saved[h].env] # "none"
  BY <1>2 DEF Applied, Undoable, RecordsInv, SnapshotOf
<1>6. CASE StopContainer(h)
  <2>1. /\ env' = env /\ config' = config /\ loaded' \in {loaded, Stopped}
        /\ Onwards(h) \/ Undo(h)
    BY <1>6 DEF StopContainer, Attempted
  <2>2. helper[h].step >= 16 => FALSE
    BY <1>2, <1>6, StepOf DEF StopContainer, Doing
  <2>3. helper[h].step >= 15 => FALSE
    BY <1>2, <1>6, StepOf DEF StopContainer, Doing
  <2> QED BY <1>1, <1>2, <1>3, <1>4, <1>5, <2>1, <2>2, <2>3, ApplyFiles
<1>7. CASE WriteEnv(h)
  <2>1. /\ config' = config /\ loaded' = loaded
        /\ \/ Undo(h) /\ env' \in {env, h, saved[h].env}
           \/ Onwards(h) /\ Doing(h, "env") /\ env' = h
           \/ Onwards(h) /\ Doing(h, "old_env") /\ env' = saved[h].env
    BY <1>7 DEF WriteEnv, Attempted
  <2>2. /\ Doing(h, "env") => helper[h].step < 16
        /\ Doing(h, "old_env") => helper[h].step < 15
    BY <1>2, StepOf DEF Doing
  <2> QED BY <1>1, <1>2, <1>3, <1>5, <2>1, <2>2, ApplyFiles
<1>8. CASE WriteConfig(h)
  <2>1. /\ env' = env /\ loaded' = loaded
        /\ \/ Undo(h) /\ config' \in {config, "gateway", saved[h].config}
           \/ Onwards(h) /\ Doing(h, "config") /\ config' = "gateway"
           \/ Onwards(h) /\ Doing(h, "old_config") /\ config' = saved[h].config
    BY <1>8 DEF WriteConfig, Attempted
  <2>2. Doing(h, "old_config") => helper[h].step < 15
    BY <1>2, StepOf DEF Doing
  <2>3. /\ Doing(h, "config") => helper[h].step \in {6, 16}
        /\ helper[h].step = 16 => env = h
    BY <1>2, StepOf DEF Doing, Applied
  <2> QED BY <1>1, <1>2, <1>3, <1>5, <2>1, <2>2, <2>3, ApplyFiles
<1>9. CASE StartContainer(h)
  <2>1. /\ env' = env /\ config' = config /\ loaded' \in {loaded, OnDisk}
        /\ Onwards(h) \/ Undo(h)
    BY <1>9 DEF StartContainer, Attempted, Started
  <2>2. /\ helper[h].step \in {8, 13, 17}
        /\ helper[h].step = 17 => env = h /\ config = "gateway"
    BY <1>2, <1>9, StepOf DEF StartContainer, Doing, Applied
  <2> QED BY <1>1, <1>2, <1>3, <1>4, <1>5, <2>1, <2>2, ApplyFiles
<1> QED BY <1>6, <1>7, <1>8, <1>9

LEMMA JournalCandidateKeeps ==
  ASSUME CutoverInv, NEW h \in Helper, JournalCandidate(h)
  PROVE  CutoverInv'
<1>1. PICK state \in {"candidate_ready", "candidate_applied"} :
        /\ Doing(h, state)
        /\ Attempted(h, Write(h, state), UNCHANGED journal, "sync")
  BY DEF JournalCandidate
<1>2. helper[h].pc = "applying" /\ Script[helper[h].step] = state
  BY <1>1 DEF Doing, At
<1>3. /\ TypeOK /\ DataTyped /\ RecordsInv /\ Applied(h) /\ helper[h].step \in {3, 7}
      /\ journal[h] \in Undoable /\ Uncommitted(helper[h].run)
  BY <1>2, ApplyFacts, StepOf DEF Applied
<1>4. UNCHANGED <<files, backup, saved, receipt, retired, gateway>>
  BY DEF JournalCandidate
<1>5. PICK next \in Undoable : JournalIs(h, next) /\ journal' = [journal EXCEPT ![h] = next]
  <2>1. CASE Write(h, state)
    BY <1>3, <2>1 DEF Write, JournalIs, DataTyped, Undoable
  <2>2. CASE UNCHANGED journal
    BY <1>3, <2>2 DEF JournalIs, DataTyped
  <2> QED BY <1>1, <2>1, <2>2 DEF Attempted
<1>6. RecordsInv'
  BY <1>3, <1>4, <1>5, JournalStaysOpen DEF Undoable
<1>7. FreshKept(h)
  BY <1>4, <1>5 DEF FreshKept, Fresh, JournalIs, gateway
<1>8. DataTyped'
  <2>1. journal' \in [Helper -> {"none"} \cup Pending \cup Committed \cup Undone]
    BY <1>3, <1>5 DEF DataTyped, Pending
  <2> QED BY <1>3, <1>4, <2>1 DEF DataTyped, files, gateway
<1>9. journal'[h] \in Undoable /\ \A k \in Helper : journal'[k] \in Committed => journal[k] \in Committed
  BY <1>5 DEF JournalIs, Undoable, Committed
<1>10. CASE Undo(h)
  BY <1>2, <1>6, <1>7, <1>8, <1>9, <1>10, UndoKeeps
<1>11. CASE Onwards(h)
  <2>1. Keeps(h, "applying") /\ helper'[h].step = helper[h].step + 1
    BY <1>2, <1>3, <1>11, OnwardsMoves
  <2>2. Uncommitted(helper[h].run)'
    BY <1>3, <1>4, <1>9, <2>1, RunFrame
  <2>3. Applied(h)'
    BY <1>3, <1>9, <2>1 DEF Applied
  <2> QED BY <1>2, <1>3, <1>6, <1>7, <1>8, <1>11, <2>2, <2>3, OnwardsKeeps
<1> QED BY <1>1, <1>10, <1>11 DEF Attempted

LEMMA IssueClientKeeps ==
  ASSUME CutoverInv, NEW h \in Helper, IssueClient(h)
  PROVE  CutoverInv'
<1>1. helper[h].pc = "applying" /\ Script[helper[h].step] = "issue"
  BY DEF IssueClient, Doing, At
<1>2. /\ TypeOK /\ DataTyped /\ RecordsInv /\ Applied(h) /\ helper[h].step = 2
      /\ journal[h] \in Undoable /\ Uncommitted(helper[h].run)
      /\ helper \in [Helper -> HelperRecord] /\ helper[h].gen = h /\ helper[h].run \in Run
      /\ helper[h].pc \notin Unlocked
  BY <1>1, ApplyFacts, StepOf, TypeParts DEF Applied, Own
<1>3. UNCHANGED <<files, records, stray, qa, proof>>
  BY DEF IssueClient
<1>4. \/ client' = [client EXCEPT ![h] = "active"] /\ UNCHANGED late
      \/ UNCHANGED client /\ late' \in {late, late \cup {h}}
  BY DEF IssueClient
<1>5. RecordsInv'
  <2>1. CASE client' = [client EXCEPT ![h] = "active"]
    <3>1. client \in [Helper -> {"none", "active", "revoked"}] /\ journal[h] \notin Undone
      BY <1>2 DEF DataTyped, Undoable, Undone
    <3> QED BY <1>2, <1>3, <2>1, <3>1, ClientGained
  <2>2. CASE UNCHANGED client
    <3>1. \A k \in Helper : StateOf(k)
      BY <1>2 DEF RecordsInv
    <3> QED BY <1>2, <1>3, <2>2, <3>1, ClientsMove DEF StateOf, InForce, RecordsInv, Settled
  <2> QED BY <1>4, <2>1, <2>2
<1>6. FreshKept(h)
  BY <1>2, <1>3, <1>4 DEF FreshKept, Fresh, records, DataTyped
<1>7. DataTyped'
  <2>1. client' \in [Helper -> {"none", "active", "revoked"}] /\ late' \subseteq Helper
    BY <1>2, <1>4 DEF DataTyped
  <2> QED BY <1>2, <1>3, <2>1 DEF DataTyped, files, records
<1>8. journal' = journal /\ receipt' = receipt
  BY <1>3 DEF records
<1>9. CASE Undo(h)
  BY <1>1, <1>2, <1>5, <1>6, <1>7, <1>8, <1>9, UndoKeeps
<1>10. CASE /\ helper' = [helper EXCEPT ![h].step = @ + 1, ![h].issued = TRUE]
            /\ UNCHANGED lock
  <2> DEFINE new == [helper[h] EXCEPT !.step = 3, !.issued = TRUE]
  <2>1. 3 \in DOMAIN Script
    BY ScriptSteps
  <2>2. /\ new \in HelperRecord /\ new.step = 3 /\ new.pc = "applying" /\ new.gen = h
        /\ new.run = helper[h].run
    BY <1>1, <1>2, <2>1 DEF HelperRecord
  <2>3. helper' = [helper EXCEPT ![h] = new]
    <3>1. helper[h].step + 1 = 3
      BY <1>2
    <3> QED BY <1>2, <1>10, <3>1
  <2> HIDE DEF new
  <2>4. MovesTo(h, "applying", h) /\ helper'[h].step = 3 /\ helper'[h].run = helper[h].run
    BY <1>2, <2>2, <2>3 DEF MovesTo
  <2>5. Applied(h)'
    BY <1>2, <1>8, <2>4 DEF Applied
  <2>6. Uncommitted(helper[h].run)'
    BY <1>2, <1>8, <2>4 DEF Uncommitted
  <2>7. HelperInv(h)'
    BY <1>2, <2>4, <2>5, <2>6, ApplyReached
  <2>8. "applying" \notin Unlocked
    BY DEF Unlocked
  <2> QED BY <1>2, <1>5, <1>6, <1>7, <1>10, <2>4, <2>7, <2>8, Assemble
<1> QED BY <1>9, <1>10 DEF IssueClient


LEMMA DataFrame ==
  ASSUME DataTyped, RecordsInv, NEW h, UNCHANGED <<files, records, gateway>>
  PROVE  DataTyped' /\ RecordsInv' /\ FreshKept(h)
<1>1. RecordsInv'
  BY RecordsFrame
<1>2. DataTyped' /\ FreshKept(h)
  BY FreshFrame DEF DataTyped, files, records, gateway
<1> QED BY <1>1, <1>2

LEMMA VerifyHermesKeeps ==
  ASSUME CutoverInv, NEW h \in Helper, VerifyHermes(h)
  PROVE  CutoverInv'
<1>1. helper[h].pc = "applying" /\ Script[helper[h].step] = "verify"
  BY DEF VerifyHermes, Doing, At
<1>2. /\ TypeOK /\ DataTyped /\ RecordsInv /\ Applied(h) /\ helper[h].step \in {9, 18}
      /\ journal[h] \in Undoable /\ Uncommitted(helper[h].run)
  BY <1>1, ApplyFacts, StepOf DEF Applied
<1>3. UNCHANGED <<files, records, gateway>>
  BY DEF VerifyHermes
<1>4. DataTyped' /\ RecordsInv' /\ FreshKept(h)
  BY <1>2, <1>3, DataFrame
<1>5. UNCHANGED <<env, config, loaded, journal, receipt, client>>
  BY <1>3 DEF files, records, gateway
<1>6. CASE Undo(h)
  BY <1>1, <1>2, <1>4, <1>5, <1>6, UndoKeeps
<1>7. CASE loaded = [env |-> h, config |-> "gateway"] /\ client[h] = "active" /\ Onwards(h)
  <2>1. Keeps(h, "applying") /\ helper'[h].step = helper[h].step + 1
    BY <1>1, <1>2, <1>7, OnwardsMoves
  <2>2. Uncommitted(helper[h].run)'
    BY <1>2, <1>5, <2>1, RunFrame
  <2>3. Applied(h)'
    BY <1>2, <1>5, <1>7, <2>1 DEF Applied
  <2> QED BY <1>1, <1>2, <1>4, <1>7, <2>2, <2>3, OnwardsKeeps
<1> QED BY <1>6, <1>7 DEF VerifyHermes

LEMMA WriteReceiptKeeps ==
  ASSUME CutoverInv, NEW h \in Helper, WriteReceipt(h)
  PROVE  CutoverInv'
<1>1. helper[h].pc = "applying" /\ Script[helper[h].step] = "receipt"
  BY DEF WriteReceipt, Doing, At
<1>2. /\ TypeOK /\ DataTyped /\ RecordsInv /\ Applied(h) /\ helper[h].step = 19
      /\ journal[h] \in Undoable /\ Uncommitted(helper[h].run) /\ helper[h].run \in Run
  BY <1>1, ApplyFacts, StepOf DEF Applied
<1>3. UNCHANGED <<files, backup, saved, journal, retired, gateway>>
  BY DEF WriteReceipt
<1>4. /\ receipt' \in [Helper -> Run \cup {NoRun}]
      /\ \A k \in Helper \ {h} : receipt'[k] = receipt[k]
      /\ Onwards(h) => receipt'[h] = helper[h].run
  <2>1. receipt' = receipt \/ receipt' = [receipt EXCEPT ![h] = helper[h].run]
    BY DEF WriteReceipt, Attempted
  <2>2. receipt \in [Helper -> Run \cup {NoRun}]
    BY <1>2 DEF DataTyped
  <2>3. Onwards(h) => ~Undo(h)
    <3>1. TypeOK /\ helper[h].step \in 1 .. 19
      BY <1>2
    <3>2. Onwards(h) => helper'[h].pc = "applying"
      BY <1>1, <3>1, OnwardsMoves DEF Keeps, MovesTo
    <3>3. Undo(h) => helper'[h].pc = "stopping"
      BY <3>1, UndoMoves DEF Keeps, MovesTo
    <3> QED BY <3>2, <3>3
  <2>4. Onwards(h) => receipt' = [receipt EXCEPT ![h] = helper[h].run]
    BY <2>3 DEF WriteReceipt, Attempted
  <2> QED BY <1>2, <2>1, <2>2, <2>4
<1>5. RecordsInv'
  BY <1>2, <1>3, <1>4, ReceiptMoves
<1>6. DataTyped' /\ FreshKept(h)
  BY <1>2, <1>3, <1>4, FreshFrame DEF DataTyped, files, gateway
<1>7. UNCHANGED <<env, config, loaded, journal, client>>
  BY <1>3 DEF files, gateway
<1>8. CASE Undo(h)
  BY <1>1, <1>2, <1>5, <1>6, <1>7, <1>8, UndoKeeps
<1>9. CASE Onwards(h)
  <2>1. Keeps(h, "applying") /\ helper'[h].step = 20
    BY <1>1, <1>2, <1>9, OnwardsMoves
  <2>2. journal[h] \notin Committed
    BY <1>2 DEF Undoable, Committed
  <2>3. Uncommitted(helper[h].run)'
    BY <1>2, <1>4, <1>7, <2>1, <2>2 DEF Uncommitted, Keeps
  <2>4. Applied(h)'
    BY <1>2, <1>4, <1>7, <1>9, <2>1 DEF Applied, Keeps
  <2> QED BY <1>1, <1>2, <1>5, <1>6, <1>9, <2>3, <2>4, OnwardsKeeps
<1> QED BY <1>8, <1>9 DEF WriteReceipt, Attempted

LEMMA CommitKeeps ==
  ASSUME CommitsAreDurable, CutoverInv, NEW h \in Helper, Commit(h)
  PROVE  CutoverInv'
<1>1. helper[h].pc = "applying" /\ Script[helper[h].step] = "commit"
  BY DEF Commit, Doing, At
<1>2. /\ TypeOK /\ DataTyped /\ RecordsInv /\ Applied(h) /\ helper[h].step = 20
      /\ journal[h] \in Undoable /\ Uncommitted(helper[h].run) /\ helper[h].run \in Run
      /\ helper[h].pc \notin Unlocked /\ helper[h].gen = h
  BY <1>1, ApplyFacts, StepOf DEF Applied, Own
<1>3. UNCHANGED <<files, backup, saved, receipt, retired, gateway>>
  BY DEF Commit
<1>4. CASE UNCHANGED journal /\ Undo(h)
  <2>1. DataTyped' /\ RecordsInv' /\ FreshKept(h)
    BY <1>2, <1>3, <1>4, DataFrame DEF records
  <2> QED BY <1>1, <1>2, <1>4, <2>1, UndoKeeps
<1>5. CASE Write(h, "committed") /\ Committing(h)
  <2>1. JournalIs(h, "committed")
    BY <1>2, <1>5 DEF JournalIs, Write, DataTyped
  <2>2. InForce(h) /\ config = "gateway" /\ loaded = OnDisk /\ receipt[h] = helper[h].run
    BY <1>2 DEF Applied, InForce, OnDisk
  <2>3. RecordsInv'
    BY <1>2, <1>3, <2>1, <2>2, JournalCommits
  <2>4. DataTyped'
    <3>1. journal' \in [Helper -> {"none"} \cup Pending \cup Committed \cup Undone]
      BY <1>2, <1>5 DEF DataTyped, Write, Committed
    <3> QED BY <1>2, <1>3, <3>1 DEF DataTyped, files, gateway
  <2>5. FreshKept(h)
    BY <1>3, <2>1 DEF FreshKept, Fresh, JournalIs, gateway
  <2>6. /\ MovesTo(h, "reconciling", h) /\ helper'[h].step = 1 /\ helper'[h].run \in Run
        /\ lock' = lock
    BY <1>2, <1>5, CommittingMoves DEF Keeps
  <2>7. Reconciled(h)'
    <3>1. /\ journal'[h] \in Committed
          /\ \A k \in Helper \ {h} : journal'[k] = journal[k] /\ journal[k] \notin Pending
      BY <1>2, <2>1, OpenIsAlone DEF JournalIs, Committed, RecordsInv
    <3>2. InForce(h)'
      BY <1>3, <2>2 DEF InForce, files, gateway
    <3>3. backup'[h] = "whole" /\ h \notin retired'
      BY <1>2, <1>3 DEF RecordsInv, BackupOf, Pending, Undoable
    <3> QED BY <2>6, <3>1, <3>2, <3>3 DEF Reconciled, MovesTo, Current
  <2>8. "reconciling" \in Reconciling /\ "reconciling" \notin Unlocked
    BY DEF Reconciling, Unlocked
  <2>9. HelperInv(h)'
    BY <2>6, <2>7, <2>8, ReconcileReached
  <2> QED BY <1>2, <2>3, <2>4, <2>5, <2>6, <2>8, <2>9, Assemble
<1> QED BY <1>4, <1>5 DEF Commit, CommitsAreDurable


-----------------------------------------------------------------------------
(* rollback_after_failure *)

LEMMA RollbackFacts ==
  ASSUME CutoverInv, NEW h \in Helper, helper[h].pc \in RollingBack \cup CleaningUp
  PROVE  /\ helper[h].pc \notin Unlocked \cup {"retiring"} /\ helper[h].step = 1
         /\ TypeOK /\ DataTyped /\ RecordsInv /\ RolledBack(h)
         /\ Current(h) \in Helper
         /\ journal[Current(h)] \in Undoable \cup {"rollback_cleanup_pending"}
         /\ journal[Current(h)] # "none"
         /\ helper[h].pc \in RollingBack => journal[Current(h)] \in Undoable
         /\ Own(h) => helper[h].run \in Run
         /\ ~Own(h) => Fresh(h)
BY TypeParts DEF CutoverInv, HelperInv, Owner, Cut, RolledBack, RollingBack, CleaningUp, Unlocked,
                 Undoable

LEMMA RollbackFiles ==
  ASSUME CutoverInv, NEW h \in Helper, helper[h].pc \in RollingBack,
         UNCHANGED <<records, gateway>>,
         env' \in {env, saved[Current(h)].env}, config' \in {config, saved[Current(h)].config},
         loaded' \in {loaded, Stopped, OnDisk}
  PROVE  DataTyped' /\ RecordsInv' /\ \A k : FreshKept(k)
<1> DEFINE g == Current(h)
<1>1. DataTyped /\ RecordsInv /\ g \in Helper /\ journal[g] \in Undoable
  BY RollbackFacts
<1>2. /\ env \in Helper \cup {Original} /\ saved[g].env \in Helper \cup {Original}
      /\ config \in {"direct", "gateway"} /\ saved[g].config \in {"direct", "gateway"}
      /\ loaded \in [env : Helper \cup {Original}, config : {"direct", "gateway", "stopped"}]
  BY <1>1 DEF DataTyped
<1>3. /\ Stopped \in [env : Helper \cup {Original}, config : {"direct", "gateway", "stopped"}]
      /\ OnDisk \in [env : Helper \cup {Original}, config : {"direct", "gateway", "stopped"}]
  BY <1>2 DEF Stopped, OnDisk
<1>4. /\ journal[g] # "none"
      /\ env \in Helper => journal[env] # "none"
      /\ saved[g].env \in Helper => journal[saved[g].env] # "none"
  BY <1>1 DEF Undoable, RecordsInv, SnapshotOf
<1>5. env' \in Helper => journal[env'] # "none"
  BY <1>4
<1>6. RecordsInv'
  BY <1>1, <1>5, FilesMove
<1>7. DataTyped'
  BY <1>1, <1>2, <1>3 DEF DataTyped, records, gateway
<1>8. \A k : FreshKept(k)
  BY FreshFrame DEF records, gateway
<1> QED BY <1>6, <1>7, <1>8

LEMMA StopForRollbackKeeps ==
  ASSUME CutoverInv, NEW h \in Helper, StopForRollback(h)
  PROVE  CutoverInv'
<1>1. /\ helper[h].pc = "stopping" /\ helper[h].pc \in RollingBack
      /\ "restoring_env" \in RollingBack \cup CleaningUp
  BY DEF StopForRollback, At, RollingBack
<1>2. DataTyped' /\ RecordsInv' /\ FreshKept(h) /\ FreshKept(Current(h))
  BY <1>1, RollbackFiles DEF StopForRollback
<1>3. TypeOK /\ journal[Current(h)] \in Undoable
  BY <1>1, RollbackFacts
<1>4. Goto(h, "restoring_env") /\ Keeps(h, "restoring_env")
  BY <1>3, GotoMoves DEF StopForRollback, Place
<1>5. RolledBack(h)'
  BY <1>3, <1>4 DEF RolledBack, StopForRollback, records, Keeps, MovesTo, Current, CleaningUp
<1> QED BY <1>1, <1>2, <1>4, <1>5, RollbackGoesOn

LEMMA RestoreEnvKeeps ==
  ASSUME CutoverInv, NEW h \in Helper, RestoreEnv(h)
  PROVE  CutoverInv'
<1>1. /\ helper[h].pc = "restoring_env" /\ helper[h].pc \in RollingBack
      /\ "restoring_config" \in RollingBack \cup CleaningUp
  BY DEF RestoreEnv, At, RollingBack
<1>2. DataTyped' /\ RecordsInv' /\ FreshKept(h) /\ FreshKept(Current(h))
  BY <1>1, RollbackFiles DEF RestoreEnv
<1>3. TypeOK /\ RolledBack(h) /\ journal[Current(h)] \in Undoable
  BY <1>1, RollbackFacts
<1>4. CASE GiveUp(h)
  BY <1>1, <1>2, <1>4, GiveUpKeeps
<1>5. CASE env' = saved[Current(h)].env /\ Goto(h, "restoring_config")
  <2>1. Keeps(h, "restoring_config")
    BY <1>3, <1>5, GotoMoves DEF Place
  <2>2. RolledBack(h)'
    BY <1>1, <1>3, <1>5, <2>1
       DEF RolledBack, RestoreEnv, records, Keeps, MovesTo, Current, CleaningUp
  <2> QED BY <1>1, <1>2, <1>5, <2>2, RollbackGoesOn
<1> QED BY <1>4, <1>5 DEF RestoreEnv

LEMMA RestoreConfigKeeps ==
  ASSUME CutoverInv, NEW h \in Helper, RestoreConfig(h)
  PROVE  CutoverInv'
<1>1. /\ helper[h].pc = "restoring_config" /\ helper[h].pc \in RollingBack
      /\ "restarting" \in RollingBack \cup CleaningUp
  BY DEF RestoreConfig, At, RollingBack
<1>2. DataTyped' /\ RecordsInv' /\ FreshKept(h) /\ FreshKept(Current(h))
  BY <1>1, RollbackFiles DEF RestoreConfig
<1>3. TypeOK /\ RolledBack(h) /\ journal[Current(h)] \in Undoable
  BY <1>1, RollbackFacts
<1>4. CASE GiveUp(h)
  BY <1>1, <1>2, <1>4, GiveUpKeeps
<1>5. CASE config' = saved[Current(h)].config /\ Goto(h, "restarting")
  <2>1. Keeps(h, "restarting")
    BY <1>3, <1>5, GotoMoves DEF Place
  <2>2. RolledBack(h)'
    BY <1>1, <1>3, <1>5, <2>1
       DEF RolledBack, RestoreConfig, records, Keeps, MovesTo, Current, CleaningUp
  <2> QED BY <1>1, <1>2, <1>5, <2>2, RollbackGoesOn
<1> QED BY <1>4, <1>5 DEF RestoreConfig

LEMMA RestartKeeps ==
  ASSUME CutoverInv, NEW h \in Helper, Restart(h)
  PROVE  CutoverInv'
<1> DEFINE g == Current(h)
<1>1. helper[h].pc = "restarting" /\ helper[h].pc \in RollingBack
  BY DEF Restart, At, RollingBack
<1>2. /\ UNCHANGED <<env, config, records, gateway>> /\ loaded' \in {loaded, Stopped, OnDisk}
      /\ (loaded' = Started /\ AfterRollback(h)) \/ GiveUp(h)
  BY DEF Restart, Started
<1>3. DataTyped' /\ RecordsInv' /\ FreshKept(h) /\ FreshKept(g)
  BY <1>1, <1>2, RollbackFiles
<1>4. /\ TypeOK /\ RolledBack(h) /\ journal[g] \in Undoable /\ g \in Helper /\ DataTyped
      /\ helper[h].step = 1 /\ helper[h].pc \notin Unlocked \cup {"retiring"}
  BY <1>1, RollbackFacts
<1>5. CASE GiveUp(h)
  BY <1>1, <1>3, <1>5, GiveUpKeeps
<1>6. ASSUME loaded' = Started PROVE OnDisk' = saved'[g] /\ RunsWhatIsWritten'
  <2>1. env = saved[g].env /\ config = saved[g].config /\ (May("stop") \/ loaded = Stopped)
    BY <1>1, <1>4 DEF RolledBack
  <2>2. saved[g] \in [env : Helper \cup {Original}, config : {"direct", "gateway"}]
    BY <1>4 DEF DataTyped
  <2>3. OnDisk = saved[g]
    BY <2>1, <2>2 DEF OnDisk
  <2>4. saved' = saved /\ OnDisk' = OnDisk /\ (loaded = Stopped => loaded' = OnDisk)
    BY <1>2, <1>6 DEF records, OnDisk, Started
  <2> QED BY <2>1, <2>3, <2>4 DEF RunsWhatIsWritten
<1>7. ASSUME NEW pc \in {"marking", "revoking"}, loaded' = Started, Goto(h, pc),
             pc = "marking" => Own(h)
      PROVE  CutoverInv'
  <2>1. pc \in Place /\ pc \in RollingBack \cup CleaningUp
    BY DEF Place, RollingBack, CleaningUp
  <2>2. Keeps(h, pc)
    BY <1>4, <1>7, <2>1, GotoMoves
  <2>3. /\ OnDisk' = saved'[g] /\ RunsWhatIsWritten' /\ journal' = journal
        /\ helper'[h].pc = pc /\ helper'[h].gen = g
    BY <1>2, <1>6, <1>7, <2>2 DEF Keeps, MovesTo, records, Current
  <2>4. RolledBack(h)'
    BY <1>4, <2>3 DEF RolledBack, Restored, Current, RollingBack, CleaningUp
  <2> QED BY <1>1, <1>3, <1>7, <2>1, <2>4, RollbackGoesOn
<1>8. CASE loaded' = Started /\ AfterRollback(h)
  <2>1. CASE Goto(h, "reporting") /\ Own(h)
    BY <1>3, <1>4, <2>1, ReportKeeps
  <2> QED BY <1>7, <1>8, <2>1 DEF AfterRollback
<1> QED BY <1>2, <1>5, <1>8

(* An entry of the journal of a generation that has one *)
LEMMA JournalMoves ==
  ASSUME DataTyped, NEW g \in Helper, journal[g] # "none",
         NEW state \in Pending \cup Committed \cup Undone, Write(g, state),
         UNCHANGED <<files, backup, saved, receipt, retired, gateway>>
  PROVE  JournalIs(g, state) /\ DataTyped' /\ \A k : FreshKept(k)
<1>1. JournalIs(g, state)
  BY DEF JournalIs, Write, DataTyped
<1>2. journal' \in [Helper -> {"none"} \cup Pending \cup Committed \cup Undone]
  BY DEF DataTyped, Write
<1>3. DataTyped'
  BY <1>2 DEF DataTyped, files, gateway
<1>4. \A k : FreshKept(k)
  BY <1>1 DEF FreshKept, Fresh, JournalIs, gateway
<1> QED BY <1>1, <1>3, <1>4

LEMMA RecoveryGoesOn ==
  ASSUME CutoverInv, NEW h \in Helper, helper[h].pc \in CleaningUp \cup Reconciling, ~Own(h),
         Goto(h, "recovering"), DataTyped', RecordsInv', FreshKept(h), FreshKept(Current(h))
  PROVE  CutoverInv'
<1>1. /\ TypeOK /\ helper[h].step = 1 /\ helper[h].pc \notin Unlocked /\ "recovering" \notin Unlocked
      /\ Fresh(h) /\ Current(h) # h
  BY DEF CutoverInv, HelperInv, Owner, Cut, CleaningUp, Reconciling, Unlocked, Own, Current
<1>2. /\ MovesTo(h, "recovering", Current(h)) /\ helper'[h].step = 1 /\ lock' = lock
  BY <1>1, GotoMoves DEF Keeps, Place, Current
<1>3. Fresh(h)'
  BY <1>1 DEF FreshKept
<1>4. HelperInv(h)'
  BY <1>1, <1>2, <1>3, RecoveryReached
<1> QED BY <1>1, <1>2, <1>4, Assemble

LEMMA MarkRolledBackKeeps ==
  ASSUME CutoverInv, NEW h \in Helper, MarkRolledBack(h)
  PROVE  CutoverInv'
<1>1. /\ helper[h].pc = "marking" /\ helper[h].pc \in RollingBack
      /\ "revoking" \in RollingBack \cup CleaningUp /\ "revoking" \in Place
  BY DEF MarkRolledBack, At, RollingBack, CleaningUp, Place
<1>2. Current(h) = h
  BY <1>1 DEF CutoverInv, HelperInv, Owner, Own, Current
<1>3. /\ TypeOK /\ DataTyped /\ RecordsInv /\ RolledBack(h) /\ journal[h] \in Undoable
      /\ journal[h] # "none"
  BY <1>1, <1>2, RollbackFacts
<1>4. Restored(h)
  BY <1>1, <1>2, <1>3 DEF RolledBack
<1>5. UNCHANGED <<files, backup, saved, receipt, retired, gateway>>
  BY DEF MarkRolledBack
<1>6. /\ DataTyped' /\ RecordsInv' /\ \A k : FreshKept(k)
      /\ journal'[h] \in Undoable \cup {"rollback_cleanup_pending"}
  <2>1. CASE UNCHANGED journal
    <3>1. UNCHANGED <<files, records, gateway>>
      BY <1>5, <2>1 DEF records
    <3>2. DataTyped' /\ RecordsInv' /\ \A k : FreshKept(k)
      BY <1>3, <3>1, DataFrame
    <3> QED BY <1>3, <2>1, <3>2
  <2>2. CASE Write(h, "rollback_cleanup_pending")
    <3>1. "rollback_cleanup_pending" \in Pending
      BY DEF Pending
    <3>2. JournalIs(h, "rollback_cleanup_pending") /\ DataTyped' /\ \A k : FreshKept(k)
      BY <1>3, <1>5, <2>2, <3>1, JournalMoves
    <3>3. RecordsInv'
      BY <1>3, <1>4, <1>5, <3>2, JournalStaysOpen
    <3> QED BY <3>2, <3>3 DEF JournalIs
  <2> QED BY <2>1, <2>2 DEF MarkRolledBack, TryToWrite
<1>7. Goto(h, "revoking") /\ Keeps(h, "revoking")
  BY <1>1, <1>3, GotoMoves DEF MarkRolledBack
<1>8. Restored(h)'
  BY <1>4, <1>5 DEF Restored, RunsWhatIsWritten, OnDisk, files
<1>9. RolledBack(h)'
  BY <1>2, <1>6, <1>7, <1>8 DEF RolledBack, Keeps, MovesTo, Current, RollingBack
<1> QED BY <1>1, <1>6, <1>7, <1>9, RollbackGoesOn

LEMMA RevokeCandidateKeeps ==
  ASSUME CutoverInv, NEW h \in Helper, RevokeCandidate(h)
  PROVE  CutoverInv'
<1> DEFINE g == Current(h)
<1>1. /\ helper[h].pc = "revoking" /\ helper[h].pc \in CleaningUp
      /\ "closing" \in CleaningUp /\ "closing" \in Place /\ "closing" # "marking"
  BY DEF RevokeCandidate, At, CleaningUp, Place
<1>2. /\ TypeOK /\ DataTyped /\ RecordsInv /\ RolledBack(h) /\ g \in Helper
      /\ journal[g] \in Undoable \cup {"rollback_cleanup_pending"} /\ journal[g] # "none"
  BY <1>1, RollbackFacts
<1>3. client \in [Helper -> {"none", "active", "revoked"}]
  BY <1>2 DEF DataTyped
<1>4. UNCHANGED <<files, records, late, stray, qa, proof>>
  BY DEF RevokeCandidate
<1>5. client' = client \/ client' = RevokedClient(g)
  BY DEF RevokeCandidate
<1>6. /\ client' \in [Helper -> {"none", "active", "revoked"}]
      /\ \A k \in Helper \ {g} : client'[k] = client[k]
      /\ client' = RevokedClient(g) => client'[g] # "active"
  BY <1>2, <1>3, <1>5 DEF RevokedClient
<1>7. RecordsInv'
  <2>1. CASE client' = client
    <3>1. UNCHANGED <<files, records, gateway>>
      BY <1>4, <2>1 DEF gateway
    <3> QED BY <1>2, <3>1, RecordsFrame
  <2>2. CASE client' = RevokedClient(g)
    BY <1>2, <1>3, <1>4, <2>2, CandidateRevoked
  <2> QED BY <1>5, <2>1, <2>2
<1>8. DataTyped' /\ \A k : FreshKept(k)
  <2>1. UNCHANGED <<env, config, loaded, backup, saved, journal, receipt, retired, late, stray,
                    qa, proof>>
    BY <1>4 DEF files, records
  <2>2. \A k : FreshKept(k)
    BY <1>2, <1>6, <2>1 DEF FreshKept, Fresh
  <2> QED BY <1>2, <1>6, <2>1, <2>2 DEF DataTyped
<1>9. CASE GiveUp(h)
  BY <1>1, <1>7, <1>8, <1>9, GiveUpKeeps
<1>10. CASE client' = RevokedClient(g) /\ Goto(h, "closing")
  <2>1. Keeps(h, "closing")
    BY <1>1, <1>2, <1>10, GotoMoves
  <2>2. Restored(g) /\ UNCHANGED <<env, config, loaded, saved, journal, stray>>
    BY <1>1, <1>2, <1>4 DEF RolledBack, files, records
  <2>3. OnDisk' = saved'[g] /\ RunsWhatIsWritten'
    BY <2>2 DEF Restored, RunsWhatIsWritten, OnDisk
  <2>4. helper'[h].pc = "closing" /\ helper'[h].gen = g
    BY <2>1 DEF Keeps, MovesTo, Current
  <2>5. RolledBack(h)'
    BY <1>2, <1>6, <1>10, <2>2, <2>3, <2>4 DEF RolledBack, Restored, Current, RollingBack
  <2> QED BY <1>1, <1>7, <1>8, <1>10, <2>5, RollbackGoesOn
<1> QED BY <1>9, <1>10 DEF RevokeCandidate

LEMMA CloseKeeps ==
  ASSUME CutoverInv, NEW h \in Helper, Close(h)
  PROVE  CutoverInv'
<1> DEFINE g == Current(h)
<1>1. helper[h].pc = "closing" /\ helper[h].pc \in CleaningUp
  BY DEF Close, At, CleaningUp
<1>2. /\ TypeOK /\ DataTyped /\ RecordsInv /\ RolledBack(h) /\ g \in Helper
      /\ journal[g] \in Undoable \cup {"rollback_cleanup_pending"} /\ journal[g] # "none"
      /\ helper[h].pc \notin Unlocked \cup {"retiring"} /\ helper[h].step = 1
  BY <1>1, RollbackFacts
<1>3. Restored(g) /\ (client[g] # "active" \/ g \in stray)
  BY <1>1, <1>2 DEF RolledBack
<1>4. UNCHANGED <<files, backup, saved, receipt, retired, gateway>>
  BY DEF Close
<1>5. ASSUME NEW state \in Undone, Write(g, state)
      PROVE  DataTyped' /\ RecordsInv' /\ \A k : FreshKept(k)
  <2>1. JournalIs(g, state) /\ DataTyped' /\ \A k : FreshKept(k)
    BY <1>2, <1>4, <1>5, JournalMoves
  <2>2. RecordsInv'
    BY <1>2, <1>3, <1>4, <2>1, JournalCloses
  <2> QED BY <2>1, <2>2
<1>6. DataTyped' /\ RecordsInv' /\ \A k : FreshKept(k)
  <2>1. CASE UNCHANGED journal
    BY <1>2, <1>4, <2>1, DataFrame DEF records
  <2>2. CASE Write(g, "rolled_back") \/ Write(g, "recovered")
    BY <1>5, <2>2 DEF Undone
  <2> QED BY <2>1, <2>2 DEF Close
<1>7. CASE GiveUp(h)
  BY <1>1, <1>6, <1>7, GiveUpKeeps
<1>8. CASE Own(h) /\ Goto(h, "reporting")
  BY <1>2, <1>6, <1>8, ReportKeeps
<1>9. CASE ~Own(h) /\ Goto(h, "recovering")
  BY <1>1, <1>6, <1>9, RecoveryGoesOn
<1> QED BY <1>7, <1>8, <1>9 DEF Close

LEMMA ReportFailedKeeps ==
  ASSUME CutoverInv, NEW h \in Helper, ReportFailed(h)
  PROVE  CutoverInv'
<1>1. helper[h].pc \notin Unlocked /\ RecordsInv /\ DataTyped /\ Exit(h)
  BY TypeParts DEF ReportFailed, At, Unlocked, CutoverInv
<1>2. /\ UNCHANGED <<files, records, client, late, stray, proof>>
      /\ qa' \in [Run -> {"absent", "running", "passed", "failed"}]
      /\ \A r \in Run : qa'[r] = "passed" <=> qa[r] = "passed"
  BY <1>1 DEF ReportFailed, DataTyped
<1>3. RecordsInv'
  BY <1>1, <1>2, RunsMove
<1>4. DataTyped' /\ FreshKept(h)
  BY <1>1, <1>2, FreshFrame DEF DataTyped, files, records
<1> QED BY <1>1, <1>3, <1>4, ExitKeeps

-----------------------------------------------------------------------------
(* reconcile_remote_state *)

LEMMA ReconcileFacts ==
  ASSUME CutoverInv, NEW h \in Helper, helper[h].pc \in Reconciling
  PROVE  /\ helper[h].pc \notin Unlocked \cup {"retiring"} /\ helper[h].step = 1
         /\ TypeOK /\ DataTyped /\ RecordsInv /\ Reconciled(h)
         /\ Current(h) \in Helper
         /\ journal[Current(h)] \in Committed /\ journal[Current(h)] # "none"
         /\ InForce(Current(h)) /\ receipt[Current(h)] \in Run
         /\ backup[Current(h)] = "whole" /\ Current(h) \notin retired
         /\ \A k \in Helper \ {Current(h)} : journal[k] \notin Pending
<1>1. TypeOK /\ RecordsInv /\ Owner(h) /\ Cut(h) /\ Reconciled(h)
  BY DEF CutoverInv, HelperInv
<1>2. helper[h].pc \notin Unlocked \cup {"retiring"} /\ helper[h].step = 1 /\ Current(h) \in Helper
  BY <1>1 DEF Owner, Cut, Reconciling, Unlocked
<1> QED BY <1>1, <1>2, TypeParts DEF Reconciled, Committed, InForce

(* The generation that is reconciled stays in force. *)
LEMMA StaysReconciled ==
  ASSUME CutoverInv, NEW h \in Helper, helper[h].pc \in Reconciling,
         NEW pc, Keeps(h, pc),
         UNCHANGED <<files, backup, receipt, retired>>,
         client'[Current(h)] = client[Current(h)],
         NEW state \in Committed, JournalIs(Current(h), state),
         pc = "recording" => qa'[receipt[Current(h)]] = "passed"
                             /\ proof'[receipt[Current(h)]] = Current(h)
  PROVE  Reconciled(h)'
<1> DEFINE g == Current(h)
<1>1. /\ g \in Helper /\ InForce(g) /\ backup[g] = "whole" /\ g \notin retired
      /\ \A k \in Helper \ {g} : journal[k] \notin Pending
  BY ReconcileFacts
<1>2. helper'[h].pc = pc /\ helper'[h].gen = g
  BY DEF Keeps, MovesTo, Current
<1>3. journal'[g] \in Committed /\ \A k \in Helper \ {g} : journal'[k] \notin Pending
  BY <1>1 DEF JournalIs
<1>4. env' = g /\ client'[g] = "active" /\ receipt'[g] \in Run
  BY <1>1 DEF InForce, files
<1> QED BY <1>1, <1>2, <1>3, <1>4 DEF Reconciled, InForce, Current

(* The next place in the reconciliation, or its end *)
LEMMA ReconcileContinues ==
  ASSUME CutoverInv, NEW h \in Helper, helper[h].pc \in Reconciling,
         UNCHANGED <<files, backup, receipt, retired>>,
         client'[Current(h)] = client[Current(h)],
         NEW state \in Committed, JournalIs(Current(h), state),
         DataTyped', RecordsInv', \A k : FreshKept(k),
         \/ Goto(h, "completing") \/ Postpone(h)
         \/ /\ Goto(h, "recording")
            /\ qa'[receipt[Current(h)]] = "passed" /\ proof'[receipt[Current(h)]] = Current(h)
  PROVE  CutoverInv'
<1>1. TypeOK
  BY DEF CutoverInv
<1>2. ASSUME NEW pc \in {"completing", "recording", "postponing"}, Goto(h, pc),
             pc = "recording" => qa'[receipt[Current(h)]] = "passed"
                                 /\ proof'[receipt[Current(h)]] = Current(h)
      PROVE  Reconciled(h)'
  <2>1. pc \in Place
    BY DEF Place
  <2>2. Keeps(h, pc)
    BY <1>1, <1>2, <2>1, GotoMoves
  <2> QED BY <1>2, <2>2, StaysReconciled
<1>3. CASE Postpone(h)
  <2>1. Own(h) => Reconciled(h)'
    BY <1>2, <1>3 DEF Postpone
  <2> QED BY <1>3, <2>1, PostponeKeeps
<1>4. ASSUME NEW pc \in {"completing", "recording"}, Goto(h, pc), Reconciled(h)'
      PROVE  CutoverInv'
  <2>1. pc \in Reconciling /\ pc # "postponing"
    BY DEF Reconciling
  <2> QED BY <1>4, <2>1, ReconcileGoesOn
<1> QED BY <1>2, <1>3, <1>4

LEMMA RevokePreviousKeeps ==
  ASSUME CutoverInv, NEW h \in Helper, RevokePrevious(h)
  PROVE  CutoverInv'
<1> DEFINE g == Current(h)
<1>1. helper[h].pc \in Reconciling
  BY DEF RevokePrevious, At, Reconciling
<1>2. /\ TypeOK /\ DataTyped /\ RecordsInv /\ g \in Helper /\ InForce(g)
      /\ journal[g] \in Committed /\ \A k \in Helper \ {g} : journal[k] \notin Pending
  BY <1>1, ReconcileFacts
<1>3. UNCHANGED <<files, records, late, stray, qa, proof>>
  BY DEF RevokePrevious
<1>4. PICK revoked \in SUBSET Previous(g) :
        /\ client' = [c \in Helper |-> IF c \in revoked THEN "revoked" ELSE client[c]]
        /\ Goto(h, "completing") \/ Postpone(h)
  BY DEF RevokePrevious
<1>5. RecordsInv'
  BY <1>2, <1>3, <1>4, PreviousRevoked
<1>6. /\ client' \in [Helper -> {"none", "active", "revoked"}]
      /\ client'[g] = client[g]
      /\ \A k \in Helper : client[k] = "none" => client'[k] = "none"
  BY <1>2, <1>4 DEF DataTyped, Previous
<1>7. UNCHANGED <<env, config, loaded, backup, saved, journal, receipt, retired, late, stray,
                  qa, proof>>
  BY <1>3 DEF files, records
<1>8. DataTyped' /\ \A k : FreshKept(k)
  BY <1>2, <1>6, <1>7 DEF DataTyped, FreshKept, Fresh
<1>9. JournalIs(g, journal[g])
  BY <1>7 DEF JournalIs
<1> QED BY <1>1, <1>2, <1>4, <1>5, <1>6, <1>7, <1>8, <1>9, ReconcileContinues DEF files

LEMMA CompleteKeeps ==
  ASSUME CutoverInv, NEW h \in Helper, Complete(h)
  PROVE  CutoverInv'
<1> DEFINE g == Current(h)
           r == receipt[g]
           pass == qa' = [qa EXCEPT ![r] = "passed"] /\ proof' = [proof EXCEPT ![r] = g]
<1>1. helper[h].pc \in Reconciling
  BY DEF Complete, At, Reconciling
<1>2. /\ TypeOK /\ DataTyped /\ RecordsInv /\ g \in Helper /\ r \in Run /\ InForce(g)
      /\ journal[g] \in Committed
  BY <1>1, ReconcileFacts
<1>3. UNCHANGED <<files, records, client, late, stray>>
  BY DEF Complete
<1>4. \/ UNCHANGED <<qa, proof>> /\ Postpone(h)
      \/ Completable(r, g) /\ pass /\ (Goto(h, "recording") \/ Postpone(h))
  BY DEF Complete
<1>5. UNCHANGED <<env, config, loaded, backup, saved, journal, receipt, retired, client, late, stray>>
  BY <1>3 DEF files, records
<1>6. JournalIs(g, journal[g])
  BY <1>5 DEF JournalIs
<1>7. \A k : FreshKept(k)
  BY <1>5, FreshFrame
<1>8. CASE UNCHANGED <<qa, proof>> /\ Postpone(h)
  <2>1. DataTyped' /\ RecordsInv'
    BY <1>2, <1>3, <1>8, DataFrame DEF gateway
  <2> QED BY <1>1, <1>2, <1>5, <1>6, <1>7, <1>8, <2>1, ReconcileContinues DEF files
<1>9. CASE Completable(r, g) /\ pass /\ (Goto(h, "recording") \/ Postpone(h))
  <2>1. /\ qa \in [Run -> {"absent", "running", "passed", "failed"}]
        /\ proof \in [Run -> Helper \cup {NoHelper}]
    BY <1>2 DEF DataTyped
  <2>2. /\ qa' \in [Run -> {"absent", "running", "passed", "failed"}]
        /\ proof' \in [Run -> Helper \cup {NoHelper}]
        /\ qa'[r] = "passed" /\ proof'[r] = g
        /\ \A q \in Run \ {r} : qa'[q] = qa[q] /\ proof'[q] = proof[q]
    BY <1>2, <1>9, <2>1
  <2>3. qa[r] = "passed" => proof[r] = g
    BY <1>9 DEF Completable
  <2>4. RecordsInv'
    BY <1>2, <1>3, <2>2, <2>3, RunsMove
  <2>5. DataTyped'
    BY <1>2, <1>5, <2>2 DEF DataTyped
  <2> QED BY <1>1, <1>2, <1>5, <1>6, <1>7, <1>9, <2>2, <2>4, <2>5, ReconcileContinues DEF files
<1> QED BY <1>4, <1>8, <1>9

LEMMA RecordReconciledKeeps ==
  ASSUME CutoverInv, NEW h \in Helper, RecordReconciled(h)
  PROVE  CutoverInv'
<1> DEFINE g == Current(h)
<1>1. helper[h].pc = "recording" /\ helper[h].pc \in Reconciling
  BY DEF RecordReconciled, At, Reconciling
<1>2. /\ TypeOK /\ DataTyped /\ RecordsInv /\ g \in Helper /\ InForce(g) /\ Reconciled(h)
      /\ journal[g] \in Committed /\ journal[g] # "none"
      /\ backup[g] = "whole" /\ g \notin retired
      /\ \A k \in Helper \ {g} : journal[k] \notin Pending
      /\ helper[h].pc \notin Unlocked
  BY <1>1, ReconcileFacts
<1>3. qa[receipt[g]] = "passed" /\ proof[receipt[g]] = g
  BY <1>1, <1>2 DEF Reconciled
<1>4. UNCHANGED <<files, backup, saved, receipt, retired, gateway>>
  BY DEF RecordReconciled
<1>5. PICK state \in Committed :
        JournalIs(g, state) /\ DataTyped' /\ RecordsInv' /\ \A k : FreshKept(k)
  <2>1. CASE UNCHANGED journal
    <3>1. DataTyped' /\ RecordsInv' /\ \A k : FreshKept(k)
      BY <1>2, <1>4, <2>1, DataFrame DEF records
    <3> QED BY <1>2, <2>1, <3>1 DEF JournalIs
  <2>2. CASE Write(g, "reconciled")
    <3>1. "reconciled" \in Committed
      BY DEF Committed
    <3>2. JournalIs(g, "reconciled") /\ DataTyped' /\ \A k : FreshKept(k)
      BY <1>2, <1>4, <2>2, <3>1, JournalMoves
    <3>3. RecordsInv'
      BY <1>2, <1>3, <1>4, <3>2, JournalReconciles
    <3> QED BY <3>1, <3>2, <3>3
  <2> QED BY <2>1, <2>2 DEF RecordReconciled
<1>6. CASE Own(h) /\ Exit(h)
  BY <1>2, <1>5, <1>6, ExitKeeps
<1>7. CASE ~Own(h) /\ Goto(h, "recovering")
  BY <1>1, <1>5, <1>7, RecoveryGoesOn
<1>8. CASE Postpone(h)
  <2>1. UNCHANGED <<files, backup, receipt, retired>> /\ client' = client
    BY <1>4 DEF gateway
  <2> QED BY <1>1, <1>5, <1>8, <2>1, ReconcileContinues
<1> QED BY <1>6, <1>7, <1>8 DEF RecordReconciled

LEMMA RecordPendingKeeps ==
  ASSUME CutoverInv, NEW h \in Helper, RecordPending(h)
  PROVE  CutoverInv'
<1>1. helper[h].pc = "postponing" /\ helper[h].pc \in Reconciling
  BY DEF RecordPending, At, Reconciling
<1>2. Current(h) = h
  BY <1>1 DEF CutoverInv, HelperInv, Owner, Own, Current
<1>3. /\ TypeOK /\ DataTyped /\ RecordsInv /\ InForce(h)
      /\ journal[h] \in Committed /\ journal[h] # "none"
      /\ backup[h] = "whole" /\ h \notin retired
      /\ \A k \in Helper \ {h} : journal[k] \notin Pending
      /\ helper[h].pc \notin Unlocked
  BY <1>1, <1>2, ReconcileFacts
<1>4. UNCHANGED <<files, backup, saved, receipt, retired, gateway>> /\ Exit(h)
  BY DEF RecordPending
<1>5. DataTyped' /\ RecordsInv' /\ FreshKept(h)
  <2>1. CASE UNCHANGED journal
    BY <1>3, <1>4, <2>1, DataFrame DEF records
  <2>2. CASE Write(h, "reconcile_pending")
    <3>1. "reconcile_pending" \in Pending
      BY DEF Pending
    <3>2. JournalIs(h, "reconcile_pending") /\ DataTyped' /\ FreshKept(h)
      BY <1>3, <1>4, <2>2, <3>1, JournalMoves
    <3>3. RecordsInv'
      BY <1>3, <1>4, <3>2, JournalReconciles
    <3> QED BY <3>2, <3>3
  <2> QED BY <2>1, <2>2 DEF RecordPending, TryToWrite
<1> QED BY <1>3, <1>4, <1>5, ExitKeeps

-----------------------------------------------------------------------------
(* The steps that change nothing but the helper *)

LEMMA HelperMoves ==
  ASSUME CutoverInv, NEW h \in Helper, UNCHANGED <<files, records, gateway>>,
         NEW pc, NEW g, MovesTo(h, pc, g), lock' \in Helper \cup {NoHelper}, LockInv', HelperInv(h)'
  PROVE  CutoverInv'
<1>1. DataTyped /\ RecordsInv /\ \A k \in Helper : HelperInv(k)
  BY TypeParts DEF CutoverInv
<1>2. DataTyped' /\ RecordsInv'
  BY <1>1, DataFrame
<1>3. TypeOK'
  BY <1>2, TypePartsAfter DEF MovesTo
<1>4. ASSUME NEW k \in Helper \ {h} PROVE HelperInv(k)'
  <2>1. helper'[k] = helper[k] /\ HelperInv(k)
    BY <1>1 DEF MovesTo
  <2>2. UNCHANGED <<env, config, loaded, backup, saved, journal, receipt, retired,
                    client, late, stray, qa, proof>>
    BY DEF files, records, gateway
  <2>3. Owner(k)'
    BY <2>1, <2>2 DEF HelperInv, Owner, Own, Current, Fresh
  <2>4. Cut(k)'
    BY <2>1, <2>2 DEF HelperInv, Cut, Fresh, NothingPending, Uncommitted, Applied
  <2>5. RolledBack(k)'
    BY <2>1, <2>2 DEF HelperInv, RolledBack, Current, Restored, OnDisk, RunsWhatIsWritten
  <2>6. Reconciled(k)'
    BY <2>1, <2>2 DEF HelperInv, Reconciled, Current, InForce
  <2> QED BY <2>3, <2>4, <2>5, <2>6 DEF HelperInv
<1> QED BY <1>2, <1>3, <1>4 DEF CutoverInv

LEMMA WaitReached ==
  ASSUME NEW h \in Helper, NEW pc \in {"validated", "waiting", "recovering"}, NEW g, g # h,
         MovesTo(h, pc, g), helper'[h].step = 1, Fresh(h)'
  PROVE  HelperInv(h)'
BY DEF HelperInv, Owner, Own, Current, Cut, RolledBack, Reconciled, MovesTo,
       Cutting, RollingBack, CleaningUp, Reconciling

LEMMA WaitFacts ==
  ASSUME CutoverInv, NEW h \in Helper, helper[h].pc \in {"idle", "validated", "waiting", "recovering"}
  PROVE  /\ TypeOK /\ LockInv /\ DataTyped /\ RecordsInv /\ helper \in [Helper -> HelperRecord]
         /\ lock \in Helper \cup {NoHelper} /\ helper[h].gen # h /\ Fresh(h) /\ helper[h].step = 1
<1>1. TypeOK /\ LockInv /\ RecordsInv /\ Owner(h) /\ Cut(h)
  BY DEF CutoverInv, HelperInv
<1> QED BY <1>1, TypeParts DEF Owner, Cut, Own

LEMMA FreshStays ==
  ASSUME NEW h, Fresh(h), UNCHANGED <<files, records, gateway>>
  PROVE  Fresh(h)'
BY DEF Fresh, records, gateway

(* A helper that ends without a lock, or with one *)
LEMMA LeaveKeeps ==
  ASSUME CutoverInv, NEW h \in Helper, Exit(h), UNCHANGED <<files, records, gateway>>
  PROVE  CutoverInv'
<1>1. TypeOK /\ LockInv /\ lock \in Helper \cup {NoHelper}
  BY TypeParts DEF CutoverInv
<1>2. /\ MovesTo(h, "done", NoHelper) /\ helper'[h].step = 1
      /\ lock' = IF lock = h THEN NoHelper ELSE lock
  BY <1>1, ExitMoves
<1>3. LockInv' /\ HelperInv(h)' /\ lock' \in Helper \cup {NoHelper}
  BY <1>1, <1>2, LockIsReleased, DoneReached
<1> QED BY <1>2, <1>3, HelperMoves

LEMMA WaitKeeps ==
  ASSUME CutoverInv, NEW h \in Helper, NEW pc \in {"validated", "waiting"},
         helper[h].pc \in {"idle", "validated", "waiting"}, UNCHANGED <<files, records, gateway>>,
         NEW g, g # h, MovesTo(h, pc, g), helper'[h].step = 1, lock' = lock
  PROVE  CutoverInv'
<1>1. LockInv /\ lock \in Helper \cup {NoHelper} /\ Fresh(h)
  BY WaitFacts
<1>2. LockInv'
  BY <1>1, LockIsKept DEF Unlocked
<1>3. HelperInv(h)'
  BY <1>1, FreshStays, WaitReached
<1> QED BY <1>1, <1>2, <1>3, HelperMoves

LEMMA ValidateKeeps ==
  ASSUME CutoverInv, NEW h \in Helper, NEW r \in Run, Validate(h, r)
  PROVE  CutoverInv'
<1>1. /\ helper[h].pc = "idle" /\ qa[r] # "absent" /\ UNCHANGED <<files, records, gateway, lock>>
      /\ helper' = [helper EXCEPT ![h].pc = "validated", ![h].run = r, ![h].intent = qa[r]]
  BY DEF Validate, At
<1>2. /\ DataTyped /\ helper \in [Helper -> HelperRecord] /\ helper[h].gen # h
      /\ helper[h].step = 1
  BY <1>1, WaitFacts
<1>3. qa[r] \in Intents /\ "validated" \in Place
  BY <1>1, <1>2 DEF DataTyped, Intents, Place
<1> DEFINE new == [helper[h] EXCEPT !.pc = "validated", !.run = r, !.intent = qa[r]]
<1>4. new \in HelperRecord /\ new.pc = "validated" /\ new.gen = helper[h].gen /\ new.step = 1
  BY <1>2, <1>3, HelperFields
<1>5. helper' = [helper EXCEPT ![h] = new]
  BY <1>1
<1> HIDE DEF new
<1>6. MovesTo(h, "validated", helper[h].gen) /\ helper'[h].step = 1
  BY <1>2, <1>4, <1>5 DEF MovesTo
<1> QED BY <1>1, <1>2, <1>6, WaitKeeps

LEMMA WaitingKeeps ==
  ASSUME CutoverInv, NEW h \in Helper, DecideIntent(h) \/ JustRecover(h)
  PROVE  CutoverInv'
<1>1. /\ helper[h].pc \in {"idle", "validated"} /\ UNCHANGED <<files, records, gateway>>
      /\ Goto(h, "waiting") \/ Exit(h)
  BY DEF DecideIntent, JustRecover, At
<1>2. TypeOK /\ helper[h].gen # h /\ helper[h].step = 1
  BY <1>1, WaitFacts
<1>3. CASE Exit(h)
  BY <1>1, <1>3, LeaveKeeps
<1>4. CASE Goto(h, "waiting")
  <2>1. Keeps(h, "waiting") /\ helper'[h].step = 1
    BY <1>2, <1>4, GotoMoves DEF Place
  <2> QED BY <1>1, <1>2, <2>1, WaitKeeps DEF Keeps
<1> QED BY <1>1, <1>3, <1>4

LEMMA AcquireLockKeeps ==
  ASSUME CutoverInv, NEW h \in Helper, AcquireLock(h)
  PROVE  CutoverInv'
<1>1. helper[h].pc = "waiting" /\ lock = NoHelper /\ UNCHANGED <<files, records, gateway>>
  BY DEF AcquireLock, At
<1>2. /\ LockInv /\ helper \in [Helper -> HelperRecord] /\ helper[h].gen # h
      /\ helper[h].step = 1 /\ Fresh(h)
  BY <1>1, WaitFacts
<1>3. CASE Exit(h)
  BY <1>1, <1>3, LeaveKeeps
<1>4. CASE helper' = [helper EXCEPT ![h].pc = "recovering"] /\ lock' = h
  <2>1. MovesTo(h, "recovering", helper[h].gen) /\ helper'[h].step = 1
    BY <1>2, <1>4 DEF MovesTo, HelperRecord
  <2>2. LockInv'
    BY <1>1, <1>2, <1>4, <2>1, LockIsTaken DEF Unlocked
  <2>3. HelperInv(h)'
    BY <1>1, <1>2, <2>1, FreshStays, WaitReached
  <2> QED BY <1>1, <1>4, <2>1, <2>2, <2>3, HelperMoves
<1> QED BY <1>3, <1>4 DEF AcquireLock

(* A generation left by another helper: its journal says what is to be done. *)
LEMMA RecoverNextKeeps ==
  ASSUME CutoverInv, NEW h \in Helper, RecoverNext(h)
  PROVE  CutoverInv'
<1>1. helper[h].pc = "recovering" /\ UNCHANGED <<files, records, gateway>>
  BY DEF RecoverNext, At
<1>2. /\ TypeOK /\ LockInv /\ RecordsInv /\ lock \in Helper \cup {NoHelper} /\ helper[h].step = 1
      /\ Fresh(h)
  BY <1>1, WaitFacts
<1>3. PICK g \in Unfinished :
        \/ journal[g] \in Committed /\ Work(h, "reconciling", g)
        \/ journal[g] \in Undoable /\ Work(h, "stopping", g)
        \/ journal[g] \notin Committed \cup Undoable /\ Work(h, "revoking", g)
  <2>1. PICK g \in Unfinished :
          Work(h, CASE journal[g] \in Committed -> "reconciling"
                    [] journal[g] \in Undoable -> "stopping"
                    [] OTHER -> "revoking", g)
    BY DEF RecoverNext
  <2>2. ~(journal[g] \in Committed /\ journal[g] \in Undoable)
    BY DEF Committed, Undoable
  <2> QED BY <2>1, <2>2
<1>4. g \in Helper /\ journal[g] \in Pending /\ BackupOf(g) /\ StateOf(g) /\ g # h
  BY <1>2, <1>3 DEF Unfinished, Whole, RecordsInv, Fresh, Pending, Undoable
<1>5. Fresh(h)'
  BY <1>1, <1>2, FreshStays
<1>6. UNCHANGED <<env, config, loaded, backup, saved, journal, receipt, retired, client, stray>>
  BY <1>1 DEF files, records, gateway
<1>7. ASSUME NEW pc \in {"stopping", "revoking", "reconciling"}, Work(h, pc, g),
             RolledBack(h)', Reconciled(h)'
      PROVE  CutoverInv'
  <2>1. MovesTo(h, pc, g) /\ lock' = lock /\ helper'[h].step = 1
    BY <1>2, <1>4, <1>7, WorkMoves DEF Place
  <2>2. HelperInv(h)'
    <3>1. CASE pc = "reconciling"
      BY <1>4, <1>5, <1>7, <2>1, <3>1, ReconcileReached DEF Reconciling
    <3>2. CASE pc # "reconciling"
      <4>1. pc \in RollingBack \cup CleaningUp /\ pc # "marking"
        BY <1>7, <3>2 DEF RollingBack, CleaningUp
      <4> QED BY <1>4, <1>5, <1>7, <2>1, <4>1, RollbackReached
    <3> QED BY <3>1, <3>2
  <2>3. pc \notin Unlocked
    BY DEF Unlocked
  <2>4. LockInv'
    BY <1>1, <1>2, <2>1, <2>3, LockIsKept DEF Unlocked
  <2> QED BY <1>1, <1>2, <2>1, <2>2, <2>4, HelperMoves
<1>8. ASSUME NEW pc \in Place, Work(h, pc, g) PROVE helper'[h].pc = pc /\ helper'[h].gen = g
  BY <1>2, <1>4, <1>8, WorkMoves DEF MovesTo
<1>9. CASE journal[g] \in Undoable /\ Work(h, "stopping", g)
  <2>1. helper'[h].pc = "stopping" /\ helper'[h].gen = g
    BY <1>8, <1>9 DEF Place
  <2>2. RolledBack(h)' /\ Reconciled(h)'
    BY <1>6, <1>9, <2>1 DEF RolledBack, Reconciled, Current, CleaningUp, Reconciling
  <2> QED BY <1>7, <1>9, <2>2
<1>10. CASE journal[g] \notin Committed \cup Undoable /\ Work(h, "revoking", g)
  <2>1. helper'[h].pc = "revoking" /\ helper'[h].gen = g
    BY <1>8, <1>10 DEF Place
  <2>2. journal[g] = "rollback_cleanup_pending"
    BY <1>4, <1>10 DEF Pending, Committed
  <2>3. OnDisk' = saved'[g] /\ RunsWhatIsWritten'
    BY <1>4, <1>6, <2>2 DEF StateOf, Restored, OnDisk, RunsWhatIsWritten
  <2>4. RolledBack(h)' /\ Reconciled(h)'
    BY <1>6, <2>1, <2>2, <2>3 DEF RolledBack, Reconciled, Restored, Current, RollingBack, Reconciling
  <2> QED BY <1>7, <1>10, <2>4
<1>11. CASE journal[g] \in Committed /\ Work(h, "reconciling", g)
  <2>1. helper'[h].pc = "reconciling" /\ helper'[h].gen = g
    BY <1>8, <1>11 DEF Place
  <2>2. journal[g] \in {"committed", "reconcile_pending"} /\ journal[g] # "reconciled"
    BY <1>4, <1>11 DEF Pending, Committed, Undoable
  <2>3. InForce(g) /\ backup[g] = "whole" /\ g \notin retired
    BY <1>4, <2>2 DEF StateOf, BackupOf
  <2>4. \A k \in Helper \ {g} : journal[k] \notin Pending
    BY <1>2, <1>4 DEF RecordsInv, OneIsPending
  <2>5. RolledBack(h)' /\ Reconciled(h)'
    BY <1>6, <1>11, <2>1, <2>3, <2>4
       DEF RolledBack, Reconciled, InForce, Current, RollingBack, CleaningUp
  <2> QED BY <1>7, <1>11, <2>5
<1> QED BY <1>3, <1>9, <1>10, <1>11

(* The run is not committed yet if it still runs and nothing is pending. *)
LEMMA DecideKeeps ==
  ASSUME CutoverInv, NEW h \in Helper, Decide(h)
  PROVE  CutoverInv'
<1>1. helper[h].pc = "recovering" /\ Unfinished = {} /\ UNCHANGED <<files, records, gateway>>
  BY DEF Decide, At
<1>2. /\ LockInv /\ RecordsInv /\ DataTyped /\ lock \in Helper \cup {NoHelper}
      /\ helper \in [Helper -> HelperRecord] /\ helper[h].step = 1 /\ Fresh(h)
  BY <1>1, WaitFacts
<1>3. CASE Exit(h)
  BY <1>1, <1>3, LeaveKeeps
<1>4. CASE helper[h].run # NoRun /\ Proceed(h) /\ Begin(h)
  <2> DEFINE r == helper[h].run
             new == [helper[h] EXCEPT !.pc = "preflight", !.intent = "none", !.gen = h]
  <2>1. r \in Run /\ qa[r] = "running"
    BY <1>2, <1>4 DEF HelperRecord, Proceed, RunUnderLock
  <2>2. NothingPending
    BY <1>1, <1>2 DEF Unfinished, Whole, RecordsInv, BackupOf, NothingPending
  <2>3. Uncommitted(r)
    <3> SUFFICES ASSUME NEW g \in Helper, journal[g] \in Committed PROVE receipt[g] # r
      BY DEF Uncommitted
    <3>1. journal[g] = "reconciled"
      BY <2>2 DEF NothingPending, Pending, Committed
    <3> QED BY <1>2, <2>1, <3>1 DEF RecordsInv, StateOf
  <2>0. "preflight" \in Place /\ "none" \in Intents
    BY DEF Place, Intents
  <2>4. new \in HelperRecord /\ new.pc = "preflight" /\ new.gen = h /\ new.step = 1 /\ new.run = r
    BY <1>2, <2>0, HelperFields
  <2>5. helper' = [helper EXCEPT ![h] = new] /\ lock' = lock
    BY <1>4 DEF Begin
  <2> HIDE DEF new
  <2>6. MovesTo(h, "preflight", h) /\ helper'[h].step = 1 /\ helper'[h].run = r
    BY <1>2, <2>4, <2>5 DEF MovesTo
  <2>7. LockInv'
    BY <1>1, <1>2, <2>5, <2>6, LockIsKept DEF Unlocked
  <2>8. UNCHANGED <<journal, receipt, client, late>>
    BY <1>1 DEF records, gateway
  <2>9. Fresh(h)' /\ NothingPending' /\ (Uncommitted(r))'
    BY <1>2, <2>2, <2>3, <2>6, <2>8 DEF Fresh, NothingPending, Uncommitted
  <2>10. HelperInv(h)'
    BY <2>1, <2>6, <2>9
       DEF HelperInv, Owner, Own, Current, Cut, RolledBack, Reconciled, MovesTo,
           Cutting, RollingBack, CleaningUp, Reconciling
  <2> QED BY <1>1, <1>2, <2>5, <2>6, <2>7, <2>10, HelperMoves
<1> QED BY <1>3, <1>4 DEF Decide


LEMMA PreflightKeeps ==
  ASSUME CutoverInv, NEW h \in Helper, Preflight(h)
  PROVE  CutoverInv'
<1>1. helper[h].pc = "preflight" /\ UNCHANGED <<files, records, gateway>>
  BY DEF Preflight, At
<1>2. /\ TypeOK /\ LockInv /\ RecordsInv /\ DataTyped /\ lock \in Helper \cup {NoHelper}
      /\ Own(h) /\ helper[h].run \in Run /\ helper[h].step = 1
      /\ Fresh(h) /\ NothingPending /\ Uncommitted(helper[h].run)
      /\ helper[h].pc \notin Unlocked \cup {"retiring"}
  BY <1>1, TypeParts DEF CutoverInv, HelperInv, Owner, Cut, Cutting, Unlocked
<1>3. CASE Goto(h, "reporting")
  BY <1>1, <1>2, <1>3, DataFrame, ReportKeeps
<1>4. CASE Goto(h, "applying")
  <2>1. /\ MovesTo(h, "applying", h) /\ helper'[h].step = 1 /\ helper'[h].run = helper[h].run
        /\ lock' = lock
    BY <1>2, <1>4, GotoMoves DEF Keeps, Own, Place
  <2>2. LockInv'
    BY <1>2, <2>1, LockIsKept DEF Unlocked
  <2>3. UNCHANGED <<journal, receipt, client, late>>
    BY <1>1 DEF records, gateway
  <2>4. Fresh(h)' /\ NothingPending' /\ Uncommitted(helper[h].run)'
    BY <1>2, <2>1, <2>3 DEF Fresh, NothingPending, Uncommitted
  <2>5. HelperInv(h)'
    BY <1>2, <2>1, <2>4
       DEF HelperInv, Owner, Own, Current, Cut, RolledBack, Reconciled, MovesTo,
           Cutting, RollingBack, CleaningUp, Reconciling
  <2> QED BY <1>1, <1>2, <2>1, <2>2, <2>5, HelperMoves
<1> QED BY <1>3, <1>4 DEF Preflight

-----------------------------------------------------------------------------
(* retire_backup *)

LEMMA LockForRetirementKeeps ==
  ASSUME CutoverInv, NEW h \in Helper, NEW g \in Helper, LockForRetirement(h, g)
  PROVE  CutoverInv'
<1>1. /\ helper[h].pc = "idle" /\ lock = NoHelper /\ lock' = h
      /\ helper' = [helper EXCEPT ![h].pc = "retiring", ![h].gen = g]
      /\ UNCHANGED <<files, records, gateway>>
  BY DEF LockForRetirement, At
<1>2. LockInv /\ helper \in [Helper -> HelperRecord] /\ helper[h].step = 1
  BY <1>1, WaitFacts
<1>0. "retiring" \in Place
  BY DEF Place
<1> DEFINE new == [helper[h] EXCEPT !.pc = "retiring", !.gen = g]
<1>3. new \in HelperRecord /\ new.pc = "retiring" /\ new.gen = g /\ new.step = 1
  BY <1>0, <1>2, HelperFields
<1>4. helper' = [helper EXCEPT ![h] = new]
  BY <1>1
<1> HIDE DEF new
<1>5. MovesTo(h, "retiring", g) /\ helper'[h].step = 1
  BY <1>2, <1>3, <1>4 DEF MovesTo
<1>6. LockInv'
  BY <1>1, <1>2, <1>5, LockIsTaken DEF Unlocked
<1> QED BY <1>1, <1>5, <1>6, RetirementReached, HelperMoves

LEMMA RetireKeeps ==
  ASSUME CutoverInv, NEW h \in Helper, RecordRetirement(h) \/ RemoveBackup(h)
  PROVE  CutoverInv'
<1> DEFINE g == Current(h)
<1>1. helper[h].pc = "retiring" /\ UNCHANGED <<files, saved, journal, receipt, gateway>>
  BY DEF RecordRetirement, RemoveBackup, At
<1>2. /\ TypeOK /\ RecordsInv /\ DataTyped /\ helper \in [Helper -> HelperRecord]
      /\ g \in Helper /\ helper[h].step = 1 /\ helper[h].pc \notin Unlocked
  BY <1>1, TypeParts DEF CutoverInv, HelperInv, Owner, Cut, Unlocked
<1>3. /\ retired' \subseteq Helper
      /\ backup' \in [Helper -> {"none", "whole", "partial", "gone"}]
      /\ \A k \in Helper : k \in retired' => journal[k] = "reconciled"
      /\ \A k \in Helper : backup'[k] = backup[k] \/ journal[k] = "reconciled"
  <2>1. \A k \in Helper : k \in retired => journal[k] = "reconciled"
    BY <1>2 DEF RecordsInv, BackupOf
  <2>2. CASE RecordRetirement(h)
    <3>1. /\ backup' = backup
          /\ retired' = retired \/ (journal[g] = "reconciled" /\ retired' = retired \cup {g})
      BY <2>2 DEF RecordRetirement, Retirable
    <3> QED BY <1>2, <2>1, <3>1 DEF DataTyped
  <2>3. CASE RemoveBackup(h)
    <3>1. /\ retired' = retired /\ g \in retired
          /\ \/ backup' = backup
             \/ backup' = [backup EXCEPT ![g] = "partial"]
             \/ backup' = [backup EXCEPT ![g] = "gone"]
      BY <2>3 DEF RemoveBackup
    <3>2. backup \in [Helper -> {"none", "whole", "partial", "gone"}] /\ retired \subseteq Helper
      BY <1>2 DEF DataTyped
    <3>3. /\ backup' \in [Helper -> {"none", "whole", "partial", "gone"}]
          /\ \A k \in Helper : k # g => backup'[k] = backup[k]
      BY <1>2, <3>1, <3>2
    <3> QED BY <2>1, <3>1, <3>2, <3>3
  <2> QED BY <2>2, <2>3
<1>4. RecordsInv'
  BY <1>1, <1>2, <1>3, BackupsMove
<1>5. DataTyped' /\ FreshKept(h)
  BY <1>1, <1>2, <1>3, FreshFrame DEF DataTyped, files, gateway
<1>6. CASE Exit(h)
  BY <1>2, <1>4, <1>5, <1>6, ExitKeeps
<1>7. CASE UNCHANGED <<helper, lock>>
  <2>1. MovesTo(h, "retiring", g) /\ helper'[h].step = 1
    BY <1>1, <1>2, <1>7 DEF MovesTo, Current
  <2>2. HelperInv(h)'
    BY <1>2, <2>1, RetirementReached
  <2>3. "retiring" \notin Unlocked
    BY DEF Unlocked
  <2> QED BY <1>2, <1>4, <1>5, <1>7, <2>1, <2>2, <2>3, Assemble
<1> QED BY <1>6, <1>7 DEF RecordRetirement, RemoveBackup

-----------------------------------------------------------------------------
(* The environment *)

LEMMA RunsKeep ==
  ASSUME CutoverInv, NEW r \in Run, CreateRun(r) \/ GatewayFailsRun(r)
  PROVE  CutoverInv'
<1>1. /\ DataTyped /\ RecordsInv /\ LockInv /\ helper \in [Helper -> HelperRecord]
      /\ lock \in Helper \cup {NoHelper} /\ \A k \in Helper : HelperInv(k)
  BY TypeParts DEF CutoverInv
<1>2. /\ UNCHANGED <<files, records, client, late, stray, proof, helper, lock>>
      /\ qa' \in [Run -> {"absent", "running", "passed", "failed"}]
      /\ \A q \in Run : qa'[q] = "passed" <=> qa[q] = "passed"
  BY <1>1 DEF CreateRun, GatewayFailsRun, DataTyped
<1>3. RecordsInv'
  BY <1>1, <1>2, RunsMove
<1>4. UNCHANGED <<env, config, loaded, backup, saved, journal, receipt, retired,
                  client, late, stray, proof, helper, lock>>
  BY <1>2 DEF files, records
<1>5. TypeOK' /\ LockInv'
  <2>1. DataTyped'
    BY <1>1, <1>2, <1>4 DEF DataTyped
  <2>2. LockInv'
    BY <1>1, <1>4 DEF LockInv
  <2> QED BY <1>1, <1>4, <2>1, <2>2, TypePartsAfter
<1>6. ASSUME NEW k \in Helper PROVE HelperInv(k)'
  <2>1. HelperInv(k)
    BY <1>1
  <2>2. Owner(k)'
    BY <1>4, <2>1 DEF HelperInv, Owner, Own, Current, Fresh
  <2>3. Cut(k)'
    BY <1>4, <2>1 DEF HelperInv, Cut, Fresh, NothingPending, Uncommitted, Applied
  <2>4. RolledBack(k)'
    BY <1>4, <2>1 DEF HelperInv, RolledBack, Current, Restored, OnDisk, RunsWhatIsWritten
  <2>5. Reconciled(k)'
    BY <1>2, <1>4, <2>1 DEF HelperInv, Reconciled, Current, InForce
  <2> QED BY <2>2, <2>3, <2>4, <2>5 DEF HelperInv
<1> QED BY <1>3, <1>5, <1>6 DEF CutoverInv

(* A client that was asked for long ago: its generation has begun, so that no *)
(* helper takes it for a fresh one.                                           *)
LEMMA LateClientKeeps ==
  ASSUME CutoverInv, NEW h \in Helper, LateClient(h)
  PROVE  CutoverInv'
<1>1. /\ DataTyped /\ RecordsInv /\ LockInv /\ helper \in [Helper -> HelperRecord]
      /\ lock \in Helper \cup {NoHelper} /\ \A k \in Helper : HelperInv(k)
  BY TypeParts DEF CutoverInv
<1>2. /\ UNCHANGED <<files, records, qa, proof, helper, lock>>
      /\ client' = [client EXCEPT ![h] = "active"] /\ stray' = stray \cup {h}
      /\ h \in late /\ late' = late \ {h}
  BY DEF LateClient
<1>3. client \in [Helper -> {"none", "active", "revoked"}]
  BY <1>1 DEF DataTyped
<1>4. /\ client' \in [Helper -> {"none", "active", "revoked"}]
      /\ \A k \in Helper : client'[k] = IF k = h THEN "active" ELSE client[k]
  BY <1>2, <1>3
<1>5. RecordsInv'
  BY <1>1, <1>2, <1>3, ClientGained
<1>6. UNCHANGED <<env, config, loaded, backup, saved, journal, receipt, retired,
                  qa, proof, helper, lock>>
  BY <1>2 DEF files, records
<1>7. TypeOK' /\ LockInv'
  <2>1. DataTyped'
    BY <1>1, <1>2, <1>4, <1>6 DEF DataTyped
  <2>2. LockInv'
    BY <1>1, <1>6 DEF LockInv
  <2> QED BY <1>1, <1>6, <2>1, <2>2, TypePartsAfter
<1>8. \A k \in Helper : Fresh(k) => Fresh(k)'
  BY <1>2, <1>4, <1>6 DEF Fresh
<1>9. ASSUME NEW k \in Helper PROVE HelperInv(k)'
  <2>1. HelperInv(k)
    BY <1>1
  <2>2. Owner(k)'
    BY <1>6, <1>8, <2>1 DEF HelperInv, Owner, Own, Current
  <2>3. Cut(k)'
    BY <1>4, <1>6, <1>8, <2>1 DEF HelperInv, Cut, NothingPending, Uncommitted, Applied
  <2>4. RolledBack(k)'
    <3> DEFINE g == Current(k)
    <3>1. RolledBack(k) /\ (helper[k].pc = "closing" => g \in Helper) /\ Current(k)' = g
      BY <1>6, <2>1 DEF HelperInv, Owner, CleaningUp, Current
    <3>2. helper[k].pc = "closing" => client'[g] # "active" \/ g \in stray'
      BY <1>2, <1>4, <3>1 DEF RolledBack
    <3> QED BY <1>6, <3>1, <3>2
            DEF RolledBack, Current, Restored, OnDisk, RunsWhatIsWritten
  <2>5. Reconciled(k)'
    <3>1. Reconciled(k) /\ Current(k)' = Current(k)
          /\ (helper[k].pc \in Reconciling => Current(k) \in Helper)
      BY <1>6, <2>1 DEF HelperInv, Owner, Current
    <3> QED BY <1>4, <1>6, <3>1 DEF Reconciled, InForce, Current
  <2> QED BY <2>2, <2>3, <2>4, <2>5 DEF HelperInv
<1> QED BY <1>5, <1>7, <1>9 DEF CutoverInv

LEMMA CrashKeeps ==
  ASSUME CutoverInv, NEW h \in Helper, Crash(h)
  PROVE  CutoverInv'
BY LeaveKeeps DEF Crash

-----------------------------------------------------------------------------
(* The invariant *)

LEMMA CutoverInvInit == Init => CutoverInv
<1> SUFFICES ASSUME Init PROVE CutoverInv
  OBVIOUS
<1>1. TypeOK
  <2>1. 1 \in DOMAIN Script
    BY ScriptSteps
  <2>2. NewHelper \in HelperRecord
    BY <2>1 DEF NewHelper, HelperRecord
  <2>3. helper \in [Helper -> HelperRecord] /\ lock \in Helper \cup {NoHelper}
    BY <2>2 DEF Init
  <2>4. DataTyped
    BY DEF Init, DataTyped
  <2> QED BY <2>3, <2>4, TypeParts
<1>2. LockInv
  BY CutoverAssumption DEF Init, LockInv, NewHelper, Unlocked
<1>3. \A g \in Helper : journal[g] = "none" /\ client[g] = "none" /\ late = {} /\ retired = {}
  BY DEF Init
<1>4. RecordsInv
  <2>1. env \notin Helper /\ config = ConfigOf(env) /\ loaded = OnDisk
    BY CutoverAssumption DEF Init, ConfigOf, OnDisk
  <2>2. \A r \in Run : qa[r] # "passed"
    BY DEF Init
  <2>3. OneIsPending /\ OneGenerationPerRun
    BY <1>3 DEF OneIsPending, OneGenerationPerRun, Pending, Undoable, Committed
  <2>4. \A g \in Helper : BackupOf(g) /\ SnapshotOf(g) /\ StateOf(g)
    BY <1>3 DEF BackupOf, SnapshotOf, StateOf, Pending, Undoable, Undone
  <2> QED BY <2>1, <2>2, <2>3, <2>4 DEF RecordsInv, Settled, RunOf, RunsWhatIsWritten
<1>5. \A h \in Helper : HelperInv(h)
  BY <1>3, CutoverAssumption
     DEF Init, NewHelper, HelperInv, Owner, Own, Cut, RolledBack, Reconciled, Fresh,
         Cutting, RollingBack, CleaningUp, Reconciling
<1> QED BY <1>1, <1>2, <1>4, <1>5 DEF CutoverInv

LEMMA CutoverInvStep ==
  ASSUME CommitsAreDurable, CutoverInv, [Next]_vars
  PROVE  CutoverInv'
<1>1. ASSUME NEW h \in Helper, JustRecover(h) \/ Recover(h) PROVE CutoverInv'
  BY <1>1, WaitingKeeps, AcquireLockKeeps, RecoverNextKeeps, DecideKeeps, PreflightKeeps DEF Recover
<1>2. ASSUME NEW h \in Helper, Apply(h) PROVE CutoverInv'
  BY <1>2, SnapshotKeeps, IssueClientKeeps, JournalCandidateKeeps, FilesKeep, VerifyHermesKeeps,
     WriteReceiptKeeps, CommitKeeps DEF Apply
<1>3. ASSUME NEW h \in Helper, RollBack(h) PROVE CutoverInv'
  BY <1>3, StopForRollbackKeeps, RestoreEnvKeeps, RestoreConfigKeeps, RestartKeeps,
     MarkRolledBackKeeps, RevokeCandidateKeeps, CloseKeeps, ReportFailedKeeps DEF RollBack
<1>4. ASSUME NEW h \in Helper, Reconcile(h) PROVE CutoverInv'
  BY <1>4, RevokePreviousKeeps, CompleteKeeps, RecordReconciledKeeps, RecordPendingKeeps
     DEF Reconcile
<1>5. ASSUME NEW h \in Helper, Retire(h) PROVE CutoverInv'
  BY <1>5, RetireKeeps DEF Retire
<1>6. ASSUME NEW h \in Helper, NEW r \in Run, Validate(h, r) PROVE CutoverInv'
  BY <1>6, ValidateKeeps
<1>7. ASSUME NEW h \in Helper, NEW g \in Helper, LockForRetirement(h, g) PROVE CutoverInv'
  BY <1>7, LockForRetirementKeeps
<1>8. ASSUME NEW h \in Helper, LateClient(h) \/ Crash(h) PROVE CutoverInv'
  BY <1>8, LateClientKeeps, CrashKeeps
<1>9. ASSUME NEW r \in Run, CreateRun(r) \/ GatewayFailsRun(r) PROVE CutoverInv'
  BY <1>9, RunsKeep
<1>10. CASE UNCHANGED vars
  BY <1>10
     DEF vars, CutoverInv, TypeOK, LockInv, RecordsInv, OneIsPending, BackupOf, SnapshotOf, StateOf,
         Settled, RunOf, OneGenerationPerRun, Restored, RunsWhatIsWritten, OnDisk, InForce, Open,
         HelperInv, Owner, Own, Current, Cut, RolledBack, Reconciled, Fresh, NothingPending,
         Uncommitted, Applied
<1> QED BY <1>1, <1>2, <1>3, <1>4, <1>5, <1>6, <1>7, <1>8, <1>9, <1>10 DEF Next

LEMMA Invariance ==
  ASSUME CommitsAreDurable
  PROVE  Spec => []CutoverInv
<1>1. Init => CutoverInv
  BY CutoverInvInit
<1>2. CutoverInv /\ [Next]_vars => CutoverInv'
  BY CutoverInvStep
<1> QED BY <1>1, <1>2, PTL DEF Spec


(* In every reachable state the tables of the model hold what they should:   *)
(* the helper of bin/nblb-hermes-cutover.rs never restores from a snapshot,  *)
(* completes a run or names a generation that does not exist, as long as the *)
(* committed journal is durable once it is written.                          *)
THEOREM TypeCorrect ==
  ASSUME CommitsAreDurable
  PROVE  Spec => []TypeOK
<1>1. CutoverInv => TypeOK
  BY DEF CutoverInv
<1> QED BY <1>1, Invariance, PTL

(* Between cutovers .env and config.yaml belong together and the container   *)
(* has read both (apply, rollback_after_failure), wherever helpers died and  *)
(* whoever finished their work, as long as the committed journal is durable  *)
(* and the docker stop of a rollback stops the container.                    *)
THEOREM HermesRunsBothFiles ==
  ASSUME CommitsAreDurable, StopsWork
  PROVE  Spec => []HermesRunsWhatIsWritten
<1>1. CutoverInv => HermesRunsWhatIsWritten
  <2> SUFFICES ASSUME CutoverInv, Open = {}
               PROVE  config = ConfigOf(env) /\ loaded = OnDisk
    BY DEF HermesRunsWhatIsWritten, ConfigOf
  <2> QED BY DEF CutoverInv, RecordsInv, Settled, RunsWhatIsWritten, StopsWork
<1> QED BY <1>1, Invariance, PTL

(* revoke_previous_clients and the clean-up of a rollback never revoke the   *)
(* client whose token Hermes uses or would be rolled back to.                *)
THEOREM TokensStayActive ==
  ASSUME CommitsAreDurable
  PROVE  Spec => []TokenStaysActive
<1>1. CutoverInv => TokenStaysActive
  <2> SUFFICES ASSUME CutoverInv, Token \in Helper PROVE client[Token] = "active"
    BY DEF TokenStaysActive
  <2>1. CASE Open = {}
    BY <2>1 DEF CutoverInv, RecordsInv, Settled, Token
  <2>2. CASE Open # {}
    <3> DEFINE g == CHOOSE k \in Open : TRUE
    <3>1. g \in Open
      BY <2>2
    <3>2. g \in Helper /\ journal[g] \in Undoable \cup {"rollback_cleanup_pending"} /\ StateOf(g)
      BY <3>1 DEF Open, CutoverInv, RecordsInv
    <3>3. Token = saved[g].env
      BY <2>2 DEF Token
    <3> HIDE DEF g
    <3> QED BY <3>2, <3>3 DEF StateOf
  <2> QED BY <2>1, <2>2
<1> QED BY <1>1, Invariance, PTL

(* Whichever helper undoes a generation has revoked its client when it says  *)
(* so in the journal (rolled_back, recovered), except for a client that the  *)
(* gateway created after the recovery looked for it.                         *)
THEOREM UndoneGenerationsAreRevoked ==
  ASSUME CommitsAreDurable
  PROVE  Spec => []UndoneClientsAreRevoked
<1>1. CutoverInv => UndoneClientsAreRevoked
  BY DEF CutoverInv, RecordsInv, StateOf, UndoneClientsAreRevoked
<1> QED BY <1>1, Invariance, PTL

(* complete_hermes passes a run for a generation whose journal is committed  *)
(* and whose cutover receipt names that run, and for no other.               *)
THEOREM PassedRunsHaveTheirGeneration ==
  ASSUME CommitsAreDurable
  PROVE  Spec => []PassedRunsAreCommitted
<1>1. CutoverInv => PassedRunsAreCommitted
  BY DEF CutoverInv, RecordsInv, RunOf, PassedRunsAreCommitted
<1> QED BY <1>1, Invariance, PTL

(* The second look at the run, under the lock (post_lock_qa_decision), keeps *)
(* two helpers started for one run from both committing a generation for it. *)
THEOREM RunsAreCommittedOnce ==
  ASSUME CommitsAreDurable
  PROVE  Spec => []OneGenerationPerRun
<1>1. CutoverInv => OneGenerationPerRun
  BY DEF CutoverInv, RecordsInv
<1> QED BY <1>1, Invariance, PTL

(* retire_backup never removes the snapshot of a generation that may still   *)
(* have to be rolled back or reconciled.                                     *)
THEOREM BackupsAreKept ==
  ASSUME CommitsAreDurable
  PROVE  Spec => []BackupsOutliveTheirUse
<1>1. CutoverInv => BackupsOutliveTheirUse
  BY DEF CutoverInv, RecordsInv, BackupOf, BackupsOutliveTheirUse
<1> QED BY <1>1, Invariance, PTL

(* No recovery takes back a generation whose journal is committed            *)
(* (docs/RUNBOOK.md): only a commit whose directory was not synced lets      *)
(* rollback_after_failure do it.                                             *)
THEOREM CommittedGenerationsStay ==
  ASSUME CommitsAreDurable
  PROVE  Spec => []CommittedIsNotRolledBack
<1>1. CutoverInv => CommittedIsNotRolledBack
  BY DEF CutoverInv, HelperInv, RolledBack, RollingBack, CommittedIsNotRolledBack, At, Undoable, Committed
<1> QED BY <1>1, Invariance, PTL

-----------------------------------------------------------------------------
(* The cutover implements its contract. *)

Verdicts == [g \in Helper |-> Verdict(g)]

LEMMA VerdictOf ==
  ASSUME NEW g \in Helper
  PROVE  /\ Verdict(g) = "open" <=> g \in Open
         /\ Verdict(g) = "committed" <=> journal[g] \in Committed
         /\ Verdict(g) = "undone" <=> journal[g] \in Undone
         /\ journal[g] = "none" => Verdict(g) = "none"
BY DEF Verdict, Open, Undoable, Committed, Undone

LEMMA VerdictOfNext ==
  ASSUME NEW g \in Helper
  PROVE  /\ Verdict(g)' = "open" <=> g \in Open'
         /\ Verdict(g)' = "committed" <=> journal'[g] \in Committed
         /\ Verdict(g)' = "undone" <=> journal'[g] \in Undone
         /\ journal'[g] = journal[g] => Verdict(g)' = Verdict(g)
BY DEF Verdict, Open, Undoable, Committed, Undone

(* A step that neither closes nor opens a generation, nor touches the token *)
LEMMA Stutters ==
  ASSUME \A k \in Helper : Verdict(k)' = Verdict(k),
         Open = {} => env' = env,
         \A k \in Open : saved'[k].env = saved[k].env
  PROVE  UNCHANGED <<Verdicts, Token>>
<1>1. Verdicts' = Verdicts
  BY DEF Verdicts
<1>2. Open' = Open
  <2>1. \A k \in Helper : k \in Open' <=> k \in Open
    BY VerdictOf, VerdictOfNext
  <2> QED BY <2>1 DEF Open
<1>3. CASE Open = {}
  BY <1>1, <1>2, <1>3 DEF Token
<1>4. CASE Open # {}
  <2>1. (CHOOSE g \in Open : TRUE) \in Open
    BY <1>4
  <2> QED BY <1>1, <1>2, <1>4, <2>1 DEF Token
<1> QED BY <1>3, <1>4

LEMMA TokenOfOpen ==
  ASSUME NEW g \in Helper
  PROVE  /\ Open = {} => Token = env
         /\ Open = {g} => Token = saved[g].env
BY DEF Token

LEMMA TokenOfOpenNext ==
  ASSUME NEW g \in Helper
  PROVE  /\ Open' = {} => Token' = env'
         /\ Open' = {g} => Token' = saved'[g].env
BY DEF Token

LEMMA SnapshotBegins ==
  ASSUME CutoverInv, NEW h \in Helper, Snapshot(h)
  PROVE  [Contract!Next]_<<Verdicts, Token>>
<1>1. helper[h].pc = "applying" /\ Script[helper[h].step] = "snapshot"
  BY DEF Snapshot, Doing, At
<1>2. DataTyped /\ Fresh(h) /\ NothingPending
  BY <1>1, ApplyFacts, StepOf
<1>3. UNCHANGED <<files, receipt, retired, gateway>>
  BY DEF Snapshot
<1>4. CASE UNCHANGED <<backup, saved, journal>>
  BY <1>3, <1>4, VerdictOfNext, Stutters DEF files
<1>5. CASE saved' = [saved EXCEPT ![h] = OnDisk] /\ Write(h, "client_operation_prepared")
  <2>1. /\ journal'[h] = "client_operation_prepared" /\ saved'[h].env = env /\ journal[h] = "none"
        /\ \A k \in Helper \ {h} : journal'[k] = journal[k]
    BY <1>2, <1>5 DEF Write, DataTyped, OnDisk, Fresh
  <2>2. Open = {} /\ Open' = {h}
    BY <1>2, <2>1 DEF Open, NothingPending, Pending, Undoable
  <2>3. /\ Verdict(h) = "none" /\ Verdict(h)' = "open"
        /\ \A k \in Helper : Verdict(k) # "open"
        /\ \A k \in Helper \ {h} : Verdict(k)' = Verdict(k)
    BY <2>1, <2>2, VerdictOf, VerdictOfNext
  <2>4. UNCHANGED Token
    BY <1>3, <2>1, <2>2, TokenOfOpen, TokenOfOpenNext DEF files
  <2>5. Verdicts' = [Verdicts EXCEPT ![h] = "open"]
    BY <2>3 DEF Verdicts
  <2>6. Contract!Begin(h)
    BY <2>3, <2>4, <2>5 DEF Contract!Begin, Verdicts
  <2> QED BY <2>6 DEF Contract!Next
<1> QED BY <1>4, <1>5 DEF Snapshot

(* An entry that leaves the generation open, or committed *)
LEMMA JournalStutters ==
  ASSUME DataTyped, NEW g \in Helper, NEW state, journal' = [journal EXCEPT ![g] = state],
         UNCHANGED <<files, saved>>,
         \/ /\ journal[g] \in Undoable \cup {"rollback_cleanup_pending"}
            /\ state \in Undoable \cup {"rollback_cleanup_pending"}
         \/ journal[g] \in Committed /\ state \in Committed
  PROVE  UNCHANGED <<Verdicts, Token>>
<1>1. /\ journal'[g] = state /\ \A k \in Helper \ {g} : journal'[k] = journal[k]
  BY DEF DataTyped
<1>2. Verdict(g)' = Verdict(g)
  BY <1>1, VerdictOf, VerdictOfNext DEF Open
<1>3. \A k \in Helper : Verdict(k)' = Verdict(k)
  BY <1>1, <1>2, VerdictOfNext
<1> QED BY <1>3, Stutters DEF files

LEMMA CommitCommits ==
  ASSUME CommitsAreDurable, CutoverInv, NEW h \in Helper, Commit(h)
  PROVE  [Contract!Next]_<<Verdicts, Token>>
<1>1. helper[h].pc = "applying" /\ Script[helper[h].step] = "commit"
  BY DEF Commit, Doing, At
<1>2. DataTyped /\ RecordsInv /\ journal[h] \in Undoable /\ env = h
  BY <1>1, ApplyFacts, StepOf DEF Applied
<1>3. UNCHANGED <<files, backup, saved, receipt, retired, gateway>>
  BY DEF Commit
<1>4. CASE UNCHANGED journal
  BY <1>3, <1>4, VerdictOfNext, Stutters DEF files
<1>5. CASE Write(h, "committed")
  <2>1. journal'[h] = "committed" /\ \A k \in Helper \ {h} : journal'[k] = journal[k]
    BY <1>2, <1>5 DEF Write, DataTyped
  <2>2. Open = {h}
    BY <1>2, OpenIsAlone DEF RecordsInv
  <2>3. Open' = {}
    BY <2>1, <2>2 DEF Open, Undoable
  <2>4. Verdict(h) = "open" /\ Verdict(h)' = "committed"
    BY <2>1, <2>2, VerdictOf, VerdictOfNext DEF Committed
  <2>5. \A k \in Helper \ {h} : Verdict(k)' = Verdict(k)
    BY <2>1, VerdictOfNext
  <2>6. Token' = h
    BY <1>2, <1>3, <2>3, TokenOfOpenNext DEF files
  <2>7. Verdicts' = [Verdicts EXCEPT ![h] = "committed"]
    BY <2>4, <2>5 DEF Verdicts
  <2>8. Contract!Commit(h)
    BY <2>4, <2>6, <2>7 DEF Contract!Commit, Verdicts
  <2> QED BY <2>8 DEF Contract!Next
<1> QED BY <1>4, <1>5 DEF Commit

LEMMA GenerationUndone ==
  ASSUME DataTyped, RecordsInv, NEW g \in Helper, NEW state \in Undone, Write(g, state),
         journal[g] \in Undoable \cup {"rollback_cleanup_pending"}, OnDisk = saved[g],
         UNCHANGED <<files, saved>>
  PROVE  Contract!Undo(g)
<1>1. journal'[g] = state /\ \A k \in Helper \ {g} : journal'[k] = journal[k]
  BY DEF Write, DataTyped
<1>2. Open = {g}
  BY OpenIsAlone DEF RecordsInv
<1>3. Open' = {}
  BY <1>1, <1>2 DEF Open, Undoable, Undone
<1>4. Verdict(g) = "open" /\ Verdict(g)' = "undone"
  BY <1>1, <1>2, VerdictOf, VerdictOfNext
<1>5. \A k \in Helper \ {g} : Verdict(k)' = Verdict(k)
  BY <1>1, VerdictOfNext
<1>6. UNCHANGED Token
  <2>1. saved[g].env = env
    BY DEF OnDisk
  <2> QED BY <1>2, <1>3, <2>1, TokenOfOpen, TokenOfOpenNext DEF files
<1>7. Verdicts' = [Verdicts EXCEPT ![g] = "undone"]
  BY <1>4, <1>5 DEF Verdicts
<1> QED BY <1>4, <1>6, <1>7 DEF Contract!Undo, Verdicts

LEMMA CloseUndoes ==
  ASSUME CutoverInv, NEW h \in Helper, Close(h)
  PROVE  [Contract!Next]_<<Verdicts, Token>>
<1> DEFINE g == Current(h)
<1>1. helper[h].pc = "closing" /\ helper[h].pc \in CleaningUp
  BY DEF Close, At, CleaningUp
<1>2. /\ DataTyped /\ RecordsInv /\ RolledBack(h) /\ g \in Helper
      /\ journal[g] \in Undoable \cup {"rollback_cleanup_pending"}
  BY <1>1, RollbackFacts
<1>3. OnDisk = saved[g]
  BY <1>1, <1>2 DEF RolledBack, Restored
<1>4. UNCHANGED <<files, backup, saved, receipt, retired, gateway>>
  BY DEF Close
<1>5. CASE UNCHANGED journal
  BY <1>4, <1>5, VerdictOfNext, Stutters DEF files
<1>6. CASE Write(g, "rolled_back") \/ Write(g, "recovered")
  <2>1. Contract!Undo(g)
    BY <1>2, <1>3, <1>4, <1>6, GenerationUndone DEF Undone
  <2> QED BY <1>2, <2>1 DEF Contract!Next
<1> QED BY <1>5, <1>6 DEF Close

(* The journal, the snapshots and .env as they are *)
LEMMA RecordsStutter ==
  ASSUME UNCHANGED <<env, saved, journal>>
  PROVE  UNCHANGED <<Verdicts, Token>>
BY VerdictOfNext, Stutters


(* The entries that change what is written but not the verdict *)
LEMMA EntryStutters ==
  ASSUME CutoverInv, NEW h \in Helper,
         JournalCandidate(h) \/ MarkRolledBack(h) \/ RecordReconciled(h) \/ RecordPending(h)
  PROVE  UNCHANGED <<Verdicts, Token>>
<1>1. UNCHANGED <<files, saved>> /\ DataTyped
  BY TypeParts DEF JournalCandidate, MarkRolledBack, RecordReconciled, RecordPending, CutoverInv
<1>2. CASE UNCHANGED journal
  BY <1>1, <1>2, RecordsStutter DEF files
<1>3. CASE JournalCandidate(h)
  <2>1. PICK state \in {"candidate_ready", "candidate_applied"} :
          Doing(h, state) /\ (UNCHANGED journal \/ Write(h, state))
    BY <1>3 DEF JournalCandidate, Attempted
  <2>2. helper[h].pc = "applying" /\ Script[helper[h].step] = state
    BY <2>1 DEF Doing, At
  <2>3. journal[h] \in Undoable /\ state \in Undoable
    BY <2>2, ApplyFacts, StepOf DEF Applied, Undoable
  <2> QED BY <1>1, <1>2, <2>1, <2>3, JournalStutters DEF Write
<1>4. CASE MarkRolledBack(h)
  <2>1. helper[h].pc = "marking" /\ helper[h].pc \in RollingBack
    BY <1>4 DEF MarkRolledBack, At, RollingBack
  <2>2. journal[h] \in Undoable
    <3>1. Current(h) = h
      BY <2>1 DEF CutoverInv, HelperInv, Owner, Own, Current
    <3> QED BY <2>1, <3>1, RollbackFacts
  <2> QED BY <1>1, <1>2, <1>4, <2>2, JournalStutters DEF MarkRolledBack, TryToWrite, Write
<1>5. CASE RecordReconciled(h) \/ RecordPending(h)
  <2>1. helper[h].pc \in Reconciling /\ (RecordPending(h) => helper[h].pc = "postponing")
    BY <1>5 DEF RecordReconciled, RecordPending, At, Reconciling
  <2>2. PICK g \in Helper : g = Current(h) /\ journal[g] \in Committed
    BY <2>1, ReconcileFacts
  <2>3. RecordPending(h) => g = h
    BY <2>1, <2>2 DEF CutoverInv, HelperInv, Owner, Own, Current
  <2>4. PICK state \in Committed : journal' = journal \/ journal' = [journal EXCEPT ![g] = state]
    BY <1>5, <2>2, <2>3 DEF RecordReconciled, RecordPending, TryToWrite, Write, Committed
  <2> QED BY <1>1, <1>2, <2>2, <2>4, JournalStutters
<1> QED BY <1>3, <1>4, <1>5

(* A file that is replaced while its generation is open is not the token. *)
LEMMA FileStutters ==
  ASSUME CutoverInv, NEW h \in Helper, WriteEnv(h) \/ RestoreEnv(h)
  PROVE  UNCHANGED <<Verdicts, Token>>
<1>1. UNCHANGED <<records, gateway>>
  BY DEF WriteEnv, RestoreEnv
<1>2. Open # {}
  <2>1. CASE WriteEnv(h)
    <3>1. helper[h].pc = "applying" /\ Script[helper[h].step] \in {"env", "old_env"}
      BY <2>1 DEF WriteEnv, Doing, At
    <3>2. journal[h] \in Undoable
      BY <3>1, ApplyFacts, StepOf DEF Applied
    <3> QED BY <3>2 DEF Open
  <2>2. CASE RestoreEnv(h)
    <3>1. helper[h].pc \in RollingBack
      BY <2>2 DEF RestoreEnv, At, RollingBack
    <3> QED BY <3>1, RollbackFacts DEF Open
  <2> QED BY <2>1, <2>2
<1> QED BY <1>1, <1>2, VerdictOfNext, Stutters DEF records

LEMMA ContractInit == Init => Contract!Init
<1> SUFFICES ASSUME Init PROVE Contract!Init
  OBVIOUS
<1>1. \A g \in Helper : journal[g] = "none" /\ Verdict(g) = "none"
  BY VerdictOf DEF Init
<1>2. Open = {} /\ Token = Original
  BY <1>1 DEF Init, Open, Undoable, Token
<1> QED BY <1>1, <1>2 DEF Contract!Init

LEMMA ContractStep ==
  ASSUME CommitsAreDurable, CutoverInv, [Next]_vars
  PROVE  [Contract!Next]_<<Verdicts, Token>>
<1>1. ASSUME NEW h \in Helper, JustRecover(h) \/ Recover(h) PROVE UNCHANGED <<env, saved, journal>>
  BY <1>1 DEF JustRecover, Recover, DecideIntent, AcquireLock, RecoverNext, Decide, Preflight,
              files, records
<1>2. ASSUME NEW h \in Helper, Apply(h) PROVE [Contract!Next]_<<Verdicts, Token>>
  <2>1. CASE Snapshot(h)
    BY <2>1, SnapshotBegins
  <2>2. CASE Commit(h)
    BY <2>2, CommitCommits
  <2>3. CASE JournalCandidate(h)
    BY <2>3, EntryStutters
  <2>4. CASE WriteEnv(h)
    BY <2>4, FileStutters
  <2>5. CASE \/ IssueClient(h) \/ StopContainer(h) \/ WriteConfig(h) \/ StartContainer(h)
             \/ VerifyHermes(h) \/ WriteReceipt(h)
    BY <2>5, RecordsStutter
       DEF IssueClient, StopContainer, WriteConfig, StartContainer, VerifyHermes, WriteReceipt,
           files, records
  <2> QED BY <1>2, <2>1, <2>2, <2>3, <2>4, <2>5 DEF Apply
<1>3. ASSUME NEW h \in Helper, RollBack(h) PROVE [Contract!Next]_<<Verdicts, Token>>
  <2>1. CASE RestoreEnv(h)
    BY <2>1, FileStutters
  <2>2. CASE MarkRolledBack(h)
    BY <2>2, EntryStutters
  <2>3. CASE Close(h)
    BY <2>3, CloseUndoes
  <2>4. CASE \/ StopForRollback(h) \/ RestoreConfig(h) \/ Restart(h) \/ RevokeCandidate(h)
             \/ ReportFailed(h)
    BY <2>4, RecordsStutter
       DEF StopForRollback, RestoreConfig, Restart, RevokeCandidate, ReportFailed, files, records
  <2> QED BY <1>3, <2>1, <2>2, <2>3, <2>4 DEF RollBack
<1>4. ASSUME NEW h \in Helper, Reconcile(h) PROVE UNCHANGED <<Verdicts, Token>>
  <2>1. CASE RevokePrevious(h) \/ Complete(h)
    BY <2>1, RecordsStutter DEF RevokePrevious, Complete, files, records
  <2>2. CASE RecordReconciled(h) \/ RecordPending(h)
    BY <2>2, EntryStutters
  <2> QED BY <1>4, <2>1, <2>2 DEF Reconcile
<1>5. ASSUME \/ \E h \in Helper : Retire(h) \/ LateClient(h) \/ Crash(h)
             \/ \E h \in Helper, r \in Run : Validate(h, r)
             \/ \E h, g \in Helper : LockForRetirement(h, g)
             \/ \E r \in Run : CreateRun(r) \/ GatewayFailsRun(r)
             \/ UNCHANGED vars
      PROVE  UNCHANGED <<env, saved, journal>>
  BY <1>5 DEF Retire, RecordRetirement, RemoveBackup, LateClient, Crash, Validate,
              LockForRetirement, CreateRun, GatewayFailsRun, files, records, vars
<1> QED BY <1>1, <1>2, <1>3, <1>4, <1>5, RecordsStutter DEF Next

(* What the rest of the system relies on (CutoverContract): generations are  *)
(* tried one at a time, each is committed or undone once and for all, by     *)
(* whichever helper (apply, recover_incomplete_cutovers), and the token of   *)
(* Hermes changes with a commit and with nothing else, not with a crash      *)
(* between two steps.                                                        *)
THEOREM CutoverKeepsItsContract ==
  ASSUME CommitsAreDurable
  PROVE  Spec => ImplementsContract
<1>1. CutoverInv /\ [Next]_vars => [Contract!Next]_<<Verdicts, Token>>
  BY ContractStep
<1>2. [Contract!Next]_<<Verdicts, Token>> =>
        [Contract!Next]_<<[g \in Helper |-> Verdict(g)], Token>>
  BY DEF Verdicts
<1> QED BY <1>1, <1>2, ContractInit, Invariance, PTL
        DEF Spec, ImplementsContract, Contract!Spec

=============================================================================
