------------------------------- MODULE QaRuns -------------------------------
(***************************************************************************)
(* QA runs of the gateway: rows of qa_runs and qa_cases, the task that      *)
(* executes a run, its timeout, the helper that completes a Hermes run, and *)
(* the recovery of a starting process (operations/qa.rs,                    *)
(* operations/admin_repository.rs).                                         *)
(*                                                                          *)
(* Owner holds the incarnations of the gateway process, in any order. A     *)
(* statement succeeds, fails ("error") or commits without an answer         *)
(* ("lost").                                                                *)
(***************************************************************************)
EXTENDS FiniteSets

CONSTANTS
  TrafficRuns,      \* smoke, distribution, failover, multimodal
  PersistenceRuns,
  HermesRuns,
  Case,             \* the cases of a run
  RestartCase,      \* restart_observed of a persistence run
  Owner,
  Faults,           \* subset of {"error", "lost", "crash", "session", "cleanup", "unspawned"}
  NoOwner, NoRun, NoCase

Run == TrafficRuns \cup PersistenceRuns \cup HermesRuns

ASSUME QaAssumption ==
  /\ NoOwner \notin Owner /\ NoRun \notin Run /\ NoCase \notin Case
  /\ RestartCase \in Case
  /\ TrafficRuns \cap PersistenceRuns = {} /\ TrafficRuns \cap HermesRuns = {}
  /\ PersistenceRuns \cap HermesRuns = {}

VARIABLES
  status,     \* qa_runs.status
  cases,      \* qa_cases.status, per run and case
  baseline,   \* owner_id in the snapshot of the armed persistence run
  runner,     \* the task of qa::spawn
  timer,      \* the process in which the timeout task of a run sleeps
  receipt,    \* runs whose cutover the helper has committed
  proc,       \* gateway processes; a dead one is "replaced" once another has started after it
  target,     \* the persistence run a starting process resumes
  lock,       \* holder of the session advisory lock
  scope,      \* the runs whose cases the closing transaction of a starting process updated
  creator,    \* history: the process that created a run
  displaced,  \* history: processes whose lock session broke
  missed      \* history: runs created between the two updates of such a transaction

tables == <<status, cases, baseline>>
procVars == <<proc, target, lock, scope, creator, displaced, missed>>
vars ==
  <<status, cases, baseline, runner, timer, receipt, proc, target, lock, scope, creator, displaced, missed>>

Open(r) == status[r] \in {"queued", "running"}
OpenCases(r) == {c \in Case : cases[r][c] \in {"pending", "running"}}
May(fault) == fault \in Faults

Idle == [pc |-> "idle", owner |-> NoOwner, todo |-> {}, case |-> NoCase, failed |-> FALSE]

Init ==
  /\ status = [r \in Run |-> "absent"]
  /\ cases = [r \in Run |-> [c \in Case |-> "pending"]]
  /\ baseline = [r \in Run |-> NoOwner]
  /\ runner = [r \in Run |-> Idle]
  /\ timer = [r \in Run |-> NoOwner]
  /\ receipt = {}
  /\ proc = [o \in Owner |-> "unborn"]
  /\ target = [o \in Owner |-> NoRun]
  /\ lock = NoOwner
  /\ scope = [o \in Owner |-> {}]
  /\ creator = [r \in Run |-> NoOwner] /\ displaced = {} /\ missed = {}

-----------------------------------------------------------------------------
(* Writing the rows *)

SetStatus(r, s) == status' = [status EXCEPT ![r] = s]
SetCases(r, S, s) ==
  cases' = [cases EXCEPT ![r] = [c \in Case |-> IF c \in S THEN s ELSE @[c]]]

FailOpenCases(r) == SetCases(r, OpenCases(r), "failed")
FailOpenRun(r) == IF Open(r) THEN SetStatus(r, "failed") ELSE UNCHANGED status

FailRunningRunAlways(r) ==
  FailOpenCases(r) /\ SetStatus(r, "failed") /\ UNCHANGED baseline
FailRunningRunOnly(r) == FailOpenRun(r) /\ UNCHANGED <<cases, baseline>>
(* fail_running_run: one transaction, a no-op on a closed run *)
FailRunningRun(r) ==
  /\ IF Open(r) THEN FailOpenCases(r) /\ SetStatus(r, "failed")
                ELSE UNCHANGED <<cases, status>>
  /\ UNCHANGED baseline

-----------------------------------------------------------------------------
(* Creating a run *)

Create(r, o) ==
  /\ proc[o] = "alive" /\ status[r] = "absent" /\ \A q \in Run : ~Open(q)
  /\ SetStatus(r, "queued") /\ UNCHANGED <<cases, baseline>>
  /\ \/ runner' = [runner EXCEPT ![r] = [Idle EXCEPT !.pc = "spawned", !.owner = o]]
     \/ May("unspawned") /\ UNCHANGED runner
  /\ creator' = [creator EXCEPT ![r] = o]
  /\ UNCHANGED <<timer, receipt, proc, target, lock, scope, displaced, missed>>

-----------------------------------------------------------------------------
(* The task of a run *)

At(r, pc) == runner[r].pc = pc
Become(r, pc, todo, c, failed) ==
  runner' = [runner EXCEPT ![r] =
    [pc |-> pc, owner |-> runner[r].owner, todo |-> todo, case |-> c, failed |-> failed]]
Goto(r, pc) == Become(r, pc, {}, NoCase, FALSE)
Fail(r) == Goto(r, "failing_cases")
End(r) == runner' = [runner EXCEPT ![r] = Idle]

(* The outcome of a step of execute: the write is done and the task goes on,
   it is done and the task does not know, or it failed. *)
Step(r, write, onwards) ==
  /\ \/ write /\ onwards
     \/ May("lost") /\ write /\ Fail(r)
     \/ May("error") /\ UNCHANGED tables /\ Fail(r)
  /\ UNCHANGED <<receipt, procVars>>

StartQueuedRunOfAnySuite(r) ==
  /\ At(r, "spawned") /\ status[r] = "queued"
  /\ Step(r, SetStatus(r, "running") /\ UNCHANGED <<cases, baseline>>, Goto(r, "traffic"))
  /\ UNCHANGED timer
StartQueuedRun(r) ==
  /\ At(r, "spawned") /\ r \in TrafficRuns
  /\ \/ /\ status[r] = "queued"
        /\ Step(r, SetStatus(r, "running") /\ UNCHANGED <<cases, baseline>>, Goto(r, "traffic"))
     \/ /\ status[r] # "queued"
        /\ Fail(r) /\ UNCHANGED <<tables, receipt, procVars>>
  /\ UNCHANGED timer

ArmHermes(r) ==
  /\ At(r, "spawned") /\ r \in HermesRuns
  /\ \/ /\ status[r] = "queued" /\ \A c \in Case : cases[r][c] = "pending"
        /\ Step(r, SetStatus(r, "running") /\ SetCases(r, Case, "running") /\ UNCHANGED baseline,
                End(r))
        /\ timer' = IF runner'[r] = Idle THEN [timer EXCEPT ![r] = runner[r].owner] ELSE timer
     \/ /\ ~(status[r] = "queued" /\ \A c \in Case : cases[r][c] = "pending")
        /\ Fail(r) /\ UNCHANGED <<tables, timer, receipt, procVars>>

PreparePersistence(r) ==
  /\ At(r, "spawned") /\ r \in PersistenceRuns
  /\ \/ /\ status[r] = "queued" /\ cases[r][RestartCase] = "pending"
        /\ Step(r, /\ SetStatus(r, "running") /\ SetCases(r, {RestartCase}, "running")
                   /\ baseline' = [baseline EXCEPT ![r] = runner[r].owner],
                End(r))
        /\ timer' = IF runner'[r] = Idle THEN [timer EXCEPT ![r] = runner[r].owner] ELSE timer
     \/ /\ ~(status[r] = "queued" /\ cases[r][RestartCase] = "pending")
        /\ Fail(r) /\ UNCHANGED <<tables, timer, receipt, procVars>>

(* exercise_traffic, whose error is kept until the run is closed *)
ExerciseTraffic(r) ==
  /\ At(r, "traffic")
  /\ \E failed \in BOOLEAN : Become(r, "cases", Case, NoCase, failed)
  /\ UNCHANGED <<tables, timer, receipt, procVars>>

(* A case that is closed already keeps finished_at: the row would break
   qa_cases_terminal_contract and the statement fails. *)
StartCase(r) ==
  /\ At(r, "cases")
  /\ \E c \in runner[r].todo :
       \/ /\ c \in OpenCases(r)
          /\ Step(r, SetCases(r, {c}, "running") /\ UNCHANGED <<status, baseline>>,
                  Become(r, "evaluating", runner[r].todo, c, runner[r].failed))
       \/ /\ c \notin OpenCases(r)
          /\ Fail(r) /\ UNCHANGED <<tables, receipt, procVars>>
  /\ UNCHANGED timer

FinishCaseUncounted(r) ==
  /\ At(r, "evaluating")
  /\ \E v \in {"passed", "failed"} :
       Step(r, SetCases(r, {runner[r].case}, v) /\ UNCHANGED <<status, baseline>>,
            Become(r, "cases", runner[r].todo \ {runner[r].case}, NoCase, runner[r].failed))
  /\ UNCHANGED timer
FinishCase(r) ==
  /\ At(r, "evaluating")
  /\ LET c == runner[r].case IN
     \E v \in {"passed", "failed"} :
       Step(r, /\ SetCases(r, {c} \cap {d \in Case : cases[r][d] = "running"}, v)
               /\ UNCHANGED <<status, baseline>>,
            Become(r, "cases", runner[r].todo \ {c}, NoCase, runner[r].failed \/ v = "failed"))
  /\ UNCHANGED timer

FinishRun(r) ==
  /\ At(r, "cases") /\ runner[r].todo = {}
  /\ Step(r, /\ IF status[r] = "running"
                THEN SetStatus(r, IF runner[r].failed THEN "failed" ELSE "passed")
                ELSE UNCHANGED status
             /\ UNCHANGED <<cases, baseline>>,
          End(r))
  /\ UNCHANGED timer

(* spawn closes what execute left, in two statements whose errors it ignores *)
FailCases(r) ==
  /\ At(r, "failing_cases")
  /\ FailOpenCases(r) \/ (May("cleanup") /\ UNCHANGED cases)
  /\ Goto(r, "failing_run")
  /\ UNCHANGED <<status, baseline, timer, receipt, procVars>>

FailRun(r) ==
  /\ At(r, "failing_run")
  /\ FailOpenRun(r) \/ (May("cleanup") /\ UNCHANGED status)
  /\ End(r)
  /\ UNCHANGED <<cases, baseline, timer, receipt, procVars>>

RunnerStep(r) ==
  \/ StartQueuedRun(r) \/ ArmHermes(r) \/ PreparePersistence(r)
  \/ ExerciseTraffic(r) \/ StartCase(r) \/ FinishCase(r) \/ FinishRun(r)
  \/ FailCases(r) \/ FailRun(r)

(* schedule_hermes_timeout, schedule_persistence_timeout *)
TimeOut(r) ==
  /\ timer[r] # NoOwner
  /\ FailRunningRun(r) \/ (May("cleanup") /\ UNCHANGED tables)
  /\ timer' = [timer EXCEPT ![r] = NoOwner]
  /\ UNCHANGED <<runner, receipt, procVars>>

-----------------------------------------------------------------------------
(* The Hermes helper *)

(* The helper commits its cutover outside of the gateway, whatever the gateway
   does with the run meanwhile. *)
HelperCommits(r) ==
  /\ r \in HermesRuns \ receipt /\ status[r] \in {"running", "failed"}
  /\ receipt' = receipt \cup {r}
  /\ UNCHANGED <<tables, runner, timer, procVars>>

(* complete_hermes with status failed *)
HermesFailed(r) ==
  /\ r \in HermesRuns /\ status[r] = "running" /\ \E o \in Owner : proc[o] = "alive"
  /\ SetCases(r, {c \in Case : cases[r][c] = "running"}, "failed")
  /\ SetStatus(r, "failed")
  /\ UNCHANGED <<baseline, runner, timer, receipt, procVars>>

(* complete_hermes with status passed: the evidence is that of a committed
   cutover, and every case is where the run's own status says it must be. *)
Reconcilable(r) == status[r] = "failed" /\ r \in receipt
HermesPassed(r) ==
  /\ r \in HermesRuns /\ \E o \in Owner : proc[o] = "alive"
  /\ \/ status[r] = "running" /\ r \in receipt
     \/ Reconcilable(r)
  /\ \A c \in Case : cases[r][c] = status[r]
  /\ SetCases(r, Case, "passed") /\ SetStatus(r, "passed")
  /\ UNCHANGED <<baseline, runner, timer, receipt, procVars>>

-----------------------------------------------------------------------------
(* Processes *)

Living(o) == proc[o] \notin {"unborn", "dead", "replaced"}

(* A process starts, beside a displaced one or after one that has exited. *)
OpenVault(o) ==
  /\ proc[o] = "unborn" /\ lock = NoOwner
  /\ proc' = [p \in Owner |->
       IF p = o THEN "recovering" ELSE IF proc[p] = "dead" THEN "replaced" ELSE proc[p]]
  /\ lock' = o
  /\ UNCHANGED <<tables, runner, timer, receipt, target, scope, creator, displaced, missed>>

(* The process exits. Owner is finite, so it does only while another incarnation is
   left to start, or while another process holds the lock: then the one that
   compose starts in its place would wait for the lock. *)
Exit(o) ==
  /\ lock \notin {o, NoOwner} \/ \E p \in Owner : proc[p] = "unborn"
  /\ proc' = [proc EXCEPT ![o] = "dead"]
  /\ lock' = IF lock = o THEN NoOwner ELSE lock

InterruptedWhileRunning == {r \in Run \ PersistenceRuns : status[r] = "running"}
Interrupted == {r \in Run : status[r] = "queued" \/ (status[r] = "running" /\ r \notin PersistenceRuns)}

(* recover_interrupted_runs: close_interrupted_runs, then the list of
   persistence runs to resume. The transaction updates the cases first and the
   runs after, each statement on what is committed when it starts. A write of a
   living process to the rows in between counts as done before the first
   statement, which locks them; a run it creates meanwhile does not. *)
CloseInterruptedCases(o) ==
  /\ proc[o] = "recovering"
  /\ proc' = [proc EXCEPT ![o] = "closing_runs"] /\ scope' = [scope EXCEPT ![o] = Interrupted]
  /\ UNCHANGED <<tables, runner, timer, receipt, target, lock, creator, displaced, missed>>

CloseInterruptedRuns(o) ==
  /\ proc[o] = "closing_runs"
  /\ status' = [r \in Run |-> IF r \in Interrupted THEN "failed" ELSE status[r]]
  /\ cases' = [r \in Run |-> [c \in Case |->
       IF r \in Interrupted \cap scope[o] /\ c \in OpenCases(r) THEN "failed" ELSE cases[r][c]]]
  /\ missed' = missed \cup (Interrupted \ scope[o]) /\ scope' = [scope EXCEPT ![o] = {}]
  /\ \/ proc' = [proc EXCEPT ![o] = "listing"] /\ UNCHANGED lock
     \/ May("lost") /\ Exit(o)
  /\ UNCHANGED <<baseline, runner, timer, receipt, target, creator, displaced>>

Waiting == {r \in PersistenceRuns : status[r] = "running"}
ListPersistenceRuns(o) ==
  /\ proc[o] = "listing"
  /\ \/ Waiting = {} /\ proc' = [proc EXCEPT ![o] = "alive"] /\ UNCHANGED target
     \/ \E r \in Waiting :
          proc' = [proc EXCEPT ![o] = "resuming"] /\ target' = [target EXCEPT ![o] = r]
  /\ UNCHANGED <<tables, runner, timer, receipt, lock, scope, creator, displaced, missed>>

(* resume_persistence: one transaction compares the snapshots *)
ResumePersistence(o) ==
  LET r == target[o]
      rest == {c \in Case : cases[r][c] = "pending"}
  IN
  /\ proc[o] = "resuming"
  /\ \/ /\ status[r] = "running" /\ cases[r][RestartCase] = "running" /\ baseline[r] # o
        /\ \E broken \in SUBSET rest :
             /\ cases' = [cases EXCEPT ![r] = [c \in Case |->
                  IF c \in broken THEN "failed"
                  ELSE IF c \in rest \cup {RestartCase} THEN "passed" ELSE @[c]]]
             /\ SetStatus(r, IF broken = {} THEN "passed" ELSE "failed")
        /\ \/ proc' = [proc EXCEPT ![o] = "alive"] /\ target' = [target EXCEPT ![o] = NoRun]
           \/ May("lost") /\ proc' = [proc EXCEPT ![o] = "closing"] /\ UNCHANGED target
     \/ /\ \/ ~(status[r] = "running" /\ cases[r][RestartCase] = "running" /\ baseline[r] # o)
           \/ May("error")
        /\ proc' = [proc EXCEPT ![o] = "closing"] /\ UNCHANGED <<cases, status, target>>
  /\ UNCHANGED <<baseline, runner, timer, receipt, lock, scope, creator, displaced, missed>>

CloseAfterResume(o) ==
  /\ proc[o] = "closing"
  /\ \/ FailRunningRun(target[o]) /\ proc' = [proc EXCEPT ![o] = "alive"] /\ UNCHANGED lock
     \/ May("lost") /\ FailRunningRun(target[o]) /\ Exit(o)
  /\ target' = [target EXCEPT ![o] = NoRun]
  /\ UNCHANGED <<runner, timer, receipt, scope, creator, displaced, missed>>

ProcessStep(o) ==
  \/ OpenVault(o) \/ CloseInterruptedCases(o) \/ CloseInterruptedRuns(o) \/ ListPersistenceRuns(o)
  \/ ResumePersistence(o) \/ CloseAfterResume(o)

(* The tasks of a process end with it. An error of the recovery ends the
   process as a crash does. *)
Crash(o) ==
  /\ May("crash") /\ Living(o)
  /\ Exit(o) /\ target' = [target EXCEPT ![o] = NoRun] /\ scope' = [scope EXCEPT ![o] = {}]
  /\ runner' = [r \in Run |-> IF runner[r].owner = o THEN Idle ELSE runner[r]]
  /\ timer' = [r \in Run |-> IF timer[r] = o THEN NoOwner ELSE timer[r]]
  /\ UNCHANGED <<tables, receipt, creator, displaced, missed>>

(* The session that holds the advisory lock breaks; nobody notices. *)
LoseSession(o) ==
  /\ May("session") /\ lock = o /\ lock' = NoOwner
  /\ displaced' = displaced \cup {o}
  /\ UNCHANGED <<tables, runner, timer, receipt, proc, target, scope, creator, missed>>

-----------------------------------------------------------------------------
Next ==
  \/ \E r \in Run : RunnerStep(r) \/ TimeOut(r)
  \/ \E r \in Run, o \in Owner : Create(r, o)
  \/ \E r \in Run : HelperCommits(r) \/ HermesFailed(r) \/ HermesPassed(r)
  \/ \E o \in Owner : ProcessStep(o) \/ Crash(o) \/ LoseSession(o)

Spec == Init /\ [][Next]_vars

(* Statements are bounded by timeouts, sleeps end, and compose starts the gateway
   again (restart: unless-stopped) when it has exited; it gets past its vault once
   the lock is free. *)
Restart(o) == OpenVault(o) /\ \E p \in Owner : proc[p] = "dead"
Recovery(o) ==
  \/ CloseInterruptedCases(o) \/ CloseInterruptedRuns(o)
  \/ ListPersistenceRuns(o) \/ ResumePersistence(o) \/ CloseAfterResume(o)

FairSpec ==
  /\ Spec
  /\ \A r \in Run : WF_vars(RunnerStep(r)) /\ WF_vars(TimeOut(r))
  /\ \A o \in Owner : WF_vars(Restart(o)) /\ WF_vars(Recovery(o))

-----------------------------------------------------------------------------
Task ==
  [pc : {"idle", "spawned", "traffic", "cases", "evaluating", "failing_cases", "failing_run"},
   owner : Owner \cup {NoOwner}, todo : SUBSET Case, case : Case \cup {NoCase}, failed : BOOLEAN]

(* Types: a timeout sleeps for a Hermes or a persistence run only, a starting
   process resumes persistence runs only. *)
TypeOK ==
  /\ status \in [Run -> {"absent", "queued", "running", "passed", "failed"}]
  /\ cases \in [Run -> [Case -> {"pending", "running", "passed", "failed"}]]
  /\ baseline \in [Run -> Owner \cup {NoOwner}]
  /\ runner \in [Run -> Task]
  /\ timer \in [Run -> Owner \cup {NoOwner}]
  /\ \A r \in TrafficRuns : timer[r] = NoOwner
  /\ receipt \subseteq HermesRuns
  /\ proc \in [Owner ->
       {"unborn", "recovering", "closing_runs", "listing", "resuming", "closing", "alive", "dead",
        "replaced"}]
  /\ target \in [Owner -> PersistenceRuns \cup {NoRun}]
  /\ lock \in Owner \cup {NoOwner} /\ displaced \subseteq Owner
  /\ scope \in [Owner -> SUBSET Run] /\ missed \subseteq Run
  /\ creator \in [Run -> Owner \cup {NoOwner}]

(* A run is passed only when each of its cases is, whoever closed it: the task
   that evaluated them one by one, the restarted process or the helper. *)
PassedRunsPassedEveryCase ==
  \A r \in Run : status[r] = "passed" => \A c \in Case : cases[r][c] = "passed"

(* Whoever closes a run -- its task, the timeout, the helper, a process that
   starts beside a living one -- leaves none of its cases pending or running,
   and the task that is still evaluating does not reopen one. The exception is
   a run the living process creates while the other one is closing runs. *)
ClosedRunsHaveNoOpenCase ==
  \A r \in Run \ missed : status[r] \in {"passed", "failed"} => OpenCases(r) = {}

(* A persistence run passes only in the start of a process other than the one
   that took the snapshot. *)
PersistencePassesOnRestart ==
  [][\A r \in PersistenceRuns : status[r] # "passed" /\ status'[r] = "passed" =>
       \E o \in Owner \ {baseline[r]} : proc[o] = "resuming" /\ target[o] = r]_vars

(* The rows keep the promises of QaContract: one open run in the database,
   verdicts that stay, and only a Hermes run passes after it failed. *)
Verdicts ==
  [r \in Run |-> IF Open(r) THEN "open" ELSE status[r]]
Contract == INSTANCE QaContract WITH verdict <- Verdicts
ImplementsContract == Contract!Spec

(* A run ends, through crashes, failed statements, restarts and a second process.
   The exception is a run whose process lost its lock session and then died: its
   container cannot pass the vault while the successor holds the lock, and the
   successor, which has recovered already, does not look for the run. *)
Orphaned(r) == creator[r] \in displaced /\ ~Living(creator[r])
EveryRunEnds ==
  \A r \in Run : Open(r) ~> (~Open(r) \/ Orphaned(r))
=============================================================================
