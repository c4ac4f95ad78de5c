---------------------------- MODULE QaRuns_proofs ----------------------------
(***************************************************************************)
(* Proofs about QaRuns: the rows of qa_runs keep the promises of           *)
(* QaContract, whatever the faults and however many processes.             *)
(***************************************************************************)
EXTENDS QaRuns, TLAPS

Status == {"absent", "queued", "running", "passed", "failed"}

OneOpenRun == \A q, r \in Run : Open(q) /\ Open(r) => q = r

StatusInv == status \in [Run -> Status] /\ OneOpenRun

(* What one step may do to one row. *)
Moves(r, s) ==
  /\ status' = [status EXCEPT ![r] = s]
  /\ \/ Open(r) /\ s \in {"running", "passed", "failed"}
     \/ r \in HermesRuns /\ status[r] = "failed" /\ s = "passed"
     \/ status[r] = "absent" /\ s = "queued" /\ \A q \in Run : ~Open(q)

Interrupts ==
  status' = [r \in Run |-> IF r \in Interrupted THEN "failed" ELSE status[r]]

-----------------------------------------------------------------------------
(* Every step leaves the statuses alone, moves one row, or is the recovery. *)
LEMMA RunnerMoves ==
  ASSUME NEW r \in Run, RunnerStep(r)
  PROVE  UNCHANGED status \/ \E s \in Status : Moves(r, s)
<1>1. CASE StartQueuedRun(r)
  BY <1>1 DEF StartQueuedRun, Step, SetStatus, Moves, Open, Status, tables
<1>2. CASE ArmHermes(r)
  BY <1>2 DEF ArmHermes, Step, SetStatus, Moves, Open, Status, tables
<1>3. CASE PreparePersistence(r)
  BY <1>3 DEF PreparePersistence, Step, SetStatus, Moves, Open, Status, tables
<1>4. CASE ExerciseTraffic(r)
  BY <1>4 DEF ExerciseTraffic, tables
<1>5. CASE StartCase(r)
  BY <1>5 DEF StartCase, Step, tables
<1>6. CASE FinishCase(r)
  BY <1>6 DEF FinishCase, Step, tables
<1>7. CASE FinishRun(r)
  BY <1>7 DEF FinishRun, Step, SetStatus, Moves, Open, Status, tables
<1>8. CASE FailCases(r)
  BY <1>8 DEF FailCases
<1>9. CASE FailRun(r)
  BY <1>9 DEF FailRun, FailOpenRun, SetStatus, Moves, Status
<1> QED
  BY <1>1, <1>2, <1>3, <1>4, <1>5, <1>6, <1>7, <1>8, <1>9 DEF RunnerStep

LEMMA FailureMoves ==
  ASSUME NEW r, FailRunningRun(r)
  PROVE  UNCHANGED status \/ \E s \in Status : Moves(r, s)
BY DEF FailRunningRun, SetStatus, Moves, Status

LEMMA HelperMoves ==
  ASSUME NEW r \in Run, HelperCommits(r) \/ HermesFailed(r) \/ HermesPassed(r)
  PROVE  UNCHANGED status \/ \E s \in Status : Moves(r, s)
BY DEF HelperCommits, HermesFailed, HermesPassed, Reconcilable, SetStatus, Moves, Open, Status, tables

LEMMA ResumeMoves ==
  ASSUME NEW o \in Owner, ResumePersistence(o)
  PROVE  UNCHANGED status \/ \E s \in Status : Moves(target[o], s)
<1>1. status[target[o]] = "running" =>
        (\E s \in {"passed", "failed"} : status' = [status EXCEPT ![target[o]] = s])
        \/ UNCHANGED status
  BY DEF ResumePersistence, SetStatus
<1>2. status[target[o]] # "running" => UNCHANGED status
  BY DEF ResumePersistence
<1> QED
  BY <1>1, <1>2 DEF Moves, Open, Status

LEMMA ProcessMoves ==
  ASSUME NEW o \in Owner, ProcessStep(o) \/ Crash(o) \/ LoseSession(o)
  PROVE  UNCHANGED status \/ Interrupts \/ \E s \in Status : Moves(target[o], s)
<1>1. CASE OpenVault(o)
  BY <1>1 DEF OpenVault, tables
<1>2. CASE CloseInterruptedCases(o)
  BY <1>2 DEF CloseInterruptedCases, tables
<1>3. CASE CloseInterruptedRuns(o)
  BY <1>3 DEF CloseInterruptedRuns, Interrupts
<1>4. CASE ListPersistenceRuns(o)
  BY <1>4 DEF ListPersistenceRuns, tables
<1>5. CASE ResumePersistence(o)
  BY <1>5, ResumeMoves
<1>6. CASE CloseAfterResume(o)
  BY <1>6, FailureMoves DEF CloseAfterResume
<1>7. CASE Crash(o) \/ LoseSession(o)
  BY <1>7 DEF Crash, LoseSession, tables
<1> QED
  BY <1>1, <1>2, <1>3, <1>4, <1>5, <1>6, <1>7 DEF ProcessStep

LEMMA StepMoves ==
  ASSUME [Next]_vars
  PROVE  UNCHANGED status \/ Interrupts \/ \E r : \E s \in Status : Moves(r, s)
<1>1. ASSUME NEW r \in Run, RunnerStep(r) PROVE UNCHANGED status \/ \E s \in Status : Moves(r, s)
  BY <1>1, RunnerMoves
<1>2. ASSUME NEW r \in Run, TimeOut(r) PROVE UNCHANGED status \/ \E s \in Status : Moves(r, s)
  BY <1>2, FailureMoves DEF TimeOut, tables
<1>3. ASSUME NEW r \in Run, NEW o \in Owner, Create(r, o) PROVE Moves(r, "queued")
  BY <1>3 DEF Create, SetStatus, Moves
<1>4. CASE UNCHANGED vars
  BY <1>4 DEF vars
<1> QED
  BY <1>1, <1>2, <1>3, <1>4, HelperMoves, ProcessMoves DEF Next, Status

-----------------------------------------------------------------------------
(* The single active run *)

LEMMA StatusInvInit == Init => StatusInv
BY DEF Init, StatusInv, OneOpenRun, Open, Status

LEMMA StatusInvStep == StatusInv /\ [Next]_vars => StatusInv'
<1> SUFFICES ASSUME StatusInv, [Next]_vars PROVE StatusInv'
  OBVIOUS
<1>1. CASE UNCHANGED status
  BY <1>1 DEF StatusInv, OneOpenRun, Open
<1>2. CASE Interrupts
  BY <1>2 DEF Interrupts, Interrupted, StatusInv, OneOpenRun, Open, Status
<1>3. ASSUME NEW r, NEW s \in Status, Moves(r, s) PROVE StatusInv'
  <2>1. status' \in [Run -> Status]
    BY <1>3 DEF Moves, StatusInv
  <2>2. ASSUME NEW p \in Run, NEW q \in Run, Open(p)', Open(q)' PROVE p = q
    <3>1. CASE s = "queued"
      BY <1>3, <2>2, <3>1 DEF Moves, StatusInv, OneOpenRun, Open
    <3>2. CASE s # "queued"
      <4>1. ASSUME NEW t \in Run, Open(t)' PROVE Open(t)
        BY <1>3, <3>2, <4>1 DEF Moves, StatusInv, Open
      <4> QED
        BY <2>2, <4>1 DEF StatusInv, OneOpenRun
    <3> QED
      BY <3>1, <3>2
  <2> QED
    BY <2>1, <2>2 DEF StatusInv, OneOpenRun
<1> QED
  BY <1>1, <1>2, <1>3, StepMoves

(* At most one run is queued or running, and every row has a status of the
   table: the index qa_runs_single_active_idx, kept through every start. *)
THEOREM SingleActiveRun == Spec => []StatusInv
BY StatusInvInit, StatusInvStep, PTL DEF Spec

-----------------------------------------------------------------------------
(* The contract *)

LEMMA ContractInit == Init => Contract!Init
BY DEF Init, Contract!Init, Verdicts, Open

LEMMA ContractStep == StatusInv /\ [Next]_vars => [Contract!Next]_Verdicts
<1> SUFFICES ASSUME StatusInv, [Next]_vars PROVE [Contract!Next]_Verdicts
  OBVIOUS
<1>1. CASE UNCHANGED status
  BY <1>1 DEF Verdicts, Open
<1>2. CASE Interrupts
  <2>1. CASE Interrupted = {}
    BY <1>2, <2>1 DEF Interrupts, StatusInv, Verdicts, Open
  <2>2. CASE Interrupted # {}
    <3>1. PICK r \in Run : r \in Interrupted
      BY <2>2 DEF Interrupted
    <3>2. Open(r) /\ \A q \in Run : q \in Interrupted => q = r
      BY <3>1 DEF Interrupted, Open, StatusInv, OneOpenRun
    <3>3. Verdicts' = [Verdicts EXCEPT ![r] = "failed"]
      BY <1>2, <3>1, <3>2 DEF Interrupts, StatusInv, Verdicts, Open
    <3>4. Contract!Close(r)
      BY <3>2, <3>3 DEF Contract!Close, Verdicts
    <3> QED
      BY <3>4 DEF Contract!Next
  <2> QED
    BY <2>1, <2>2
<1>3. ASSUME NEW r, NEW s \in Status, Moves(r, s) PROVE [Contract!Next]_Verdicts
  <2>1. CASE r \notin Run
    BY <1>3, <2>1 DEF Moves, StatusInv, Verdicts, Open
  <2>2. CASE r \in Run /\ Open(r) /\ s = "running"
    BY <1>3, <2>2 DEF Moves, StatusInv, Verdicts, Open
  <2>3. CASE r \in Run /\ Open(r) /\ s \in {"passed", "failed"}
    <3>1. Verdicts[r] = "open" /\ Verdicts' = [Verdicts EXCEPT ![r] = s]
      BY <1>3, <2>3 DEF Moves, StatusInv, Verdicts, Open
    <3>2. Contract!Close(r)
      BY <2>3, <3>1 DEF Contract!Close
    <3> QED
      BY <2>3, <3>2 DEF Contract!Next
  <2>4. CASE r \in Run /\ r \in HermesRuns /\ status[r] = "failed" /\ s = "passed"
    <3>1. Verdicts[r] = "failed" /\ Verdicts' = [Verdicts EXCEPT ![r] = "passed"]
      BY <1>3, <2>4 DEF Moves, StatusInv, Verdicts, Open
    <3>2. Contract!Reconcile(r)
      BY <2>4, <3>1 DEF Contract!Reconcile
    <3> QED
      BY <2>4, <3>2 DEF Contract!Next
  <2>5. CASE r \in Run /\ status[r] = "absent" /\ s = "queued" /\ \A q \in Run : ~Open(q)
    <3>1. /\ Verdicts[r] = "absent" /\ \A q \in Run : Verdicts[q] # "open"
          /\ Verdicts' = [Verdicts EXCEPT ![r] = "open"]
      BY <1>3, <2>5 DEF Moves, StatusInv, Verdicts, Open, Status
    <3>2. Contract!Create(r)
      BY <3>1 DEF Contract!Create
    <3> QED
      BY <2>5, <3>2 DEF Contract!Next
  <2> QED
    BY <1>3, <2>1, <2>2, <2>3, <2>4, <2>5 DEF Moves
<1> QED
  BY <1>1, <1>2, <1>3, StepMoves

(* The rows of qa_runs keep the promises of QaContract: at most one open run,
   verdicts that stay, and only a Hermes run passes after it failed. *)
THEOREM RunsKeepTheContract == Spec => ImplementsContract
BY StatusInvInit, StatusInvStep, ContractInit, ContractStep, PTL
   DEF Spec, ImplementsContract, Contract!Spec

-----------------------------------------------------------------------------
(* Types *)

LEMMA CasesTyped ==
  ASSUME TypeOK, NEW r, NEW S, NEW s \in {"pending", "running", "passed", "failed"},
         SetCases(r, S, s)
  PROVE  cases' \in [Run -> [Case -> {"pending", "running", "passed", "failed"}]]
BY DEF TypeOK, SetCases

LEMMA BecomeTyped ==
  ASSUME TypeOK, NEW r \in Run, NEW todo \in SUBSET Case, NEW c \in Case \cup {NoCase},
         NEW failed \in BOOLEAN, NEW pc \in {"traffic", "cases", "evaluating", "failing_cases", "failing_run"},
         Become(r, pc, todo, c, failed)
  PROVE  runner' \in [Run -> Task]
<1> DEFINE t == [pc |-> pc, owner |-> runner[r].owner, todo |-> todo, case |-> c, failed |-> failed]
<1>1. runner \in [Run -> Task] /\ runner' = [runner EXCEPT ![r] = t]
  BY DEF TypeOK, Become
<1>2. runner[r].owner \in Owner \cup {NoOwner}
  BY <1>1 DEF Task
<1>3. t \in Task
  BY <1>2 DEF Task
<1> QED
  BY <1>1, <1>3

LEMMA TaskTyped ==
  ASSUME TypeOK, NEW r \in Run, End(r) \/ Fail(r) \/ Goto(r, "traffic") \/ Goto(r, "failing_run")
  PROVE  runner' \in [Run -> Task]
<1>1. CASE End(r)
  <2>1. Idle \in Task
    BY DEF Idle, Task
  <2> QED
    BY <1>1, <2>1 DEF End, TypeOK
<1>2. CASE Fail(r) \/ Goto(r, "traffic") \/ Goto(r, "failing_run")
  <2>1. {} \in SUBSET Case /\ NoCase \in Case \cup {NoCase} /\ FALSE \in BOOLEAN
    OBVIOUS
  <2> QED
    BY <1>2, <2>1, BecomeTyped DEF Fail, Goto
<1> QED
  BY <1>1, <1>2

LEMMA RunnerTyped ==
  ASSUME TypeOK, NEW r \in Run, RunnerStep(r)
  PROVE  TypeOK'
<1> USE DEF procVars, tables
<1>1. CASE StartQueuedRun(r)
  BY <1>1, TaskTyped DEF StartQueuedRun, Step, TypeOK, SetStatus
<1>2. CASE ArmHermes(r)
  <2>1. runner' \in [Run -> Task]
    BY <1>2, TaskTyped DEF ArmHermes, Step
  <2>2. /\ cases' \in [Run -> [Case -> {"pending", "running", "passed", "failed"}]]
        /\ baseline' = baseline
    BY <1>2, CasesTyped DEF ArmHermes, Step, TypeOK
  <2>3. status' \in [Run -> {"absent", "queued", "running", "passed", "failed"}]
    BY <1>2 DEF ArmHermes, Step, SetStatus, TypeOK
  <2>4. runner[r].owner \in Owner \cup {NoOwner}
    BY DEF TypeOK, Task
  <2>5. timer' = timer \/ timer' = [timer EXCEPT ![r] = runner[r].owner]
    BY <1>2 DEF ArmHermes
  <2>6. r \notin TrafficRuns
    BY <1>2, QaAssumption DEF ArmHermes
  <2>7. UNCHANGED <<receipt, procVars>>
    BY <1>2 DEF ArmHermes, Step
  <2>8. timer' \in [Run -> Owner \cup {NoOwner}] /\ \A t \in TrafficRuns : timer'[t] = NoOwner
    BY <2>4, <2>5, <2>6 DEF TypeOK, Run
  <2> QED
    BY <2>1, <2>2, <2>3, <2>7, <2>8 DEF TypeOK
<1>3. CASE PreparePersistence(r)
  <2>1. runner' \in [Run -> Task]
    BY <1>3, TaskTyped DEF PreparePersistence, Step
  <2>2. cases' \in [Run -> [Case -> {"pending", "running", "passed", "failed"}]]
    BY <1>3, CasesTyped DEF PreparePersistence, Step, TypeOK
  <2>3. status' \in [Run -> {"absent", "queued", "running", "passed", "failed"}]
    BY <1>3 DEF PreparePersistence, Step, SetStatus, TypeOK
  <2>4. runner[r].owner \in Owner \cup {NoOwner}
    BY DEF TypeOK, Task
  <2>5. timer' = timer \/ timer' = [timer EXCEPT ![r] = runner[r].owner]
    BY <1>3 DEF PreparePersistence
  <2>6. r \notin TrafficRuns
    BY <1>3, QaAssumption DEF PreparePersistence
  <2>7. baseline' \in [Run -> Owner \cup {NoOwner}]
    BY <1>3, <2>4 DEF PreparePersistence, Step, TypeOK
  <2>8. UNCHANGED <<receipt, procVars>>
    BY <1>3 DEF PreparePersistence, Step
  <2>9. timer' \in [Run -> Owner \cup {NoOwner}] /\ \A t \in TrafficRuns : timer'[t] = NoOwner
    BY <2>4, <2>5, <2>6 DEF TypeOK, Run
  <2> QED
    BY <2>1, <2>2, <2>3, <2>7, <2>8, <2>9 DEF TypeOK
<1>4. CASE ExerciseTraffic(r)
  <2>1. Case \in SUBSET Case /\ NoCase \in Case \cup {NoCase}
    OBVIOUS
  <2>2. runner' \in [Run -> Task]
    BY <1>4, <2>1, BecomeTyped DEF ExerciseTraffic
  <2> QED
    BY <1>4, <2>2 DEF ExerciseTraffic, TypeOK
<1>5. CASE StartCase(r)
  <2>1. runner[r].todo \in SUBSET Case /\ runner[r].failed \in BOOLEAN
    BY DEF Task, TypeOK
  <2>2. runner' \in [Run -> Task]
    BY <1>5, <2>1, BecomeTyped, TaskTyped DEF StartCase, Step
  <2>3. cases' \in [Run -> [Case -> {"pending", "running", "passed", "failed"}]]
    BY <1>5, CasesTyped DEF StartCase, Step, TypeOK
  <2> QED
    BY <1>5, <2>2, <2>3 DEF StartCase, Step, TypeOK
<1>6. CASE FinishCase(r)
  <2>1. runner[r].todo \ {runner[r].case} \in SUBSET Case /\ runner[r].failed \in BOOLEAN
    BY DEF Task, TypeOK
  <2>2. \A v : (runner[r].failed \/ v = "failed") \in BOOLEAN
    BY <2>1
  <2>3. NoCase \in Case \cup {NoCase}
    OBVIOUS
  <2>4. runner' \in [Run -> Task]
    BY <1>6, <2>1, <2>2, <2>3, BecomeTyped, TaskTyped DEF FinishCase, Step
  <2>5. cases' \in [Run -> [Case -> {"pending", "running", "passed", "failed"}]]
    BY <1>6, CasesTyped DEF FinishCase, Step, TypeOK
  <2> QED
    BY <1>6, <2>4, <2>5 DEF FinishCase, Step, TypeOK
<1>7. CASE FinishRun(r)
  BY <1>7, TaskTyped DEF FinishRun, Step, TypeOK, SetStatus
<1>8. CASE FailCases(r)
  BY <1>8, TaskTyped, CasesTyped DEF FailCases, FailOpenCases, TypeOK
<1>9. CASE FailRun(r)
  BY <1>9, TaskTyped DEF FailRun, FailOpenRun, TypeOK, SetStatus
<1> QED
  BY <1>1, <1>2, <1>3, <1>4, <1>5, <1>6, <1>7, <1>8, <1>9 DEF RunnerStep

LEMMA ProcessTyped ==
  ASSUME TypeOK, NEW o \in Owner, ProcessStep(o) \/ Crash(o) \/ LoseSession(o)
  PROVE  TypeOK'
<1> USE DEF TypeOK, tables, SetStatus, Exit
<1>1. CASE OpenVault(o)
  BY <1>1 DEF OpenVault
<1>2. CASE CloseInterruptedCases(o)
  BY <1>2 DEF CloseInterruptedCases, Interrupted
<1>3. CASE CloseInterruptedRuns(o)
  BY <1>3 DEF CloseInterruptedRuns, Interrupted
<1>4. CASE ListPersistenceRuns(o)
  BY <1>4, SMTT(30) DEF ListPersistenceRuns, Waiting
<1>5. CASE ResumePersistence(o)
  <2>1. cases' \in [Run -> [Case -> {"pending", "running", "passed", "failed"}]]
    BY <1>5 DEF ResumePersistence
  <2>2. status' \in [Run -> {"absent", "queued", "running", "passed", "failed"}]
    BY <1>5 DEF ResumePersistence
  <2>3. /\ proc' = [proc EXCEPT ![o] = "alive"] \/ proc' = [proc EXCEPT ![o] = "closing"]
        /\ target' = target \/ target' = [target EXCEPT ![o] = NoRun]
    BY <1>5 DEF ResumePersistence
  <2> QED
    BY <1>5, <2>1, <2>2, <2>3 DEF ResumePersistence
<1>6. CASE CloseAfterResume(o)
  BY <1>6, CasesTyped DEF CloseAfterResume, FailRunningRun, FailOpenCases
<1>7. CASE Crash(o)
  <2>1. Idle \in Task
    BY DEF Idle, Task
  <2> QED
    BY <1>7, <2>1 DEF Crash, Run
<1>8. CASE LoseSession(o)
  BY <1>8 DEF LoseSession
<1> QED
  BY <1>1, <1>2, <1>3, <1>4, <1>5, <1>6, <1>7, <1>8 DEF ProcessStep

LEMMA TypeOKInit == Init => TypeOK
BY QaAssumption DEF Init, TypeOK, Idle, Task, Run

LEMMA TypeOKStep == TypeOK /\ [Next]_vars => TypeOK'
<1> SUFFICES ASSUME TypeOK, [Next]_vars PROVE TypeOK'
  OBVIOUS
<1>1. ASSUME NEW r \in Run, RunnerStep(r) PROVE TypeOK'
  BY <1>1, RunnerTyped
<1>2. ASSUME NEW r \in Run, TimeOut(r) PROVE TypeOK'
  <2>1. cases' \in [Run -> [Case -> {"pending", "running", "passed", "failed"}]]
    BY <1>2, CasesTyped DEF TimeOut, FailRunningRun, FailOpenCases, TypeOK, tables
  <2>2. status' \in [Run -> {"absent", "queued", "running", "passed", "failed"}] /\ baseline' = baseline
    BY <1>2 DEF TimeOut, FailRunningRun, SetStatus, TypeOK, tables
  <2>3. timer' = [timer EXCEPT ![r] = NoOwner] /\ UNCHANGED <<runner, receipt, procVars>>
    BY <1>2 DEF TimeOut
  <2> QED
    BY <2>1, <2>2, <2>3 DEF TypeOK, procVars
<1>3. ASSUME NEW r \in Run, NEW o \in Owner, Create(r, o) PROVE TypeOK'
  <2>1. [Idle EXCEPT !.pc = "spawned", !.owner = o] \in Task
    BY DEF Idle, Task
  <2> QED
    BY <1>3, <2>1 DEF Create, SetStatus, TypeOK, procVars
<1>4. ASSUME NEW r \in Run, HelperCommits(r) \/ HermesFailed(r) \/ HermesPassed(r) PROVE TypeOK'
  <2>1. cases' \in [Run -> [Case -> {"pending", "running", "passed", "failed"}]]
    BY <1>4, CasesTyped DEF HelperCommits, HermesFailed, HermesPassed, TypeOK, tables
  <2>2. status' \in [Run -> {"absent", "queued", "running", "passed", "failed"}]
    BY <1>4 DEF HelperCommits, HermesFailed, HermesPassed, SetStatus, TypeOK, tables
  <2>3. receipt' \subseteq HermesRuns /\ UNCHANGED <<baseline, runner, timer, procVars>>
    BY <1>4 DEF HelperCommits, HermesFailed, HermesPassed, TypeOK, tables
  <2> QED
    BY <2>1, <2>2, <2>3 DEF TypeOK, procVars
<1>5. ASSUME NEW o \in Owner, ProcessStep(o) \/ Crash(o) \/ LoseSession(o) PROVE TypeOK'
  BY <1>5, ProcessTyped
<1>6. CASE UNCHANGED vars
  BY <1>6 DEF vars, TypeOK
<1> QED
  BY <1>1, <1>2, <1>3, <1>4, <1>5, <1>6 DEF Next

(* The tables, tasks, timers and processes keep their types: no timeout sleeps
   for a traffic run, and a starting process resumes persistence runs only. *)
THEOREM TypeCorrect == Spec => []TypeOK
BY TypeOKInit, TypeOKStep, PTL DEF Spec

-----------------------------------------------------------------------------
(* Verdicts and cases *)

(* What is true of one run: the cases a task has left behind passed unless it
   counted a failure, the case it evaluates is running, and the cases of a
   persistence run wait until the restart case is decided. *)
Sound(r) ==
  /\ status[r] = "passed" => \A c \in Case : cases[r][c] = "passed"
  /\ runner[r].pc \in {"traffic", "cases", "evaluating"} => r \in TrafficRuns
  /\ runner[r].pc \in {"cases", "evaluating"} /\ status[r] = "running" /\ ~runner[r].failed =>
       \A c \in Case \ runner[r].todo : cases[r][c] = "passed"
  /\ runner[r].pc = "evaluating" =>
       /\ runner[r].case \in Case
       /\ status[r] = "running" => cases[r][runner[r].case] = "running"
  /\ r \in PersistenceRuns /\ cases[r][RestartCase] \in {"pending", "running"} =>
       \A c \in Case \ {RestartCase} : cases[r][c] = "pending"

EvidenceInv == \A r \in Run : Sound(r)

(* Only the run r changes. *)
Only(r) ==
  \A q \in Run \ {r} :
    status'[q] = status[q] /\ cases'[q] = cases[q] /\ runner'[q] = runner[q]

LEMMA OnlyOneDisturbed ==
  ASSUME EvidenceInv, NEW r, Only(r), r \in Run => Sound(r)'
  PROVE  EvidenceInv'
<1>1. ASSUME NEW q \in Run, q # r PROVE Sound(q)'
  BY <1>1 DEF Only, EvidenceInv, Sound
<1> QED
  BY <1>1 DEF EvidenceInv

LEMMA TaskFields ==
  ASSUME TypeOK, NEW r \in Run
  PROVE  /\ \A pc, todo, c, failed : Become(r, pc, todo, c, failed) =>
              /\ runner'[r].pc = pc /\ runner'[r].todo = todo
              /\ runner'[r].case = c /\ runner'[r].failed = failed
         /\ End(r) => runner'[r].pc = "idle"
         /\ Fail(r) => runner'[r].pc = "failing_cases"
BY DEF TypeOK, Become, Goto, End, Fail, Idle

LEMMA CasesSet ==
  ASSUME TypeOK, NEW r \in Run, NEW S, NEW s, SetCases(r, S, s)
  PROVE  \A c \in Case : cases'[r][c] = IF c \in S THEN s ELSE cases[r][c]
BY DEF TypeOK, SetCases

LEMMA RunnerOnly ==
  ASSUME NEW r \in Run, RunnerStep(r), TypeOK
  PROVE  Only(r)
<1> USE DEF Only, TypeOK, Step, SetStatus, SetCases, Become, Goto, Fail, End, tables
<1>1. CASE StartQueuedRun(r)
  BY <1>1 DEF StartQueuedRun
<1>2. CASE ArmHermes(r)
  BY <1>2 DEF ArmHermes
<1>3. CASE PreparePersistence(r)
  BY <1>3 DEF PreparePersistence
<1>4. CASE ExerciseTraffic(r)
  BY <1>4 DEF ExerciseTraffic
<1>5. CASE StartCase(r)
  BY <1>5 DEF StartCase
<1>6. CASE FinishCase(r)
  BY <1>6 DEF FinishCase
<1>7. CASE FinishRun(r)
  BY <1>7 DEF FinishRun
<1>8. CASE FailCases(r)
  BY <1>8 DEF FailCases, FailOpenCases
<1>9. CASE FailRun(r)
  BY <1>9 DEF FailRun, FailOpenRun
<1> QED
  BY <1>1, <1>2, <1>3, <1>4, <1>5, <1>6, <1>7, <1>8, <1>9 DEF RunnerStep

(* A closed statement leaves a sound run sound: it only fails open cases. *)
LEMMA FailedCasesSound ==
  ASSUME TypeOK, NEW r \in Run, Sound(r), FailOpenCases(r), status'[r] # "passed" \/ status'[r] = status[r],
         runner'[r].pc \in {"idle", "failing_cases", "failing_run"}
  PROVE  Sound(r)'
<1>1. \A c \in Case : cases'[r][c] = IF cases[r][c] \in {"pending", "running"} THEN "failed" ELSE cases[r][c]
  BY CasesSet DEF FailOpenCases, OpenCases
<1> QED
  BY <1>1, QaAssumption DEF Sound

LEMMA StartQueuedRunSound ==
  ASSUME TypeOK, NEW r \in Run, Sound(r), StartQueuedRun(r)
  PROVE  Sound(r)'
<1>1. runner'[r].pc \in {"traffic", "failing_cases"} /\ r \in TrafficRuns
  BY TaskFields DEF StartQueuedRun, Step, Goto
<1>2. cases' = cases
  BY DEF StartQueuedRun, Step, tables
<1>3. status'[r] = status[r] \/ status'[r] = "running"
  BY DEF StartQueuedRun, Step, tables, SetStatus, TypeOK
<1> QED
  BY <1>1, <1>2, <1>3 DEF Sound

LEMMA ArmHermesSound ==
  ASSUME TypeOK, NEW r \in Run, Sound(r), ArmHermes(r)
  PROVE  Sound(r)'
<1>1. runner'[r].pc \in {"idle", "failing_cases"} /\ r \notin PersistenceRuns
  BY TaskFields, QaAssumption DEF ArmHermes, Step
<1>2. \/ status'[r] = status[r] /\ cases'[r] = cases[r]
      \/ status'[r] = "running"
  BY DEF ArmHermes, Step, tables, SetStatus, TypeOK
<1> QED
  BY <1>1, <1>2 DEF Sound

LEMMA PreparePersistenceSound ==
  ASSUME TypeOK, NEW r \in Run, Sound(r), PreparePersistence(r)
  PROVE  Sound(r)'
<1>1. runner'[r].pc \in {"idle", "failing_cases"} /\ r \in PersistenceRuns
  BY TaskFields DEF PreparePersistence, Step
<1>2. CASE status'[r] = status[r] /\ cases'[r] = cases[r]
  BY <1>1, <1>2 DEF Sound
<1>3. CASE status'[r] = "running" /\ cases[r][RestartCase] = "pending" /\ SetCases(r, {RestartCase}, "running")
  <2>1. \A c \in Case \ {RestartCase} : cases'[r][c] = cases[r][c]
    BY <1>3, CasesSet
  <2> QED
    BY <1>1, <1>3, <2>1 DEF Sound
<1> QED
  BY <1>2, <1>3 DEF PreparePersistence, Step, tables, SetStatus, TypeOK

LEMMA StartCaseSound ==
  ASSUME TypeOK, NEW r \in Run, Sound(r), StartCase(r)
  PROVE  Sound(r)'
<1>1. status' = status /\ r \in TrafficRuns /\ r \notin PersistenceRuns
  BY QaAssumption DEF StartCase, Step, tables, At, Sound
<1>2. PICK c \in runner[r].todo :
        \/ /\ c \in OpenCases(r) /\ SetCases(r, {c}, "running")
           /\ Become(r, "evaluating", runner[r].todo, c, runner[r].failed) \/ Fail(r)
        \/ cases' = cases /\ Fail(r)
  BY DEF StartCase, Step, tables
<1>3. CASE cases' = cases /\ Fail(r)
  BY <1>1, <1>3, TaskFields DEF Sound
<1>4. CASE /\ c \in OpenCases(r) /\ SetCases(r, {c}, "running")
           /\ Become(r, "evaluating", runner[r].todo, c, runner[r].failed) \/ Fail(r)
  <2>1. c \in Case /\ cases[r][c] # "passed"
    BY <1>4 DEF OpenCases
  <2>2. \A d \in Case : cases'[r][d] = IF d = c THEN "running" ELSE cases[r][d]
    BY <1>4, CasesSet
  <2>3. \/ runner'[r].pc = "failing_cases"
        \/ /\ runner'[r].pc = "evaluating" /\ runner'[r].case = c
           /\ runner'[r].todo = runner[r].todo /\ runner'[r].failed = runner[r].failed
    BY <1>4, TaskFields
  <2>4. runner[r].pc = "cases"
    BY DEF StartCase, At
  <2> QED
    BY <1>1, <1>2, <2>1, <2>2, <2>3, <2>4 DEF Sound
<1> QED
  BY <1>2, <1>3, <1>4

LEMMA FinishCaseSound ==
  ASSUME TypeOK, NEW r \in Run, Sound(r), FinishCase(r)
  PROVE  Sound(r)'
<1> DEFINE c == runner[r].case
<1>1. status' = status /\ r \in TrafficRuns /\ r \notin PersistenceRuns /\ runner[r].pc = "evaluating"
  BY QaAssumption DEF FinishCase, Step, tables, At, Sound
<1>2. PICK v \in {"passed", "failed"} :
        \/ /\ SetCases(r, {c} \cap {d \in Case : cases[r][d] = "running"}, v)
           /\ Become(r, "cases", runner[r].todo \ {c}, NoCase, runner[r].failed \/ v = "failed") \/ Fail(r)
        \/ cases' = cases /\ Fail(r)
  BY DEF FinishCase, Step, tables
<1>3. CASE cases' = cases /\ Fail(r)
  BY <1>1, <1>3, TaskFields DEF Sound
<1>4. CASE /\ SetCases(r, {c} \cap {d \in Case : cases[r][d] = "running"}, v)
           /\ Become(r, "cases", runner[r].todo \ {c}, NoCase, runner[r].failed \/ v = "failed") \/ Fail(r)
  <2>1. \A d \in Case : cases'[r][d] = IF d = c /\ cases[r][d] = "running" THEN v ELSE cases[r][d]
    BY <1>4, CasesSet
  <2>2. \/ runner'[r].pc = "failing_cases"
        \/ /\ runner'[r].pc = "cases" /\ runner'[r].todo = runner[r].todo \ {c}
           /\ ~runner'[r].failed => ~runner[r].failed /\ v = "passed"
    <3> DEFINE failed == runner[r].failed \/ v = "failed"
    <3>1. CASE Fail(r)
      BY <3>1, TaskFields
    <3>2. CASE Become(r, "cases", runner[r].todo \ {c}, NoCase, failed)
      <4>1. /\ runner'[r].pc = "cases" /\ runner'[r].todo = runner[r].todo \ {c}
            /\ runner'[r].failed = failed
        <5> HIDE DEF failed
        <5> QED
          BY <3>2, TaskFields
      <4>2. ~failed => ~runner[r].failed /\ v = "passed"
        BY <1>2
      <4> QED
        BY <4>1, <4>2
    <3> QED
      BY <1>4, <3>1, <3>2
  <2> QED
    BY <1>1, <2>1, <2>2 DEF Sound
<1> QED
  BY <1>2, <1>3, <1>4

LEMMA FinishRunSound ==
  ASSUME TypeOK, NEW r \in Run, Sound(r), FinishRun(r)
  PROVE  Sound(r)'
<1>1. runner'[r].pc \in {"idle", "failing_cases"} /\ r \notin PersistenceRuns
  BY TaskFields, QaAssumption DEF FinishRun, Step, Sound, At
<1>2. cases' = cases
  BY DEF FinishRun, Step, tables
<1>3. status'[r] = "passed" => status[r] = "passed" \/ (status[r] = "running" /\ ~runner[r].failed)
  BY DEF FinishRun, Step, SetStatus, TypeOK, tables
<1> QED
  BY <1>1, <1>2, <1>3 DEF Sound, FinishRun, At

LEMMA RunnerSound ==
  ASSUME TypeOK, NEW r \in Run, Sound(r), RunnerStep(r)
  PROVE  Sound(r)'
<1>1. CASE ExerciseTraffic(r)
  <2>1. /\ runner'[r].pc = "cases" /\ runner'[r].todo = Case
        /\ status' = status /\ cases' = cases
    BY <1>1, TaskFields DEF ExerciseTraffic, tables
  <2> QED
    BY <1>1, <2>1 DEF Sound, ExerciseTraffic, At
<1>2. CASE FailCases(r)
  <2>1. runner'[r].pc = "failing_run" /\ status' = status
    BY <1>2, TaskFields DEF FailCases, Goto
  <2> QED
    BY <1>2, <2>1, FailedCasesSound DEF FailCases, Sound
<1>3. CASE FailRun(r)
  <2>1. runner'[r].pc = "idle" /\ cases' = cases /\ status'[r] \in {status[r], "failed"}
    BY <1>3, TaskFields DEF FailRun, FailOpenRun, SetStatus, TypeOK
  <2> QED
    BY <2>1 DEF Sound
<1> QED
  BY <1>1, <1>2, <1>3, StartQueuedRunSound, ArmHermesSound, PreparePersistenceSound,
     StartCaseSound, FinishCaseSound, FinishRunSound DEF RunnerStep

LEMMA FailRunningRunSound ==
  ASSUME TypeOK, EvidenceInv, NEW r, FailRunningRun(r), runner' = runner
  PROVE  EvidenceInv'
<1>1. Only(r)
  BY DEF FailRunningRun, FailOpenCases, SetCases, SetStatus, Only, TypeOK
<1>2. ASSUME r \in Run PROVE Sound(r)'
  <2>1. CASE ~Open(r)
    BY <1>2, <2>1 DEF FailRunningRun, EvidenceInv, Sound
  <2>2. CASE Open(r)
    <3>1. status'[r] = "failed" /\ FailOpenCases(r)
      BY <1>2, <2>2 DEF FailRunningRun, SetStatus, TypeOK
    <3>2. \A c \in Case : cases'[r][c] = IF cases[r][c] \in {"pending", "running"} THEN "failed" ELSE cases[r][c]
      BY <1>2, <3>1, CasesSet DEF FailOpenCases, OpenCases
    <3> QED
      BY <1>2, <3>1, <3>2, QaAssumption DEF EvidenceInv, Sound
  <2> QED
    BY <2>1, <2>2
<1> QED
  BY <1>1, <1>2, OnlyOneDisturbed

LEMMA HelperSound ==
  ASSUME TypeOK, EvidenceInv, NEW r \in Run, HelperCommits(r) \/ HermesFailed(r) \/ HermesPassed(r)
  PROVE  EvidenceInv'
<1>1. Only(r) /\ runner' = runner
  BY DEF HelperCommits, HermesFailed, HermesPassed, SetCases, SetStatus, Only, TypeOK, tables
<1>2. r \notin PersistenceRuns /\ r \notin TrafficRuns
  BY QaAssumption DEF HelperCommits, HermesFailed, HermesPassed
<1>3. CASE HelperCommits(r)
  BY <1>3 DEF HelperCommits, tables, EvidenceInv, Sound
<1>4. CASE HermesFailed(r)
  <2>1. status'[r] = "failed"
    BY <1>4 DEF HermesFailed, SetStatus, TypeOK
  <2> QED
    BY <1>1, <1>2, <2>1, OnlyOneDisturbed DEF EvidenceInv, Sound
<1>5. CASE HermesPassed(r)
  <2>1. \A c \in Case : cases'[r][c] = "passed"
    BY <1>5, CasesSet DEF HermesPassed
  <2> QED
    BY <1>1, <1>2, <2>1, OnlyOneDisturbed DEF EvidenceInv, Sound
<1> QED
  BY <1>3, <1>4, <1>5

LEMMA CloseInterruptedSound ==
  ASSUME TypeOK, EvidenceInv, NEW o, CloseInterruptedRuns(o)
  PROVE  EvidenceInv'
<1> SUFFICES ASSUME NEW r \in Run PROVE Sound(r)'
  BY DEF EvidenceInv
<1>1. runner' = runner /\ Sound(r)
  BY DEF CloseInterruptedRuns, EvidenceInv
<1>2. status'[r] = IF r \in Interrupted THEN "failed" ELSE status[r]
  BY DEF CloseInterruptedRuns
<1>3. \A c \in Case : cases'[r][c] =
        IF r \in Interrupted \cap scope[o] /\ cases[r][c] \in {"pending", "running"}
        THEN "failed" ELSE cases[r][c]
  BY DEF CloseInterruptedRuns, OpenCases
<1> QED
  BY <1>1, <1>2, <1>3, QaAssumption DEF Sound

LEMMA ResumeSound ==
  ASSUME TypeOK, EvidenceInv, NEW o \in Owner, ResumePersistence(o)
  PROVE  EvidenceInv'
<1>0. PICK r : r = target[o]
  OBVIOUS
<1> DEFINE rest == {c \in Case : cases[r][c] = "pending"}
<1>1. runner' = runner
  BY DEF ResumePersistence
<1>2. CASE cases' = cases /\ status' = status
  BY <1>1, <1>2 DEF EvidenceInv, Sound
<1>3. ASSUME status[r] = "running", cases[r][RestartCase] = "running", NEW broken \in SUBSET rest,
             cases' = [cases EXCEPT ![r] = [c \in Case |->
                  IF c \in broken THEN "failed"
                  ELSE IF c \in rest \cup {RestartCase} THEN "passed" ELSE cases[r][c]]],
             SetStatus(r, IF broken = {} THEN "passed" ELSE "failed")
      PROVE  EvidenceInv'
  <2>1. Only(r)
    BY <1>1, <1>3 DEF Only, SetStatus, TypeOK
  <2>2. ASSUME r \in Run PROVE Sound(r)'
    <3>1. r \in PersistenceRuns /\ r \notin TrafficRuns
      BY <1>0, <2>2, <1>3, QaAssumption DEF TypeOK, ResumePersistence, Run
    <3>2. \A c \in Case : cases'[r][c] =
            IF c \in broken THEN "failed"
            ELSE IF cases[r][c] = "pending" \/ c = RestartCase THEN "passed" ELSE cases[r][c]
      BY <1>3, <2>2 DEF TypeOK
    <3>3. \A c \in Case \ {RestartCase} : cases[r][c] = "pending"
      BY <1>3, <2>2, <3>1 DEF EvidenceInv, Sound
    <3>4. status'[r] = "passed" => broken = {}
      BY <1>3, <2>2 DEF SetStatus, TypeOK
    <3>5. RestartCase \notin broken
      BY <1>3
    <3>6. broken = {} => \A c \in Case : cases'[r][c] = "passed"
      BY <3>2, <3>3
    <3>7. cases'[r][RestartCase] = "passed"
      BY <3>2, <3>5, QaAssumption
    <3>8. runner'[r].pc \notin {"traffic", "cases", "evaluating"}
      BY <1>1, <2>2, <3>1 DEF EvidenceInv, Sound
    <3> QED
      BY <3>4, <3>6, <3>7, <3>8 DEF Sound
  <2> QED
    BY <2>1, <2>2, OnlyOneDisturbed
<1> QED
  BY <1>0, <1>2, <1>3, ZenonT(30) DEF ResumePersistence

LEMMA ProcessSound ==
  ASSUME TypeOK, EvidenceInv, NEW o \in Owner, ProcessStep(o) \/ Crash(o) \/ LoseSession(o)
  PROVE  EvidenceInv'
<1>1. CASE OpenVault(o) \/ CloseInterruptedCases(o) \/ ListPersistenceRuns(o) \/ LoseSession(o)
  BY <1>1
  DEF OpenVault, CloseInterruptedCases, ListPersistenceRuns, LoseSession, tables, EvidenceInv, Sound
<1>2. CASE CloseInterruptedRuns(o)
  BY <1>2, CloseInterruptedSound
<1>3. CASE ResumePersistence(o)
  BY <1>3, ResumeSound
<1>4. CASE CloseAfterResume(o)
  BY <1>4, FailRunningRunSound DEF CloseAfterResume
<1>5. CASE Crash(o)
  BY <1>5 DEF Crash, tables, Idle, EvidenceInv, Sound
<1> QED
  BY <1>1, <1>2, <1>3, <1>4, <1>5 DEF ProcessStep

LEMMA EvidenceInvInit == Init => EvidenceInv
BY DEF Init, Idle, EvidenceInv, Sound

LEMMA EvidenceInvStep == TypeOK /\ EvidenceInv /\ [Next]_vars => EvidenceInv'
<1> SUFFICES ASSUME TypeOK, EvidenceInv, [Next]_vars PROVE EvidenceInv'
  OBVIOUS
<1>1. ASSUME NEW r \in Run, RunnerStep(r) PROVE EvidenceInv'
  BY <1>1, RunnerOnly, RunnerSound, OnlyOneDisturbed DEF EvidenceInv
<1>2. ASSUME NEW r \in Run, TimeOut(r) PROVE EvidenceInv'
  <2>1. CASE FailRunningRun(r)
    BY <1>2, <2>1, FailRunningRunSound DEF TimeOut
  <2>2. CASE UNCHANGED tables
    BY <1>2, <2>2 DEF TimeOut, tables, EvidenceInv, Sound
  <2> QED
    BY <1>2, <2>1, <2>2 DEF TimeOut
<1>3. ASSUME NEW r \in Run, NEW o \in Owner, Create(r, o) PROVE EvidenceInv'
  <2>1. Only(r) /\ cases' = cases /\ status'[r] = "queued"
    BY <1>3 DEF Create, SetStatus, Only, TypeOK
  <2>2. runner'[r] = runner[r] \/ runner'[r].pc = "spawned"
    BY <1>3 DEF Create, Idle, TypeOK
  <2> QED
    BY <2>1, <2>2, OnlyOneDisturbed DEF EvidenceInv, Sound
<1>4. ASSUME NEW r \in Run, HelperCommits(r) \/ HermesFailed(r) \/ HermesPassed(r) PROVE EvidenceInv'
  BY <1>4, HelperSound
<1>5. ASSUME NEW o \in Owner, ProcessStep(o) \/ Crash(o) \/ LoseSession(o) PROVE EvidenceInv'
  BY <1>5, ProcessSound
<1>6. CASE UNCHANGED vars
  BY <1>6 DEF vars, EvidenceInv, Sound
<1> QED
  BY <1>1, <1>2, <1>3, <1>4, <1>5, <1>6 DEF Next

(* A run is passed only when each of its cases is, whoever closed it. *)
THEOREM PassedRunsAreBacked == Spec => []PassedRunsPassedEveryCase
<1>1. EvidenceInv => PassedRunsPassedEveryCase
  BY DEF EvidenceInv, Sound, PassedRunsPassedEveryCase
<1> QED
  BY <1>1, TypeOKInit, TypeOKStep, EvidenceInvInit, EvidenceInvStep, PTL DEF Spec

-----------------------------------------------------------------------------
(* Persistence runs pass on restart *)

LEMMA PassesOnRestart ==
  ASSUME TypeOK, EvidenceInv, [Next]_vars, NEW r \in PersistenceRuns,
         status[r] # "passed", status'[r] = "passed"
  PROVE  \E o \in Owner \ {baseline[r]} : proc[o] = "resuming" /\ target[o] = r
<1> r \in Run /\ r \notin TrafficRuns /\ r \notin HermesRuns
  BY QaAssumption DEF Run
<1>1. ASSUME NEW q \in Run, RunnerStep(q) PROVE FALSE
  <2>1. q = r
    BY <1>1, RunnerOnly DEF Only
  <2>2. runner[r].pc \notin {"traffic", "cases", "evaluating"}
    BY DEF EvidenceInv, Sound
  <2>3. PreparePersistence(r) \/ FailCases(r) \/ FailRun(r)
    BY <1>1, <2>1, <2>2
    DEF RunnerStep, StartQueuedRun, ArmHermes, ExerciseTraffic, StartCase, FinishCase, FinishRun, At
  <2> QED
    BY <2>3 DEF PreparePersistence, FailCases, FailRun, Step, SetStatus, FailOpenRun, tables, TypeOK
<1>2. ASSUME NEW q, FailRunningRun(q) PROVE FALSE
  BY <1>2 DEF FailRunningRun, SetStatus, TypeOK
<1>3. ~\E q \in Run : TimeOut(q)
  BY <1>2 DEF TimeOut, tables
<1>4. ~\E q \in Run, o \in Owner : Create(q, o)
  BY DEF Create, SetStatus, TypeOK
<1>5. ~\E q \in Run : HelperCommits(q) \/ HermesFailed(q) \/ HermesPassed(q)
  BY DEF HelperCommits, HermesFailed, HermesPassed, SetStatus, TypeOK, tables
<1>6. ASSUME NEW o \in Owner, ProcessStep(o) \/ Crash(o) \/ LoseSession(o) PROVE ResumePersistence(o)
  <2>1. ~OpenVault(o) /\ ~CloseInterruptedCases(o) /\ ~ListPersistenceRuns(o) /\ ~Crash(o) /\ ~LoseSession(o)
    BY DEF OpenVault, CloseInterruptedCases, ListPersistenceRuns, Crash, LoseSession, tables
  <2>2. ~CloseInterruptedRuns(o)
    BY DEF CloseInterruptedRuns
  <2>3. ~CloseAfterResume(o)
    BY <1>2 DEF CloseAfterResume
  <2> QED
    BY <1>6, <2>1, <2>2, <2>3 DEF ProcessStep
<1>7. PICK o \in Owner : ResumePersistence(o)
  BY <1>1, <1>3, <1>4, <1>5, <1>6 DEF Next, vars
<1>8. proc[o] = "resuming" /\ target[o] = r /\ baseline[r] # o
  BY <1>7 DEF ResumePersistence, SetStatus, TypeOK
<1> QED
  BY <1>8

(* A persistence run passes only in the start of a process other than the one
   that took the snapshot, whatever else happens. *)
THEOREM PersistenceNeedsARestart == Spec => PersistencePassesOnRestart
<1>1. TypeOK /\ EvidenceInv /\ [Next]_vars =>
        [\A r \in PersistenceRuns : status[r] # "passed" /\ status'[r] = "passed" =>
          \E o \in Owner \ {baseline[r]} : proc[o] = "resuming" /\ target[o] = r]_vars
  BY PassesOnRestart
<1> QED
  BY <1>1, TypeOKInit, TypeOKStep, EvidenceInvInit, EvidenceInvStep, PTL
  DEF Spec, PersistencePassesOnRestart

-----------------------------------------------------------------------------
(* Closed runs *)

(* No case of a closed run is open; a task whose closing statement is done, or
   that left a case behind, leaves it closed; an armed Hermes run has no
   pending case for HermesFailed to overlook. *)
Settled(r) ==
  /\ status[r] \in {"passed", "failed"} /\ r \notin missed => OpenCases(r) = {}
  /\ runner[r].pc = "failing_run" => OpenCases(r) = {}
  /\ runner[r].pc \in {"cases", "evaluating"} /\ status[r] = "running" =>
       \A c \in Case \ runner[r].todo : cases[r][c] \in {"passed", "failed"}
  /\ r \in HermesRuns /\ status[r] = "running" => \A c \in Case : cases[r][c] # "pending"

SettledInv == \A r \in Run : Settled(r)

ClosedInv == TypeOK /\ EvidenceInv /\ SettledInv

LEMMA OnlyOneUnsettled ==
  ASSUME SettledInv, NEW r, Only(r), missed \subseteq missed', r \in Run => Settled(r)'
  PROVE  SettledInv'
<1>1. ASSUME NEW q \in Run, q # r PROVE Settled(q)'
  BY <1>1 DEF Only, SettledInv, Settled, OpenCases
<1> QED
  BY <1>1 DEF SettledInv

LEMMA NothingUnsettled ==
  ASSUME SettledInv, UNCHANGED <<status, cases, missed>>,
         \A r \in Run : runner'[r] = runner[r] \/ runner'[r].pc \in {"idle", "spawned", "failing_cases", "traffic"}
  PROVE  SettledInv'
BY DEF SettledInv, Settled, OpenCases

LEMMA NoCaseLeft ==
  ASSUME TypeOK, NEW r \in Run, FailOpenCases(r)
  PROVE  OpenCases(r)' = {}
<1>1. \A c \in Case : cases'[r][c] = IF cases[r][c] \in {"pending", "running"} THEN "failed" ELSE cases[r][c]
  BY CasesSet DEF FailOpenCases, OpenCases
<1> QED
  BY <1>1 DEF OpenCases

LEMMA RunnerSettled ==
  ASSUME "cleanup" \notin Faults, ClosedInv, NEW r \in Run, RunnerStep(r)
  PROVE  Settled(r)'
<1> TypeOK /\ Sound(r) /\ Settled(r)
  BY DEF ClosedInv, EvidenceInv, SettledInv
<1> USE DEF Settled
<1>1. CASE StartQueuedRun(r)
  <2>1. /\ runner'[r].pc \in {"traffic", "failing_cases"} /\ r \notin HermesRuns
        /\ cases' = cases /\ missed' = missed
        /\ status'[r] = status[r] \/ status'[r] = "running"
    BY <1>1, TaskFields, QaAssumption
    DEF StartQueuedRun, Step, Goto, tables, procVars, SetStatus, TypeOK
  <2> QED
    BY <2>1 DEF OpenCases
<1>2. CASE ArmHermes(r)
  <2>1. runner'[r].pc \in {"idle", "failing_cases"} /\ missed' = missed
    BY <1>2, TaskFields DEF ArmHermes, Step, procVars
  <2>2. CASE status'[r] = status[r] /\ cases' = cases
    BY <2>1, <2>2 DEF OpenCases
  <2>3. CASE status'[r] = "running" /\ SetCases(r, Case, "running")
    <3>1. \A c \in Case : cases'[r][c] = "running"
      BY <2>3, CasesSet
    <3> QED
      BY <2>1, <2>3, <3>1
  <2> QED
    BY <1>2, <2>2, <2>3 DEF ArmHermes, Step, tables, SetStatus, TypeOK
<1>3. CASE PreparePersistence(r)
  <2>1. runner'[r].pc \in {"idle", "failing_cases"} /\ missed' = missed /\ r \notin HermesRuns
    BY <1>3, TaskFields, QaAssumption DEF PreparePersistence, Step, procVars
  <2>2. status'[r] = "running" \/ (status'[r] = status[r] /\ cases' = cases)
    BY <1>3 DEF PreparePersistence, Step, tables, SetStatus, TypeOK
  <2> QED
    BY <2>1, <2>2 DEF OpenCases
<1>4. CASE ExerciseTraffic(r)
  <2>1. /\ runner'[r].pc = "cases" /\ runner'[r].todo = Case
        /\ status' = status /\ cases' = cases /\ missed' = missed
    BY <1>4, TaskFields DEF ExerciseTraffic, tables, procVars
  <2> QED
    BY <2>1 DEF OpenCases
<1>5. CASE StartCase(r)
  <2>1. /\ status' = status /\ missed' = missed
        /\ r \in TrafficRuns /\ r \notin HermesRuns /\ runner[r].pc = "cases"
    BY <1>5, QaAssumption DEF StartCase, Step, tables, procVars, At, Sound
  <2>2. PICK c \in runner[r].todo :
          \/ /\ c \in OpenCases(r) /\ SetCases(r, {c}, "running")
             /\ Become(r, "evaluating", runner[r].todo, c, runner[r].failed) \/ Fail(r)
          \/ cases' = cases /\ Fail(r)
    BY <1>5 DEF StartCase, Step, tables
  <2>3. CASE cases' = cases /\ Fail(r)
    BY <2>1, <2>3, TaskFields DEF OpenCases
  <2>4. CASE /\ c \in OpenCases(r) /\ SetCases(r, {c}, "running")
             /\ Become(r, "evaluating", runner[r].todo, c, runner[r].failed) \/ Fail(r)
    <3>1. \A d \in Case : cases'[r][d] = IF d = c THEN "running" ELSE cases[r][d]
      BY <2>4, CasesSet
    <3>2. \/ runner'[r].pc = "failing_cases"
          \/ runner'[r].pc = "evaluating" /\ runner'[r].todo = runner[r].todo
      BY <2>4, TaskFields
    <3> QED
      BY <2>1, <2>2, <2>4, <3>1, <3>2
  <2> QED
    BY <2>2, <2>3, <2>4
<1>6. CASE FinishCase(r)
  <2> DEFINE c == runner[r].case
  <2>1. /\ status' = status /\ missed' = missed
        /\ r \in TrafficRuns /\ r \notin HermesRuns /\ runner[r].pc = "evaluating"
    BY <1>6, QaAssumption DEF FinishCase, Step, tables, procVars, At, Sound
  <2>2. PICK v \in {"passed", "failed"} :
          \/ /\ SetCases(r, {c} \cap {d \in Case : cases[r][d] = "running"}, v)
             /\ Become(r, "cases", runner[r].todo \ {c}, NoCase, runner[r].failed \/ v = "failed") \/ Fail(r)
          \/ cases' = cases /\ Fail(r)
    BY <1>6 DEF FinishCase, Step, tables
  <2>3. CASE cases' = cases /\ Fail(r)
    BY <2>1, <2>3, TaskFields DEF OpenCases
  <2>4. CASE /\ SetCases(r, {c} \cap {d \in Case : cases[r][d] = "running"}, v)
             /\ Become(r, "cases", runner[r].todo \ {c}, NoCase, runner[r].failed \/ v = "failed") \/ Fail(r)
    <3>1. \A d \in Case : cases'[r][d] = IF d = c /\ cases[r][d] = "running" THEN v ELSE cases[r][d]
      BY <2>4, CasesSet
    <3>2. \/ runner'[r].pc = "failing_cases"
          \/ runner'[r].pc = "cases" /\ runner'[r].todo = runner[r].todo \ {c}
      BY <2>4, TaskFields
    <3>3. OpenCases(r)' \subseteq OpenCases(r)
      BY <3>1, <2>2 DEF OpenCases
    <3> QED
      BY <2>1, <2>2, <3>1, <3>2, <3>3 DEF Sound
  <2> QED
    BY <2>2, <2>3, <2>4
<1>7. CASE FinishRun(r)
  <2>1. runner'[r].pc \in {"idle", "failing_cases"} /\ r \notin HermesRuns
    BY <1>7, TaskFields, QaAssumption DEF FinishRun, Step, Sound, At
  <2>2. cases' = cases /\ missed' = missed /\ (status'[r] = status[r] \/ status[r] = "running")
    BY <1>7 DEF FinishRun, Step, SetStatus, TypeOK, tables, procVars
  <2>3. status[r] = "running" => OpenCases(r) = {}
    BY <1>7 DEF FinishRun, At, OpenCases
  <2> QED
    BY <2>1, <2>2, <2>3 DEF OpenCases
<1>8. CASE FailCases(r)
  <2>1. runner'[r].pc = "failing_run" /\ status' = status /\ missed' = missed /\ FailOpenCases(r)
    BY <1>8, TaskFields DEF FailCases, Goto, May, procVars
  <2>2. OpenCases(r)' = {}
    BY <2>1, NoCaseLeft
  <2> QED
    BY <2>1, <2>2 DEF OpenCases
<1>9. CASE FailRun(r)
  <2>1. runner'[r].pc = "idle" /\ cases' = cases /\ missed' = missed /\ OpenCases(r) = {}
    BY <1>9, TaskFields DEF FailRun, At, procVars
  <2> QED
    BY <2>1 DEF OpenCases
<1> QED
  BY <1>1, <1>2, <1>3, <1>4, <1>5, <1>6, <1>7, <1>8, <1>9 DEF RunnerStep

LEMMA FailRunningRunSettles ==
  ASSUME ClosedInv, NEW r, FailRunningRun(r), runner' = runner, missed' = missed
  PROVE  SettledInv'
<1> TypeOK /\ SettledInv
  BY DEF ClosedInv
<1>1. Only(r)
  BY DEF FailRunningRun, FailOpenCases, SetCases, SetStatus, Only, TypeOK
<1>2. ASSUME r \in Run PROVE Settled(r)'
  <2>1. CASE ~Open(r)
    BY <1>2, <2>1 DEF FailRunningRun, SettledInv, Settled, OpenCases
  <2>2. CASE Open(r)
    <3>1. status'[r] = "failed" /\ FailOpenCases(r)
      BY <1>2, <2>2 DEF FailRunningRun, SetStatus, TypeOK
    <3>2. OpenCases(r)' = {}
      BY <1>2, <3>1, NoCaseLeft
    <3> QED
      BY <3>1, <3>2 DEF Settled
  <2> QED
    BY <2>1, <2>2
<1> QED
  BY <1>1, <1>2, OnlyOneUnsettled

LEMMA HelperSettles ==
  ASSUME ClosedInv, NEW r \in Run, HelperCommits(r) \/ HermesFailed(r) \/ HermesPassed(r)
  PROVE  SettledInv'
<1> TypeOK /\ SettledInv /\ Sound(r) /\ Settled(r)
  BY DEF ClosedInv, EvidenceInv, SettledInv
<1>1. Only(r) /\ runner' = runner /\ missed' = missed
  BY DEF HelperCommits, HermesFailed, HermesPassed, SetCases, SetStatus, Only, TypeOK, tables, procVars
<1>2. runner[r].pc \notin {"traffic", "cases", "evaluating"} /\ r \in HermesRuns
  BY QaAssumption DEF HelperCommits, HermesFailed, HermesPassed, Sound
<1>3. CASE HelperCommits(r)
  BY <1>1, <1>3, NothingUnsettled DEF HelperCommits, tables
<1>4. CASE HermesFailed(r)
  <2>1. \A c \in Case : cases'[r][c] = IF cases[r][c] = "running" THEN "failed" ELSE cases[r][c]
    BY <1>4, CasesSet DEF HermesFailed
  <2>2. \A c \in Case : cases[r][c] # "pending"
    BY <1>4 DEF HermesFailed, Settled
  <2>3. OpenCases(r)' = {}
    BY <2>1, <2>2 DEF OpenCases
  <2>4. status'[r] = "failed"
    BY <1>4 DEF HermesFailed, SetStatus, TypeOK
  <2>5. Settled(r)'
    BY <2>3, <2>4 DEF Settled
  <2> QED
    BY <1>1, <2>5, OnlyOneUnsettled
<1>5. CASE HermesPassed(r)
  <2>1. \A c \in Case : cases'[r][c] = "passed"
    BY <1>5, CasesSet DEF HermesPassed
  <2>2. Settled(r)'
    BY <1>1, <1>2, <2>1 DEF Settled, OpenCases
  <2> QED
    BY <1>1, <2>2, OnlyOneUnsettled
<1> QED
  BY <1>3, <1>4, <1>5

LEMMA CloseInterruptedSettles ==
  ASSUME ClosedInv, NEW o, CloseInterruptedRuns(o)
  PROVE  SettledInv'
<1> SUFFICES ASSUME NEW r \in Run PROVE Settled(r)'
  BY DEF SettledInv
<1>1. runner' = runner /\ Settled(r)
  BY DEF CloseInterruptedRuns, ClosedInv, SettledInv
<1>2. status'[r] = IF r \in Interrupted THEN "failed" ELSE status[r]
  BY DEF CloseInterruptedRuns
<1>3. \A c \in Case : cases'[r][c] =
        IF r \in Interrupted \cap scope[o] /\ cases[r][c] \in {"pending", "running"}
        THEN "failed" ELSE cases[r][c]
  BY DEF CloseInterruptedRuns, OpenCases
<1>4. missed' = missed \cup (Interrupted \ scope[o])
  BY DEF CloseInterruptedRuns
<1>5. OpenCases(r)' \subseteq OpenCases(r) /\ (r \in Interrupted \cap scope[o] => OpenCases(r)' = {})
  BY <1>3 DEF OpenCases
<1>6. r \in Interrupted => status'[r] = "failed"
  BY <1>2
<1> QED
  BY <1>1, <1>2, <1>3, <1>4, <1>5, <1>6 DEF Settled

LEMMA ResumeSettles ==
  ASSUME ClosedInv, NEW o \in Owner, ResumePersistence(o)
  PROVE  SettledInv'
<1>0. PICK r : r = target[o]
  OBVIOUS
<1> DEFINE rest == {c \in Case : cases[r][c] = "pending"}
<1>1. runner' = runner /\ missed' = missed /\ TypeOK /\ SettledInv
  BY DEF ResumePersistence, ClosedInv
<1>2. CASE cases' = cases /\ status' = status
  BY <1>1, <1>2, NothingUnsettled
<1>3. ASSUME status[r] = "running", cases[r][RestartCase] = "running", NEW broken \in SUBSET rest,
             cases' = [cases EXCEPT ![r] = [c \in Case |->
                  IF c \in broken THEN "failed"
                  ELSE IF c \in rest \cup {RestartCase} THEN "passed" ELSE cases[r][c]]],
             SetStatus(r, IF broken = {} THEN "passed" ELSE "failed")
      PROVE  SettledInv'
  <2>1. Only(r)
    BY <1>1, <1>3 DEF Only, SetStatus, TypeOK
  <2>2. ASSUME r \in Run PROVE Settled(r)'
    <3>1. r \in PersistenceRuns /\ r \notin HermesRuns
      BY <1>0, <1>1, <2>2, <1>3, QaAssumption DEF TypeOK, ResumePersistence, Run
    <3>2. \A c \in Case : cases'[r][c] =
            IF c \in broken THEN "failed"
            ELSE IF cases[r][c] = "pending" \/ c = RestartCase THEN "passed" ELSE cases[r][c]
      BY <1>1, <1>3, <2>2 DEF TypeOK
    <3>3. \A c \in Case \ {RestartCase} : cases[r][c] = "pending"
      BY <1>3, <2>2, <3>1 DEF ClosedInv, EvidenceInv, Sound
    <3>4. OpenCases(r)' = {}
      BY <3>2, <3>3 DEF OpenCases
    <3>5. status'[r] # "running"
      BY <1>1, <1>3, <2>2 DEF SetStatus, TypeOK
    <3> QED
      BY <3>4, <3>5 DEF Settled
  <2> QED
    BY <1>1, <2>1, <2>2, OnlyOneUnsettled
<1> QED
  BY <1>0, <1>2, <1>3, ZenonT(30) DEF ResumePersistence

LEMMA SettledInvInit == Init => SettledInv
BY DEF Init, Idle, SettledInv, Settled

LEMMA SettledInvStep ==
  ASSUME "cleanup" \notin Faults, ClosedInv, [Next]_vars
  PROVE  SettledInv'
<1> TypeOK /\ EvidenceInv /\ SettledInv
  BY DEF ClosedInv
<1>1. ASSUME NEW r \in Run, RunnerStep(r) PROVE SettledInv'
  <2>1. missed' = missed
    BY <1>1 DEF RunnerStep, StartQueuedRun, ArmHermes, PreparePersistence, ExerciseTraffic,
                StartCase, FinishCase, FinishRun, FailCases, FailRun, Step, procVars
  <2> QED
    BY <1>1, <2>1, RunnerOnly, RunnerSettled, OnlyOneUnsettled
<1>2. ASSUME NEW r \in Run, TimeOut(r) PROVE SettledInv'
  <2>1. FailRunningRun(r) /\ runner' = runner /\ missed' = missed
    BY <1>2 DEF TimeOut, May, procVars
  <2> QED
    BY <2>1, FailRunningRunSettles
<1>3. ASSUME NEW r \in Run, NEW o \in Owner, Create(r, o) PROVE SettledInv'
  <2>1. Only(r) /\ cases' = cases /\ status'[r] = "queued" /\ missed' = missed
    BY <1>3 DEF Create, SetStatus, Only, TypeOK, procVars
  <2>2. runner'[r] = runner[r] \/ runner'[r].pc = "spawned"
    BY <1>3 DEF Create, Idle, TypeOK
  <2>3. Settled(r)'
    BY <2>1, <2>2 DEF SettledInv, Settled, OpenCases
  <2> QED
    BY <2>1, <2>3, OnlyOneUnsettled
<1>4. ASSUME NEW r \in Run, HelperCommits(r) \/ HermesFailed(r) \/ HermesPassed(r) PROVE SettledInv'
  BY <1>4, HelperSettles
<1>5. ASSUME NEW o \in Owner, ProcessStep(o) \/ Crash(o) \/ LoseSession(o) PROVE SettledInv'
  <2>1. CASE OpenVault(o) \/ CloseInterruptedCases(o) \/ ListPersistenceRuns(o) \/ LoseSession(o)
    BY <2>1, NothingUnsettled
    DEF OpenVault, CloseInterruptedCases, ListPersistenceRuns, LoseSession, tables
  <2>2. CASE CloseAfterResume(o)
    BY <2>2, FailRunningRunSettles DEF CloseAfterResume
  <2>3. CASE Crash(o)
    BY <2>3, NothingUnsettled DEF Crash, tables, Idle
  <2> QED
    BY <1>5, <2>1, <2>2, <2>3, CloseInterruptedSettles, ResumeSettles DEF ProcessStep
<1>6. CASE UNCHANGED vars
  BY <1>6, NothingUnsettled DEF vars
<1> QED
  BY <1>1, <1>2, <1>3, <1>4, <1>5, <1>6 DEF Next

(* As long as the closing statements of spawn do not fail, a closed run keeps
   no open case, whoever closed it. *)
THEOREM ClosedRunsAreSettled ==
  ASSUME "cleanup" \notin Faults PROVE Spec => []ClosedRunsHaveNoOpenCase
<1>1. Init => ClosedInv
  BY TypeOKInit, EvidenceInvInit, SettledInvInit DEF ClosedInv
<1>2. ClosedInv /\ [Next]_vars => ClosedInv'
  BY TypeOKStep, EvidenceInvStep, SettledInvStep DEF ClosedInv
<1>3. ClosedInv => ClosedRunsHaveNoOpenCase
  BY DEF ClosedInv, SettledInv, Settled, ClosedRunsHaveNoOpenCase
<1> QED
  BY <1>1, <1>2, <1>3, PTL DEF Spec
=============================================================================
