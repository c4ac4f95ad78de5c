--------------------------- MODULE KeyVault_proofs ---------------------------
(***************************************************************************)
(* Theorems about KeyVault, for every set of keys, handlers and slots and   *)
(* every bound.  TypeCorrect and SlotsAreExclusive hold whatever the        *)
(* environment injects.  The others need the answer of a committed          *)
(* synchronization to reach the handler that waits for it: Faults holds     *)
(* neither "lost" nor "cancel".                                             *)
(***************************************************************************)
EXTENDS KeyVault, Integers, FiniteSetTheorems, WellFoundedInduction, TLAPS

LEMMA Bounds ==
  /\ Horizon \in Nat /\ Horizon > 0 /\ MaxDelay \in Nat
  /\ Horizon + MaxDelay \in Nat /\ 0 \in 0 .. Horizon + MaxDelay
BY VaultAssumption

Vault == [Key -> StoredKey]

Sound(v) == \A k \in Key : v[k].enabled => v[k].verified /\ v[k].state = "active"

(* What an operation on a key may have made of an entry old of the vault. *)
Entry(kind, this, old, new) ==
  /\ new.enabled => new.verified /\ new.state = "active"
  /\ new.enabled => old.enabled \/ (kind = "enable" /\ this)
  /\ old.state = "retired" => new.state = "retired" /\ new.cooldown <= old.cooldown
  /\ kind = "failure" /\ old.state = "active" => new.cooldown >= old.cooldown
  /\ old.enabled /\ new.state = "retired" => kind = "retire" /\ this
  /\ kind \in {"disable", "retire", "quarantine"} /\ this => ~new.enabled

(* ... and of the whole vault. *)
Outcome(kind, key, old, new) ==
  /\ new \in Vault
  /\ \A j \in Key : Entry(kind, j = key, old[j], new[j])

Operation(v, k) == v \in Vault /\ Sound(v) /\ k \in Key /\ now \in 1 .. Horizon

-----------------------------------------------------------------------------
(* The operations of the vault *)

LEMMA EntryKept ==
  ASSUME NEW kind, NEW x \in StoredKey,
         x.enabled => x.verified /\ x.state = "active"
  PROVE  Entry(kind, FALSE, x, x)
<1>1. x.cooldown \in Int
  BY Bounds DEF StoredKey
<1>2. x.enabled \in BOOLEAN
  BY DEF StoredKey
<1> QED BY <1>1, <1>2 DEF Entry

LEMMA OneKeyChanged ==
  ASSUME NEW v, NEW k, Operation(v, k), NEW kind, NEW x \in StoredKey,
         Entry(kind, TRUE, v[k], x), NEW w, w = [v EXCEPT ![k] = x]
  PROVE  Outcome(kind, k, v, w)
<1>1. w \in Vault
  BY DEF Operation, Vault
<1>2. ASSUME NEW j \in Key PROVE Entry(kind, j = k, v[j], w[j])
  <2>1. CASE j = k
    <3>1. w[j] = x /\ (j = k) = TRUE
      BY <2>1 DEF Operation, Vault
    <3> QED BY <2>1, <3>1
  <2>2. CASE j # k
    <3>1. w[j] = v[j] /\ v[j] \in StoredKey /\ (j = k) = FALSE
      BY <2>2 DEF Operation, Vault
    <3>2. v[j].enabled => v[j].verified /\ v[j].state = "active"
      BY DEF Operation, Sound
    <3> QED BY <2>2, <3>1, <3>2, EntryKept
  <2> QED BY <2>1, <2>2
<1> QED BY <1>1, <1>2 DEF Outcome

(* A key that is added takes the slot of a disabled key, if of any. *)
LEMMA AddedOutcome ==
  ASSUME NEW v, NEW k, Operation(v, k), v[k].state = "absent", NEW w \in Added(v, k)
  PROVE  Outcome("add", k, v, w)
<1> DEFINE fresh == [Absent EXCEPT !.state = "active"]
           new == [v EXCEPT ![k] = fresh]
<1>1. fresh \in StoredKey /\ ~fresh.enabled /\ fresh.state = "active"
  BY Bounds DEF Absent, StoredKey, NoCooldown
<1>2. Entry("add", TRUE, v[k], fresh)
  BY <1>1 DEF Entry
<1> HIDE DEF fresh
<1>3. Outcome("add", k, v, new)
  BY <1>1, <1>2, OneKeyChanged
<1>4. ASSUME NEW j \in Replaceable(v),
             w = [new EXCEPT ![j].state = "retired", ![j].enabled = FALSE]
      PROVE  Outcome("add", k, v, w)
  <2> DEFINE old == [v[j] EXCEPT !.state = "retired", !.enabled = FALSE]
  <2>1. j \in Key /\ j # k /\ ~v[j].enabled /\ v[j].state = "active"
    BY DEF Replaceable, Active, Operation
  <2>2. v[j] \in StoredKey
    BY <2>1 DEF Operation, Vault
  <2>3. old \in StoredKey /\ ~old.enabled /\ old.state = "retired"
    BY <2>2 DEF StoredKey
  <2>4. w = [new EXCEPT ![j] = old]
    BY <1>3, <1>4, <2>1 DEF Operation, Vault
  <2>5. Entry("add", FALSE, v[j], old)
    BY <2>1, <2>3 DEF Entry
  <2> HIDE DEF old, new
  <2>6. w \in Vault /\ w[j] = old /\ \A i \in Key \ {j} : w[i] = new[i]
    BY <1>3, <2>1, <2>3, <2>4 DEF Outcome, Vault
  <2>7. ASSUME NEW i \in Key PROVE Entry("add", i = k, v[i], w[i])
    <3>1. CASE i = j
      <4>1. (i = k) = FALSE
        BY <2>1, <3>1
      <4> QED BY <2>5, <2>6, <3>1, <4>1
    <3>2. CASE i # j
      BY <1>3, <2>6, <3>2 DEF Outcome
    <3> QED BY <3>1, <3>2
  <2> QED BY <2>6, <2>7 DEF Outcome
<1> QED BY <1>3, <1>4 DEF Added, fresh

LEMMA EnabledOutcome ==
  ASSUME NEW v, NEW k, Operation(v, k), NEW w \in EnabledKey(v, k)
  PROVE  Outcome("enable", k, v, w)
<1> DEFINE x == [v[k] EXCEPT !.enabled = TRUE]
<1>1. /\ v[k].state = "active" /\ v[k].verified
      /\ w = [v EXCEPT ![k].enabled = TRUE]
  BY DEF EnabledKey, Active
<1>2. v[k] \in StoredKey /\ (v[k].enabled => v[k].verified /\ v[k].state = "active")
  BY DEF Operation, Vault, Sound
<1>3. x \in StoredKey
  BY <1>2, Bounds DEF StoredKey, NoCooldown
<1>4. Entry("enable", TRUE, v[k], x)
  BY <1>1, <1>2, Bounds DEF Entry, StoredKey, NoCooldown
<1>5. w = [v EXCEPT ![k] = x]
  BY <1>1 DEF Operation, Vault
<1> QED BY <1>3, <1>4, <1>5, OneKeyChanged

LEMMA DisabledOutcome ==
  ASSUME NEW v, NEW k, Operation(v, k), NEW w \in DisabledKey(v, k)
  PROVE  Outcome("disable", k, v, w)
<1> DEFINE x == [v[k] EXCEPT !.enabled = FALSE]
<1>1. /\ v[k].state = "active"
      /\ w = [v EXCEPT ![k].enabled = FALSE]
  BY DEF DisabledKey, Active
<1>2. v[k] \in StoredKey /\ (v[k].enabled => v[k].verified /\ v[k].state = "active")
  BY DEF Operation, Vault, Sound
<1>3. x \in StoredKey
  BY <1>2, Bounds DEF StoredKey, NoCooldown
<1>4. Entry("disable", TRUE, v[k], x)
  BY <1>1, <1>2, Bounds DEF Entry, StoredKey, NoCooldown
<1>5. w = [v EXCEPT ![k] = x]
  BY <1>1 DEF Operation, Vault
<1> QED BY <1>3, <1>4, <1>5, OneKeyChanged

LEMMA VerifiedOutcome ==
  ASSUME NEW v, NEW k, Operation(v, k), NEW w \in VerifiedKey(v, k)
  PROVE  Outcome("verify", k, v, w)
<1> DEFINE x == [v[k] EXCEPT !.verified = TRUE, !.cooldown = NoCooldown]
<1>1. /\ v[k].state = "active"
      /\ w = [v EXCEPT ![k].verified = TRUE, ![k].cooldown = NoCooldown]
  BY DEF VerifiedKey, Active
<1>2. v[k] \in StoredKey /\ (v[k].enabled => v[k].verified /\ v[k].state = "active")
  BY DEF Operation, Vault, Sound
<1>3. x \in StoredKey
  BY <1>2, Bounds DEF StoredKey, NoCooldown
<1>4. Entry("verify", TRUE, v[k], x)
  BY <1>1, <1>2, Bounds DEF Entry, StoredKey, NoCooldown
<1>5. w = [v EXCEPT ![k] = x]
  BY <1>1 DEF Operation, Vault
<1> QED BY <1>3, <1>4, <1>5, OneKeyChanged

LEMMA QuarantinedOutcome ==
  ASSUME NEW v, NEW k, Operation(v, k), NEW w \in QuarantinedKey(v, k)
  PROVE  Outcome("quarantine", k, v, w)
<1> DEFINE x == [v[k] EXCEPT !.enabled = FALSE, !.verified = FALSE,
                       !.cooldown = NoCooldown]
<1>1. /\ v[k].state = "active"
      /\ w = [v EXCEPT ![k].enabled = FALSE, ![k].verified = FALSE,
                       ![k].cooldown = NoCooldown]
  BY DEF QuarantinedKey, Active
<1>2. v[k] \in StoredKey /\ (v[k].enabled => v[k].verified /\ v[k].state = "active")
  BY DEF Operation, Vault, Sound
<1>3. x \in StoredKey
  BY <1>2, Bounds DEF StoredKey, NoCooldown
<1>4. Entry("quarantine", TRUE, v[k], x)
  BY <1>1, <1>2, Bounds DEF Entry, StoredKey, NoCooldown
<1>5. w = [v EXCEPT ![k] = x]
  BY <1>1 DEF Operation, Vault
<1> QED BY <1>3, <1>4, <1>5, OneKeyChanged

LEMMA RequestOutcome ==
  ASSUME NEW v, NEW k, Operation(v, k), NEW w \in RequestRecorded(v, k)
  PROVE  Outcome("request", k, v, w)
<1> DEFINE x == [v[k] EXCEPT !.cooldown = NoCooldown]
<1>1. /\ w = [v EXCEPT ![k].cooldown = NoCooldown]
  BY DEF RequestRecorded
<1>2. v[k] \in StoredKey /\ (v[k].enabled => v[k].verified /\ v[k].state = "active")
  BY DEF Operation, Vault, Sound
<1>3. x \in StoredKey
  BY <1>2, Bounds DEF StoredKey, NoCooldown
<1>4. Entry("request", TRUE, v[k], x)
  BY <1>1, <1>2, Bounds DEF Entry, StoredKey, NoCooldown
<1>5. w = [v EXCEPT ![k] = x]
  BY <1>1 DEF Operation, Vault
<1> QED BY <1>3, <1>4, <1>5, OneKeyChanged

LEMMA RetiredOutcome ==
  ASSUME NEW v, NEW k, Operation(v, k), NEW w \in RetiredKey(v, k)
  PROVE  Outcome("retire", k, v, w)
<1> DEFINE x == [state |-> "retired", enabled |-> FALSE, verified |-> FALSE,
                 cooldown |-> NoCooldown]
<1>1. v[k].state = "active" /\ w = [v EXCEPT ![k] = x]
  BY DEF RetiredKey, Active
<1>2. x \in StoredKey
  BY Bounds DEF StoredKey, NoCooldown
<1>3. Entry("retire", TRUE, v[k], x)
  BY <1>1 DEF Entry
<1> QED BY <1>1, <1>2, <1>3, OneKeyChanged

(* The cooldown grows for an active key and ends for a retired one. *)
LEMMA FailureOutcome ==
  ASSUME NEW v, NEW k, Operation(v, k), NEW w \in FailureRecorded(v, k)
  PROVE  Outcome("failure", k, v, w)
<1>1. /\ v[k].state # "absent" /\ v[k] \in StoredKey
      /\ v[k].enabled => v[k].verified /\ v[k].state = "active"
  BY DEF FailureRecorded, Operation, Vault, Sound
<1>2. v[k].cooldown \in 0 .. Horizon + MaxDelay
  BY <1>1 DEF StoredKey
<1>3. PICK c \in 0 .. Horizon + MaxDelay :
        /\ w = [v EXCEPT ![k].cooldown = c]
        /\ v[k].state = "retired" => c = NoCooldown
        /\ v[k].state # "retired" => c >= v[k].cooldown
  <2>1. CASE v[k].state = "retired"
    <3>1. w = [v EXCEPT ![k].cooldown = NoCooldown]
      BY <1>1, <2>1 DEF FailureRecorded
    <3>2. NoCooldown \in 0 .. Horizon + MaxDelay
      BY Bounds DEF NoCooldown
    <3> QED BY <2>1, <3>1, <3>2
  <2>2. CASE v[k].state # "retired"
    <3>1. PICK d \in Delay : w = [v EXCEPT ![k].cooldown = Later(@, now + d)]
      BY <1>1, <2>2 DEF FailureRecorded
    <3>2. /\ Later(v[k].cooldown, now + d) \in 0 .. Horizon + MaxDelay
          /\ Later(v[k].cooldown, now + d) >= v[k].cooldown
      BY <1>2, <3>1, Bounds DEF Later, Delay, Operation
    <3>3. w = [v EXCEPT ![k].cooldown = Later(v[k].cooldown, now + d)]
      BY <3>1
    <3> QED BY <2>2, <3>2, <3>3
  <2> QED BY <2>1, <2>2
<1> DEFINE x == [v[k] EXCEPT !.cooldown = c]
<1>4. x \in StoredKey
  BY <1>1, <1>3 DEF StoredKey
<1>5. Entry("failure", TRUE, v[k], x)
  BY <1>1, <1>2, <1>3 DEF Entry, StoredKey, NoCooldown
<1>6. w = [v EXCEPT ![k] = x]
  BY <1>3 DEF Operation, Vault
<1> QED BY <1>4, <1>5, <1>6, OneKeyChanged

-----------------------------------------------------------------------------
(* The inductive invariant *)

(* The table, the memory and the mutation in flight: outside a mutation     *)
(* both vaults are the same, and while one is in flight the table still is  *)
(* the previous vault and the memory what the operation made of it.         *)
VaultInv ==
  /\ running \in BOOLEAN
  /\ memory \in Vault /\ previous \in Vault /\ db \in Vault
  /\ pending \in Mutation
  /\ off \subseteq Key /\ now \in 1 .. Horizon
  /\ Sound(memory) /\ Sound(previous) /\ Sound(db)
  /\ running => previous = db
  /\ pending.kind = "none" => memory = previous
  /\ pending.kind # "none" =>
       /\ running /\ pending.key \in Key
       /\ Outcome(pending.kind, pending.key, previous, memory)
  /\ \A k \in off : ~memory[k].enabled /\ ~db[k].enabled

LEMMA OutcomeIsSound ==
  ASSUME NEW kind, NEW key, NEW old, NEW new, Outcome(kind, key, old, new)
  PROVE  new \in Vault /\ Sound(new)
BY DEF Outcome, Entry, Sound

(* A synchronization that commits brings the table to the memory. *)
LEMMA DeltaIsMemory ==
  ASSUME VaultInv, running
  PROVE  DbAfter = memory
<1>1. memory \in Vault /\ previous = db
  BY DEF VaultInv
<1>2. ASSUME NEW k \in Key PROVE DbAfter[k] = memory[k]
  <2>1. memory[k] \in StoredKey
    BY <1>1 DEF Vault
  <2>2. memory[k] = [state |-> memory[k].state, enabled |-> memory[k].enabled,
                     verified |-> memory[k].verified, cooldown |-> memory[k].cooldown]
    BY <2>1 DEF StoredKey
  <2>3. CASE k \in Inserted
    BY <2>3 DEF DbAfter
  <2>4. CASE k \notin Inserted
    <3>1. DbAfter[k] =
            [state |-> Changed(previous[k].state, memory[k].state, db[k].state),
             enabled |-> Changed(previous[k].enabled, memory[k].enabled, db[k].enabled),
             verified |-> Changed(previous[k].verified, memory[k].verified, db[k].verified),
             cooldown |-> Changed(previous[k].cooldown, memory[k].cooldown, db[k].cooldown)]
      BY <2>4 DEF DbAfter
    <3> QED BY <1>1, <2>2, <3>1 DEF Changed
  <2> QED BY <2>3, <2>4
<1>3. memory = [k \in Key |-> memory[k]]
  BY <1>1 DEF Vault
<1>4. DbAfter = [k \in Key |-> DbAfter[k]]
  BY DEF DbAfter
<1> QED BY <1>2, <1>3, <1>4

LEMMA BeginKeeps ==
  ASSUME VaultInv, NEW kind \in Kind \ {"none"}, NEW k \in Key, NEW t \in Task \cup {NoTask},
         NEW results, \A w \in results : Outcome(kind, k, memory, w),
         Begin(kind, k, t, results),
         UNCHANGED <<running, db, now>>,
         off' = IF kind = "enable" THEN off \ {k} ELSE off
  PROVE  VaultInv'
<1>1. /\ running /\ memory = previous /\ previous = db
      /\ Outcome(kind, k, memory, memory') /\ previous' = memory
      /\ pending' = [kind |-> kind, key |-> k, task |-> t]
  BY DEF Begin, VaultInv, NoMutation
<1>2. memory' \in Vault /\ Sound(memory')
  BY <1>1, OutcomeIsSound
<1>3. pending' \in Mutation /\ pending'.kind = kind /\ pending'.key = k
  BY <1>1 DEF Mutation
<1>4. off' \subseteq Key /\ off' \subseteq off /\ (kind = "enable" => k \notin off')
  BY DEF VaultInv
<1>5. ASSUME NEW j \in off' PROVE ~memory'[j].enabled /\ ~db'[j].enabled
  <2>1. ~memory[j].enabled /\ ~db[j].enabled /\ j \in Key
    BY <1>4 DEF VaultInv
  <2>2. Entry(kind, j = k, memory[j], memory'[j])
    BY <1>1, <2>1 DEF Outcome
  <2>3. ~(kind = "enable" /\ j = k)
    BY <1>4
  <2> QED BY <2>1, <2>2, <2>3 DEF Entry
<1>6. Outcome(pending'.kind, pending'.key, previous', memory')
  BY <1>1, <1>3
<1>7. running' /\ previous' = db' /\ pending'.kind # "none"
  BY <1>1, <1>3
<1> QED BY <1>1, <1>2, <1>3, <1>4, <1>5, <1>6, <1>7 DEF VaultInv

LEMMA SettleKeeps ==
  ASSUME VaultInv, NEW vault, vault \in Vault, Sound(vault), Settle(vault),
         db' \in Vault, Sound(db'), running' \in BOOLEAN, running' => db' = vault,
         now' \in 1 .. Horizon, off' \subseteq Key,
         \A k \in off' : ~vault[k].enabled /\ ~db'[k].enabled
  PROVE  VaultInv'
<1>1. memory' = vault /\ previous' = vault /\ pending' = NoMutation
  BY DEF Settle
<1>2. pending' \in Mutation /\ pending'.kind = "none"
  BY <1>1 DEF NoMutation, Mutation, Kind
<1>3. Sound(memory)' /\ Sound(previous)' /\ Sound(db)'
  BY <1>1 DEF Sound
<1> QED BY <1>1, <1>2, <1>3 DEF VaultInv

LEMMA TaskKeeps ==
  ASSUME VaultInv, UNCHANGED <<running, memory, previous, pending, db, off, now>>
  PROVE  VaultInv'
BY DEF VaultInv, Sound, Outcome, Entry

LEMMA RecordKeeps ==
  ASSUME VaultInv, NEW t \in Task, NEW kind \in Kind \ {"none", "enable"}, NEW k \in Key,
         NEW results, \A w \in results : Outcome(kind, k, memory, w),
         \/ Begin(kind, k, t, results) /\ UNCHANGED task
         \/ Refuse(t, results),
         UNCHANGED <<running, store, off, now>>
  PROVE  VaultInv'
<1>1. CASE Begin(kind, k, t, results) /\ UNCHANGED task
  BY <1>1, BeginKeeps DEF store
<1>2. CASE Refuse(t, results)
  BY <1>2, TaskKeeps DEF Refuse, store
<1> QED BY <1>1, <1>2

-----------------------------------------------------------------------------
(* The tasks *)

(* A task that waits for something knows its key, and the request whose     *)
(* success is being recorded still waits for that.                          *)
TaskInv ==
  /\ task \in [Task -> Waiting]
  /\ \A t \in Task : task[t].pc # "idle" => task[t].key \in Key
  /\ pending.kind = "request" =>
       pending.task \in Task /\ task[pending.task].pc = "requesting"

LEMMA TaskInvInit == Init => TaskInv
BY DEF Init, TaskInv, Idle, Waiting, NoMutation

(* One task moves, not the one whose success is being recorded. *)
LEMMA OneTaskMoves ==
  ASSUME TaskInv, NEW t \in Task, NEW w \in Waiting, w.pc # "idle" => w.key \in Key,
         task' = [task EXCEPT ![t] = w],
         pending' = pending, pending.kind = "request" => pending.task # t
  PROVE  TaskInv'
BY DEF TaskInv

LEMMA IdleIsWaiting == Idle \in Waiting /\ Idle.pc = "idle"
BY DEF Idle, Waiting

LEMMA TaskInvBegin ==
  ASSUME TaskInv, NEW kind, NEW k, NEW t, NEW results, Begin(kind, k, t, results),
         UNCHANGED task, kind = "request" => t \in Task /\ task[t].pc = "requesting"
  PROVE  TaskInv'
BY DEF TaskInv, Begin

LEMMA TaskInvRecord ==
  ASSUME TaskInv, NEW kind, NEW t \in Task, NEW results, Record(t, kind, results),
         kind = "request" => task[t].pc = "requesting"
  PROVE  TaskInv'
<1>1. CASE Begin(kind, task[t].key, t, results) /\ UNCHANGED task
  BY <1>1, TaskInvBegin
<1>2. CASE Refuse(t, results)
  <2>1. pending' = pending /\ pending.kind = "none" /\ task' = [task EXCEPT ![t] = Idle]
    BY <1>2 DEF Refuse, NoMutation
  <2> QED BY <2>1, IdleIsWaiting, OneTaskMoves
<1> QED BY <1>1, <1>2 DEF Record

LEMMA TaskInvAwait ==
  ASSUME TaskInv, NEW t \in Task, NEW k \in Key, task[t].pc = "idle",
         NEW pc \in {"requesting", "probing", "testing"}, Await(t, pc, k), pending' = pending
  PROVE  TaskInv'
<1>1. [pc |-> pc, key |-> k] \in Waiting
  BY DEF Waiting
<1>2. pending.kind = "request" => pending.task # t
  BY DEF TaskInv
<1> QED BY <1>1, <1>2, OneTaskMoves DEF Await

(* Tasks that return while no success is left to record. *)
LEMMA TaskInvReturn ==
  ASSUME TaskInv, task' \in [Task -> Waiting], pending' = NoMutation,
         \A t \in Task : task'[t] = Idle \/ task'[t] = task[t]
  PROVE  TaskInv'
BY IdleIsWaiting DEF TaskInv, NoMutation

LEMMA ReturnedTasks ==
  ASSUME TaskInv, TaskReturns
  PROVE  /\ task' \in [Task -> Waiting]
         /\ \A t \in Task : task'[t] = Idle \/ task'[t] = task[t]
BY IdleIsWaiting DEF TaskInv, TaskReturns

LEMMA TaskInvStep ==
  ASSUME TaskInv, [Next]_vars
  PROVE  TaskInv'
<1>1. ASSUME NEW k \in Key, Operator(k) PROVE TaskInv'
  <2>1. ASSUME NEW kind \in {"add", "enable", "disable", "retire"}, NEW results,
               Begin(kind, k, NoTask, results), UNCHANGED task
        PROVE  TaskInv'
    BY <2>1, TaskInvBegin
  <2> QED BY <1>1, <2>1 DEF Operator, AddKey, EnableKey, DisableKey, RetireKey
<1>2. ASSUME NEW t \in Task, Handler(t) PROVE TaskInv'
  <2>1. CASE SelectKey(t)
    BY <2>1, TaskInvAwait DEF SelectKey
  <2>2. CASE \/ ProviderSucceeded(t) \/ ProviderFailed(t)
             \/ ProviderRejected(t) \/ ProbePassed(t)
    BY <2>2, TaskInvRecord
       DEF ProviderSucceeded, ProviderFailed, ProviderRejected, ProbePassed
  <2>3. CASE FinishSucceeded(t) \/ ProfileProbed(t) \/ TaskEnds(t)
    <3>1. /\ pending' = pending /\ task' = [task EXCEPT ![t] = Idle]
          /\ pending.kind = "request" => pending.task # t
      BY <2>3 DEF FinishSucceeded, ProfileProbed, TaskEnds, TaskInv
    <3> QED BY <3>1, IdleIsWaiting, OneTaskMoves
  <2> QED BY <1>2, <2>1, <2>2, <2>3 DEF Handler
<1>3. ASSUME NEW t \in Task, NEW k \in Key, StartProbe(t, k) PROVE TaskInv'
  BY <1>3, TaskInvAwait DEF StartProbe
<1>4. CASE Acknowledged
  <2>1. pending' = NoMutation
    BY <1>4 DEF Acknowledged, Settle
  <2>2. CASE pending.kind = "request"
    <3> DEFINE t == pending.task
    <3>1. /\ t \in Task /\ task[t].pc = "requesting" /\ task[t] \in Waiting
          /\ task' = [task EXCEPT ![t].pc = "recorded"]
      BY <1>4, <2>2 DEF Acknowledged, TaskInv
    <3>2. /\ [task[t] EXCEPT !.pc = "recorded"] \in Waiting
          /\ [task[t] EXCEPT !.pc = "recorded"].key = task[t].key
      BY <3>1 DEF Waiting
    <3> QED BY <2>1, <3>1, <3>2 DEF TaskInv, NoMutation
  <2>3. CASE pending.kind # "request"
    BY <1>4, <2>1, <2>3, ReturnedTasks, TaskInvReturn DEF Acknowledged
  <2> QED BY <2>2, <2>3
<1>5. CASE Failed \/ Cancelled
  BY <1>5, ReturnedTasks, TaskInvReturn DEF Failed, Cancelled, RollBack, Settle
<1>6. CASE Crash
  BY <1>6, IdleIsWaiting, TaskInvReturn DEF Crash, Settle
<1>7. CASE Open
  BY <1>7, TaskInvReturn DEF Open, Settle, TaskInv
<1>8. CASE Tick
  BY <1>8 DEF Tick, TaskInv
<1>9. CASE UNCHANGED vars
  BY <1>9 DEF vars, TaskInv
<1> QED BY <1>1, <1>2, <1>3, <1>4, <1>5, <1>6, <1>7, <1>8, <1>9 DEF Next

-----------------------------------------------------------------------------
(* Its steps *)

LEMMA OperationNow ==
  ASSUME VaultInv, NEW k \in Key
  PROVE  Operation(memory, k)
BY DEF VaultInv, Operation

LEMMA OperatorKeeps ==
  ASSUME VaultInv, NEW k \in Key, Operator(k)
  PROVE  VaultInv'
<1>1. CASE AddKey(k)
  <2>1. \A w \in Added(memory, k) : Outcome("add", k, memory, w)
    BY <1>1, OperationNow, AddedOutcome DEF AddKey
  <2> QED BY <1>1, <2>1, BeginKeeps DEF AddKey, Kind, store
<1>2. CASE EnableKey(k)
  <2>1. \A w \in EnabledKey(memory, k) : Outcome("enable", k, memory, w)
    BY OperationNow, EnabledOutcome
  <2> QED BY <1>2, <2>1, BeginKeeps DEF EnableKey, Kind, store
<1>3. CASE DisableKey(k)
  <2>1. \A w \in DisabledKey(memory, k) : Outcome("disable", k, memory, w)
    BY OperationNow, DisabledOutcome
  <2> QED BY <1>3, <2>1, BeginKeeps DEF DisableKey, Kind, store
<1>4. CASE RetireKey(k)
  <2>1. \A w \in RetiredKey(memory, k) : Outcome("retire", k, memory, w)
    BY OperationNow, RetiredOutcome
  <2> QED BY <1>4, <2>1, BeginKeeps DEF RetireKey, Kind, store
<1> QED BY <1>1, <1>2, <1>3, <1>4 DEF Operator

LEMMA HandlerKeeps ==
  ASSUME VaultInv, TaskInv, NEW t \in Task, Handler(t)
  PROVE  VaultInv'
<1> DEFINE k == task[t].key
<1>1. task[t].pc # "idle" => k \in Key
  BY DEF TaskInv
<1>2. CASE ProviderSucceeded(t)
  <2>1. k \in Key
    BY <1>1, <1>2 DEF ProviderSucceeded
  <2>2. \A w \in RequestRecorded(memory, k) : Outcome("request", k, memory, w)
    BY <2>1, OperationNow, RequestOutcome
  <2>3. Record(t, "request", RequestRecorded(memory, k)) /\ "request" \in Kind \ {"none", "enable"}
    BY <1>2 DEF ProviderSucceeded, Kind
  <2> QED BY <2>1, <2>2, <2>3, RecordKeeps DEF Record
<1>3. CASE ProviderFailed(t)
  <2>1. k \in Key
    BY <1>1, <1>3 DEF ProviderFailed
  <2>2. \A w \in FailureRecorded(memory, k) : Outcome("failure", k, memory, w)
    BY <2>1, OperationNow, FailureOutcome
  <2>3. Record(t, "failure", FailureRecorded(memory, k)) /\ "failure" \in Kind \ {"none", "enable"}
    BY <1>3 DEF ProviderFailed, Kind
  <2> QED BY <2>1, <2>2, <2>3, RecordKeeps DEF Record
<1>4. CASE ProviderRejected(t)
  <2>1. k \in Key
    BY <1>1, <1>4 DEF ProviderRejected
  <2>2. \A w \in QuarantinedKey(memory, k) : Outcome("quarantine", k, memory, w)
    BY <2>1, OperationNow, QuarantinedOutcome
  <2>3. Record(t, "quarantine", QuarantinedKey(memory, k)) /\ "quarantine" \in Kind \ {"none", "enable"}
    BY <1>4 DEF ProviderRejected, Kind
  <2> QED BY <2>1, <2>2, <2>3, RecordKeeps DEF Record
<1>5. CASE ProbePassed(t)
  <2>1. k \in Key
    BY <1>1, <1>5 DEF ProbePassed
  <2>2. \A w \in VerifiedKey(memory, k) : Outcome("verify", k, memory, w)
    BY <2>1, OperationNow, VerifiedOutcome
  <2>3. Record(t, "verify", VerifiedKey(memory, k)) /\ "verify" \in Kind \ {"none", "enable"}
    BY <1>5 DEF ProbePassed, Kind
  <2> QED BY <2>1, <2>2, <2>3, RecordKeeps DEF Record
<1>6. CASE SelectKey(t) \/ FinishSucceeded(t) \/ ProfileProbed(t) \/ TaskEnds(t)
  BY <1>6, TaskKeeps DEF SelectKey, FinishSucceeded, ProfileProbed, TaskEnds, store
<1> QED BY <1>2, <1>3, <1>4, <1>5, <1>6 DEF Handler

(* The three ends of a mutation; the last is assumed away. *)

LEMMA AcknowledgedKeeps ==
  ASSUME VaultInv, Acknowledged
  PROVE  VaultInv'
<1>1. /\ running /\ pending.key \in Key
      /\ Outcome(pending.kind, pending.key, previous, memory)
  BY DEF Acknowledged, VaultInv
<1>2. db' = memory
  BY <1>1, DeltaIsMemory DEF Acknowledged, CommitDelta
<1>3. memory \in Vault /\ Sound(memory) /\ \A k \in off : k \in Key /\ ~memory[k].enabled
  BY DEF VaultInv
<1>4. /\ off' \subseteq Key
      /\ \A k \in off' : k \in off \/ (k = pending.key /\
                                     pending.kind \in {"disable", "retire", "quarantine"})
  BY <1>1, <1>3 DEF Acknowledged
<1>5. \A k \in off' : ~memory[k].enabled
  BY <1>1, <1>3, <1>4 DEF Outcome, Entry
<1>6. running' \in BOOLEAN /\ now' \in 1 .. Horizon /\ Settle(memory)
  BY DEF Acknowledged, VaultInv
<1>7. Sound(db')
  BY <1>2, <1>3
<1> QED BY <1>2, <1>3, <1>4, <1>5, <1>6, <1>7, SettleKeeps

LEMMA FailedKeeps ==
  ASSUME VaultInv, Failed, ~May("lost")
  PROVE  VaultInv'
<1>1. running /\ previous = db
  BY DEF Failed, VaultInv
<1>2. db' = db /\ Settle(previous) /\ off' = off /\ now' = now /\ running' = running
  BY DEF Failed, RollBack, store
<1>3. /\ previous \in Vault /\ Sound(previous) /\ off \subseteq Key
      /\ now \in 1 .. Horizon /\ running \in BOOLEAN
      /\ \A k \in off : ~db[k].enabled
  BY DEF VaultInv
<1> QED BY <1>1, <1>2, <1>3, SettleKeeps

(* A crash keeps the file, which may be ahead of the table. *)
LEMMA CrashKeeps ==
  ASSUME VaultInv, Crash
  PROVE  VaultInv'
<1>1. running /\ Settle(memory) /\ running' = FALSE /\ off' = off /\ now' = now
  BY DEF Crash
<1>2. db' = db \/ db' = memory
  BY <1>1, DeltaIsMemory DEF Crash, CommitDelta, store
<1>3. /\ memory \in Vault /\ db \in Vault /\ Sound(memory) /\ Sound(db)
      /\ off \subseteq Key /\ now \in 1 .. Horizon
      /\ \A k \in off : ~memory[k].enabled /\ ~db[k].enabled
  BY DEF VaultInv
<1>4. Sound(db') /\ db' \in Vault /\ \A k \in off : ~db'[k].enabled
  BY <1>2, <1>3
<1> QED BY <1>1, <1>3, <1>4, SettleKeeps

LEMMA OpenKeeps ==
  ASSUME VaultInv, Open
  PROVE  VaultInv'
<1>1. /\ running' = TRUE /\ off' = off /\ now' = now
      /\ \/ Settle(db) /\ db' = db
         \/ Settle(memory) /\ db' = memory
  BY DEF Open, Loaded
<1>2. /\ memory \in Vault /\ db \in Vault /\ Sound(memory) /\ Sound(db)
      /\ off \subseteq Key /\ now \in 1 .. Horizon
      /\ \A k \in off : ~memory[k].enabled /\ ~db[k].enabled
  BY DEF VaultInv
<1>3. CASE Settle(db) /\ db' = db
  BY <1>1, <1>2, <1>3, SettleKeeps
<1>4. CASE Settle(memory) /\ db' = memory
  <2>1. Sound(db') /\ db' \in Vault
    BY <1>2, <1>4
  <2> QED BY <1>1, <1>2, <1>4, <2>1, SettleKeeps
<1> QED BY <1>1, <1>3, <1>4

LEMMA TickKeeps ==
  ASSUME VaultInv, Tick
  PROVE  VaultInv'
<1>1. now' \in 1 .. Horizon
  BY Bounds DEF VaultInv, Tick
<1> QED BY <1>1 DEF VaultInv, Tick, store, Sound, Outcome, Entry

-----------------------------------------------------------------------------
(* The theorems *)

AnswersArrive == Faults \subseteq {"error", "crash"}

LEMMA VaultInvInit == Init => VaultInv
<1> SUFFICES ASSUME Init PROVE VaultInv
  OBVIOUS
<1>1. Absent \in StoredKey /\ ~Absent.enabled
  BY Bounds DEF Absent, StoredKey, NoCooldown
<1>2. memory \in Vault /\ \A k \in Key : memory[k] = Absent
  BY <1>1 DEF Init, Vault
<1>3. Sound(memory)
  BY <1>1, <1>2 DEF Sound
<1>4. pending \in Mutation /\ pending.kind = "none"
  BY DEF Init, NoMutation, Mutation, Kind
<1>5. running \in BOOLEAN /\ off = {} /\ now \in 1 .. Horizon
  <2>1. running = FALSE /\ off = {} /\ now = 1
    BY DEF Init
  <2>2. 1 \in 1 .. Horizon
    BY Bounds
  <2> QED BY <2>1, <2>2
<1>6. previous = memory /\ db = memory
  BY DEF Init
<1>7. Sound(previous) /\ Sound(db) /\ previous \in Vault /\ db \in Vault
  BY <1>2, <1>3, <1>6
<1>8. off \subseteq Key /\ \A k \in off : ~memory[k].enabled /\ ~db[k].enabled
  BY <1>5
<1> QED BY <1>2, <1>3, <1>4, <1>5, <1>6, <1>7, <1>8 DEF VaultInv

LEMMA VaultInvStep ==
  ASSUME AnswersArrive, VaultInv, TaskInv, [Next]_vars
  PROVE  VaultInv'
<1>1. ~May("lost") /\ ~May("cancel")
  BY DEF AnswersArrive, May
<1>2. ASSUME NEW k \in Key, Operator(k) PROVE VaultInv'
  BY <1>2, OperatorKeeps
<1>3. ASSUME NEW t \in Task, Handler(t) PROVE VaultInv'
  BY <1>3, HandlerKeeps
<1>4. ASSUME NEW t \in Task, NEW k \in Key, StartProbe(t, k) PROVE VaultInv'
  BY <1>4, TaskKeeps DEF StartProbe, store
<1>5. CASE Acknowledged
  BY <1>5, AcknowledgedKeeps
<1>6. CASE Failed
  BY <1>1, <1>6, FailedKeeps
<1>7. CASE Cancelled
  BY <1>1, <1>7 DEF Cancelled
<1>8. CASE Crash
  BY <1>8, CrashKeeps
<1>9. CASE Open
  BY <1>9, OpenKeeps
<1>10. CASE Tick
  BY <1>10, TickKeeps
<1>11. CASE UNCHANGED vars
  BY <1>11, TaskKeeps DEF vars
<1> QED BY <1>2, <1>3, <1>4, <1>5, <1>6, <1>7, <1>8, <1>9, <1>10, <1>11 DEF Next

LEMMA Invariance ==
  ASSUME AnswersArrive
  PROVE  Spec => [](VaultInv /\ TaskInv)
<1>1. Init => VaultInv /\ TaskInv
  BY VaultInvInit, TaskInvInit
<1>2. VaultInv /\ TaskInv /\ [Next]_vars => (VaultInv /\ TaskInv)'
  BY VaultInvStep, TaskInvStep
<1> QED BY <1>1, <1>2, PTL DEF Spec

(* MemoryMatchesDatabase: whenever no mutation is in flight, the vault a    *)
(* running process answers operators from is the table that routing reads,  *)
(* whatever failed, was rolled back or crashed before.                      *)
THEOREM MemoryIsTheDatabase ==
  ASSUME AnswersArrive
  PROVE  Spec => []MemoryMatchesDatabase
<1>1. VaultInv => MemoryMatchesDatabase
  BY DEF VaultInv, MemoryMatchesDatabase, NoMutation
<1> QED BY <1>1, Invariance, PTL

(* EnabledKeysAreVerified: no interleaving of set_enabled, quarantine,      *)
(* late answers and restarts leaves an enabled row unverified or retired.   *)
THEOREM EnabledKeysStayVerified ==
  ASSUME AnswersArrive
  PROVE  Spec => []EnabledKeysAreVerified
<1>1. VaultInv => EnabledKeysAreVerified
  BY DEF VaultInv, Sound, EnabledKeysAreVerified
<1> QED BY <1>1, Invariance, PTL

(* OffStaysOff: a disable, retirement or quarantine that was acknowledged   *)
(* holds until enable_upstream is called for that key, across late answers, *)
(* rollbacks, crashes and the choice between file and table at start.       *)
THEOREM AcknowledgedOffStaysOff ==
  ASSUME AnswersArrive
  PROVE  Spec => []OffStaysOff
<1>1. VaultInv => OffStaysOff
  BY DEF VaultInv, OffStaysOff
<1> QED BY <1>1, Invariance, PTL

(* The table changes by the mutation in flight, or while it is empty. *)
LEMMA DbSteps ==
  ASSUME AnswersArrive, VaultInv, [Next]_vars
  PROVE  \/ db' = db
         \/ /\ db' = memory /\ previous = db /\ pending.kind # "none"
            /\ Outcome(pending.kind, pending.key, previous, memory)
         \/ \A k \in Key : db[k].state = "absent"
<1>1. ~May("lost") /\ ~May("cancel")
  BY DEF AnswersArrive, May
<1>2. ASSUME pending.kind # "none", CommitDelta
      PROVE  /\ db' = memory /\ previous = db
             /\ Outcome(pending.kind, pending.key, previous, memory)
  BY <1>2, DeltaIsMemory DEF CommitDelta, VaultInv
<1>3. ASSUME NEW k \in Key, Operator(k) PROVE db' = db
  BY <1>3 DEF Operator, AddKey, EnableKey, DisableKey, RetireKey, store
<1>4. ASSUME NEW t \in Task, Handler(t) PROVE db' = db
  BY <1>4 DEF Handler, SelectKey, ProviderSucceeded, ProviderFailed, ProviderRejected,
              FinishSucceeded, ProbePassed, ProfileProbed, TaskEnds, Record, store
<1>5. ASSUME NEW t \in Task, NEW k \in Key, StartProbe(t, k) PROVE db' = db
  BY <1>5 DEF StartProbe, store
<1>6. CASE Acknowledged
  BY <1>2, <1>6 DEF Acknowledged
<1>7. CASE Failed \/ Cancelled
  BY <1>1, <1>7 DEF Failed, Cancelled, store
<1>8. CASE Crash
  BY <1>2, <1>8 DEF Crash, store
<1>9. CASE Open
  BY <1>9 DEF Open
<1>10. CASE Tick \/ UNCHANGED vars
  BY <1>10 DEF Tick, vars, store
<1> QED BY <1>3, <1>4, <1>5, <1>6, <1>7, <1>8, <1>9, <1>10 DEF Next

(* AddKeepsEnabledKeys: Vault::add on a full vault only replaces a key that *)
(* the table, too, has disabled.                                            *)
THEOREM AddNeverDisplacesEnabledKeys ==
  ASSUME AnswersArrive
  PROVE  Spec => AddKeepsEnabledKeys
<1>1. ASSUME VaultInv, [Next]_vars, NEW k \in Key, db[k].enabled, db'[k].state = "retired"
      PROVE  pending.kind = "retire" /\ pending.key = k
  <2>1. db[k].state = "active"
    BY <1>1 DEF VaultInv, Sound
  <2>2. /\ db' = memory /\ previous = db
        /\ Outcome(pending.kind, pending.key, previous, memory)
    BY <1>1, <2>1, DbSteps
  <2> QED BY <1>1, <2>2 DEF Outcome, Entry
<1>2. VaultInv /\ [Next]_vars =>
        [\A k \in Key : db[k].enabled /\ db'[k].state = "retired" =>
           pending.kind = "retire" /\ pending.key = k]_vars
  BY <1>1
<1> QED BY <1>2, Invariance, PTL DEF Spec, AddKeepsEnabledKeys

(* RetiredKeysStayCold: record_failure of a request that drains on a        *)
(* retired key gives it no cooldown, and nothing brings the key back.       *)
THEOREM RetirementIsFinal ==
  ASSUME AnswersArrive
  PROVE  Spec => RetiredKeysStayCold
<1>1. ASSUME VaultInv, [Next]_vars, NEW k \in Key, db[k].state = "retired"
      PROVE  db'[k].state = "retired" /\ ~(db'[k].cooldown > db[k].cooldown)
  <2>1. db[k].cooldown \in Int
    BY <1>1, Bounds DEF VaultInv, Vault, StoredKey
  <2>2. CASE db' = db
    BY <1>1, <2>1, <2>2
  <2>3. CASE db' # db
    <3>1. /\ db' = memory /\ previous = db
          /\ Outcome(pending.kind, pending.key, previous, memory)
      BY <1>1, <2>3, DbSteps
    <3>2. memory[k].cooldown \in Int
      BY <1>1, Bounds DEF VaultInv, Vault, StoredKey
    <3> QED BY <1>1, <2>1, <3>1, <3>2 DEF Outcome, Entry
  <2> QED BY <2>2, <2>3
<1>2. VaultInv /\ [Next]_vars =>
        [\A k \in Key :
           /\ db[k].state = "retired" => db'[k].state = "retired"
           /\ db[k].state = "retired" /\ db'[k].cooldown > db[k].cooldown => FALSE]_vars
  BY <1>1
<1> QED BY <1>2, Invariance, PTL DEF Spec, RetiredKeysStayCold

(* FailuresNeverShortenCooldowns: record_failure keeps the later of the     *)
(* stored cooldown and its own, in whatever order failures are recorded.    *)
THEOREM CooldownsOutliveFailures ==
  ASSUME AnswersArrive
  PROVE  Spec => FailuresNeverShortenCooldowns
<1>1. ASSUME VaultInv, [Next]_vars, NEW k \in Key,
             pending.kind = "failure", db[k].state = "active"
      PROVE  db'[k].cooldown >= db[k].cooldown
  <2>1. db[k].cooldown \in Int
    BY <1>1, Bounds DEF VaultInv, Vault, StoredKey
  <2>2. CASE db' = db
    BY <2>1, <2>2
  <2>3. CASE db' # db
    BY <1>1, <2>3, DbSteps DEF Outcome, Entry
  <2> QED BY <2>2, <2>3
<1>2. VaultInv /\ [Next]_vars =>
        [\A k \in Key :
           pending.kind = "failure" /\ db[k].state = "active" =>
             db'[k].cooldown >= db[k].cooldown]_vars
  BY <1>1
<1> QED BY <1>2, Invariance, PTL DEF Spec, FailuresNeverShortenCooldowns

-----------------------------------------------------------------------------
(* The slots, under every fault: the vaults of the process and the table    *)
(* may disagree, and the synchronization alone keeps the table in order.    *)

Bounded(v) == IsFiniteSet(Active(v)) /\ Cardinality(Active(v)) <= MaxUpstreamKeys

(* What an operation on a key may do to the states of a vault. *)
StateMoves(k, old, new) ==
  \A j \in Key :
    \/ new[j].state = old[j].state
    \/ old[j].state = "active" /\ new[j].state = "retired"
    \/ j = k /\ old[j].state = "absent" /\ new[j].state = "active"

Legal(k, old, new) ==
  /\ new \in Vault
  /\ StateMoves(k, old, new)
  /\ Bounded(old) => Bounded(new)

Operand(v, k) == v \in Vault /\ k \in Key /\ now \in 1 .. Horizon

LEMMA BoundedSubset ==
  ASSUME NEW v, Bounded(v), NEW w, Active(w) \subseteq Active(v)
  PROVE  Bounded(w)
<1>1. /\ IsFiniteSet(Active(w)) /\ Cardinality(Active(w)) <= Cardinality(Active(v))
      /\ IsFiniteSet(Active(v)) /\ Cardinality(Active(v)) <= MaxUpstreamKeys
  BY FS_Subset DEF Bounded
<1>2. Cardinality(Active(w)) \in Nat /\ Cardinality(Active(v)) \in Nat
  BY <1>1, FS_CardinalityType
<1> QED BY <1>1, <1>2, VaultAssumption DEF Bounded

(* One entry changes and does not become active. *)
LEMMA LegalChange ==
  ASSUME NEW v, NEW k, Operand(v, k), NEW x \in StoredKey,
         x.state = v[k].state \/ (v[k].state = "active" /\ x.state = "retired"),
         NEW w, w = [v EXCEPT ![k] = x]
  PROVE  Legal(k, v, w)
<1>1. w \in Vault /\ \A j \in Key : w[j] = IF j = k THEN x ELSE v[j]
  BY DEF Operand, Vault
<1>2. StateMoves(k, v, w)
  BY <1>1 DEF StateMoves
<1>3. Active(w) \subseteq Active(v)
  BY <1>1 DEF Active
<1> QED BY <1>1, <1>2, <1>3, BoundedSubset DEF Legal

LEMMA LegalAdd ==
  ASSUME NEW v, NEW k, Operand(v, k), v[k].state = "absent", NEW w \in Added(v, k)
  PROVE  Legal(k, v, w)
<1> DEFINE fresh == [Absent EXCEPT !.state = "active"]
           new == [v EXCEPT ![k] = fresh]
<1>1. fresh \in StoredKey /\ fresh.state = "active"
  BY Bounds DEF Absent, StoredKey, NoCooldown
<1>2. k \notin Active(v) /\ v \in Vault /\ k \in Key
  BY DEF Active, Operand
<1> HIDE DEF fresh
<1>3. new \in Vault /\ \A j \in Key : new[j] = IF j = k THEN fresh ELSE v[j]
  BY <1>1, <1>2 DEF Vault
<1>4. CASE Cardinality(Active(v)) < MaxUpstreamKeys /\ w = new
  <2>1. StateMoves(k, v, w)
    BY <1>1, <1>3, <1>4 DEF StateMoves
  <2>2. Active(w) = Active(v) \cup {k}
    BY <1>1, <1>2, <1>3, <1>4 DEF Active
  <2>3. ASSUME Bounded(v) PROVE Bounded(w)
    <3>1. /\ IsFiniteSet(Active(w))
          /\ Cardinality(Active(w)) = Cardinality(Active(v)) + 1
          /\ Cardinality(Active(v)) \in Nat
      BY <1>2, <2>2, <2>3, FS_AddElement, FS_CardinalityType DEF Bounded
    <3> QED BY <1>4, <3>1, VaultAssumption DEF Bounded
  <2> QED BY <1>3, <1>4, <2>1, <2>3 DEF Legal
<1>5. ASSUME NEW j \in Replaceable(v),
             w = [new EXCEPT ![j].state = "retired", ![j].enabled = FALSE]
      PROVE  Legal(k, v, w)
  <2> DEFINE old == [v[j] EXCEPT !.state = "retired", !.enabled = FALSE]
  <2>1. j \in Active(v) /\ j \in Key /\ j # k /\ v[j] \in StoredKey
    BY <1>2 DEF Replaceable, Active, Vault
  <2>2. old \in StoredKey /\ old.state = "retired"
    BY <2>1 DEF StoredKey
  <2>3. new[j] = v[j]
    BY <1>3, <2>1
  <2>4. w = [new EXCEPT ![j] = old]
    BY <1>3, <1>5, <2>1, <2>3 DEF Vault
  <2> HIDE DEF old, new
  <2>5. w \in Vault /\ \A i \in Key : w[i] = IF i = j THEN old ELSE new[i]
    BY <1>3, <2>1, <2>2, <2>4 DEF Vault
  <2>6. v[j].state = "active"
    BY <2>1 DEF Active
  <2>7. StateMoves(k, v, w)
    BY <1>1, <1>3, <2>1, <2>2, <2>5, <2>6 DEF StateMoves
  <2>8. Active(w) = (Active(v) \ {j}) \cup {k}
    BY <1>1, <1>2, <1>3, <2>1, <2>2, <2>5 DEF Active
  <2>9. ASSUME Bounded(v) PROVE Bounded(w)
    <3>1. /\ IsFiniteSet(Active(v) \ {j})
          /\ Cardinality(Active(v) \ {j}) = Cardinality(Active(v)) - 1
          /\ Cardinality(Active(v)) \in Nat
      BY <2>1, <2>9, FS_RemoveElement, FS_CardinalityType DEF Bounded
    <3>2. k \notin Active(v) \ {j}
      BY <1>2
    <3>3. /\ IsFiniteSet(Active(w))
          /\ Cardinality(Active(w)) = Cardinality(Active(v) \ {j}) + 1
      BY <2>8, <3>1, <3>2, FS_AddElement
    <3> QED BY <2>9, <3>1, <3>3, VaultAssumption DEF Bounded
  <2> QED BY <2>5, <2>7, <2>9 DEF Legal
<1> QED BY <1>4, <1>5 DEF Added, fresh


LEMMA LegalOperator ==
  ASSUME NEW v, NEW k, Operand(v, k),
         NEW w \in EnabledKey(v, k) \cup DisabledKey(v, k) \cup RetiredKey(v, k)
  PROVE  Legal(k, v, w)
<1>1. v[k] \in StoredKey
  BY DEF Operand, Vault
<1>2. PICK x \in StoredKey :
        /\ w = [v EXCEPT ![k] = x]
        /\ x.state = v[k].state \/ (v[k].state = "active" /\ x.state = "retired")
  <2>1. CASE w \in EnabledKey(v, k)
    <3> DEFINE x == [v[k] EXCEPT !.enabled = TRUE]
    <3>1. x \in StoredKey /\ x.state = v[k].state
      BY <1>1 DEF StoredKey
    <3>2. w = [v EXCEPT ![k] = x]
      BY <2>1 DEF EnabledKey, Operand, Vault
    <3> QED BY <3>1, <3>2
  <2>2. CASE w \in DisabledKey(v, k)
    <3> DEFINE x == [v[k] EXCEPT !.enabled = FALSE]
    <3>1. x \in StoredKey /\ x.state = v[k].state
      BY <1>1 DEF StoredKey
    <3>2. w = [v EXCEPT ![k] = x]
      BY <2>2 DEF DisabledKey, Operand, Vault
    <3> QED BY <3>1, <3>2
  <2>3. CASE w \in RetiredKey(v, k)
    <3> DEFINE x == [state |-> "retired", enabled |-> FALSE, verified |-> FALSE,
                     cooldown |-> NoCooldown]
    <3>1. x \in StoredKey /\ x.state = "retired"
      BY Bounds DEF StoredKey, NoCooldown
    <3>2. v[k].state = "active" /\ w = [v EXCEPT ![k] = x]
      BY <2>3 DEF RetiredKey, Active
    <3> QED BY <3>1, <3>2
  <2> QED BY <2>1, <2>2, <2>3
<1> QED BY <1>2, LegalChange

LEMMA LegalAnswer ==
  ASSUME NEW v, NEW k, Operand(v, k),
         NEW w \in VerifiedKey(v, k) \cup QuarantinedKey(v, k) \cup RequestRecorded(v, k)
                     \cup FailureRecorded(v, k)
  PROVE  Legal(k, v, w)
<1>1. v[k] \in StoredKey /\ v[k].cooldown \in 0 .. Horizon + MaxDelay
  BY DEF Operand, Vault, StoredKey
<1>2. NoCooldown \in 0 .. Horizon + MaxDelay
  BY Bounds DEF NoCooldown
<1>3. PICK x \in StoredKey : w = [v EXCEPT ![k] = x] /\ x.state = v[k].state
  <2>1. CASE w \in VerifiedKey(v, k)
    <3> DEFINE x == [v[k] EXCEPT !.verified = TRUE, !.cooldown = NoCooldown]
    <3>1. x \in StoredKey /\ x.state = v[k].state
      BY <1>1, <1>2 DEF StoredKey
    <3>2. w = [v EXCEPT ![k] = x]
      BY <2>1 DEF VerifiedKey, Operand, Vault
    <3> QED BY <3>1, <3>2
  <2>2. CASE w \in QuarantinedKey(v, k)
    <3> DEFINE x == [v[k] EXCEPT !.enabled = FALSE, !.verified = FALSE,
                             !.cooldown = NoCooldown]
    <3>1. x \in StoredKey /\ x.state = v[k].state
      BY <1>1, <1>2 DEF StoredKey
    <3>2. w = [v EXCEPT ![k] = x]
      BY <2>2 DEF QuarantinedKey, Operand, Vault
    <3> QED BY <3>1, <3>2
  <2>3. CASE w \in RequestRecorded(v, k)
    <3> DEFINE x == [v[k] EXCEPT !.cooldown = NoCooldown]
    <3>1. x \in StoredKey /\ x.state = v[k].state
      BY <1>1, <1>2 DEF StoredKey
    <3>2. w = [v EXCEPT ![k] = x]
      BY <2>3 DEF RequestRecorded, Operand, Vault
    <3> QED BY <3>1, <3>2
  <2>4. CASE w \in FailureRecorded(v, k)
    <3>1. PICK c \in 0 .. Horizon + MaxDelay : w = [v EXCEPT ![k].cooldown = c]
      <4>1. ASSUME NEW d \in Delay PROVE Later(v[k].cooldown, now + d) \in 0 .. Horizon + MaxDelay
        BY <1>1, <4>1, Bounds DEF Later, Delay, Operand
      <4>2. \/ w = [v EXCEPT ![k].cooldown = NoCooldown]
            \/ \E d \in Delay : w = [v EXCEPT ![k].cooldown = Later(v[k].cooldown, now + d)]
        BY <2>4 DEF FailureRecorded
      <4> QED BY <1>2, <4>1, <4>2
    <3> DEFINE x == [v[k] EXCEPT !.cooldown = c]
    <3>2. x \in StoredKey /\ x.state = v[k].state
      BY <1>1 DEF StoredKey
    <3>3. w = [v EXCEPT ![k] = x]
      BY <3>1 DEF Operand, Vault
    <3> QED BY <3>2, <3>3
  <2> QED BY <2>1, <2>2, <2>3, <2>4
<1> QED BY <1>3, LegalChange

-----------------------------------------------------------------------------
(* The lowest free slot *)

LessThan == OpToRel(<, Nat)

LEMMA LessThanIsWellFounded == IsWellFoundedOn(LessThan, Nat)
BY NatLessThanWellFounded DEF LessThan

LEMMA LessThanIsLess ==
  ASSUME NEW x \in Nat, NEW y \in Nat
  PROVE  <<x, y>> \in LessThan <=> x < y
BY DEF LessThan, OpToRel

LEMMA LeastElement ==
  ASSUME NEW T \in SUBSET Nat, T # {}
  PROVE  \E s \in T : \A j \in T : s <= j
<1>1. PICK s \in T : \A j \in T : ~(<<j, s>> \in LessThan)
  BY LessThanIsWellFounded, WFMin
<1>2. ASSUME NEW j \in T PROVE s <= j
  <2>1. s \in Nat /\ j \in Nat
    OBVIOUS
  <2>2. ~(j < s)
    BY <1>1, <2>1, LessThanIsLess
  <2> QED BY <2>1, <2>2
<1> QED BY <1>2

(* Fewer slots in use than there are leave one free. *)
LEMMA FirstFreeIsFree ==
  ASSUME NEW used, IsFiniteSet(used), Cardinality(used) < MaxUpstreamKeys
  PROVE  FirstFreeOf(used) \in 1 .. MaxUpstreamKeys /\ FirstFreeOf(used) \notin used
<1> DEFINE free == (1 .. MaxUpstreamKeys) \ used
<1>1. MaxUpstreamKeys \in Nat /\ MaxUpstreamKeys > 0
  BY VaultAssumption
<1>2. IsFiniteSet(1 .. MaxUpstreamKeys) /\ Cardinality(1 .. MaxUpstreamKeys) = MaxUpstreamKeys
  BY <1>1, FS_Interval
<1>3. free # {}
  <2> SUFFICES ASSUME free = {} PROVE FALSE
    OBVIOUS
  <2>1. 1 .. MaxUpstreamKeys \in SUBSET used
    OBVIOUS
  <2>2. Cardinality(1 .. MaxUpstreamKeys) <= Cardinality(used)
    BY <2>1, FS_Subset
  <2>3. Cardinality(used) \in Nat
    BY FS_CardinalityType
  <2> QED BY <1>1, <1>2, <2>2, <2>3
<1>4. PICK s \in free : \A j \in free : s <= j
  <2>1. free \in SUBSET Nat
    OBVIOUS
  <2> QED BY <1>3, <2>1, LeastElement
<1>5. \E r \in 1 .. MaxUpstreamKeys :
        r \notin used /\ \A j \in 1 .. MaxUpstreamKeys : j \notin used => r <= j
  BY <1>4
<1> QED BY <1>5 DEF FirstFreeOf


-----------------------------------------------------------------------------
(* The invariant of the table *)

Slotted(rows, slots) ==
  \A k \in Active(rows) :
    /\ slots[k] \in 1 .. MaxUpstreamKeys
    /\ \A j \in Active(rows) : slots[j] = slots[k] => j = k

StoreTyped ==
  /\ running \in BOOLEAN
  /\ memory \in Vault /\ previous \in Vault /\ db \in Vault
  /\ pending \in Mutation
  /\ slot \in [Key -> 0 .. MaxUpstreamKeys]
  /\ receipt \in [Key -> {"none", "valid", "invalid"}]
  /\ off \subseteq Key /\ now \in 1 .. Horizon

(* The mutation in flight is one step of the vault it started from, which   *)
(* is all that is left of their relation once the table has gone its own    *)
(* way; and no vault, in memory or saved, holds more active keys than slots. *)
MutationInv ==
  /\ pending.kind = "none" => memory = previous
  /\ pending.kind # "none" =>
       running /\ pending.key \in Key /\ Legal(pending.key, previous, memory)

SlotsInv ==
  /\ StoreTyped
  /\ MutationInv
  /\ Bounded(memory) /\ Bounded(previous) /\ Bounded(db)
  /\ Slotted(db, slot)

LEMMA SlotsInvInit == Init => SlotsInv
<1> SUFFICES ASSUME Init PROVE SlotsInv
  OBVIOUS
<1>1. Absent \in StoredKey /\ Absent.state = "absent"
  BY Bounds DEF Absent, StoredKey, NoCooldown
<1>2. /\ memory \in Vault /\ previous = memory /\ db = memory
      /\ \A k \in Key : memory[k] = Absent
  BY <1>1 DEF Init, Vault
<1>3. Active(memory) = {}
  BY <1>1, <1>2 DEF Active
<1>4. Bounded(memory)
  BY <1>3, FS_EmptySet, VaultAssumption DEF Bounded
<1>5. pending \in Mutation /\ pending.kind = "none"
  BY DEF Init, NoMutation, Mutation, Kind
<1>6. 1 \in 1 .. Horizon /\ 0 \in 0 .. MaxUpstreamKeys
  BY Bounds, VaultAssumption
<1>7. StoreTyped
  BY <1>2, <1>5, <1>6 DEF Init, StoreTyped
<1>8. Slotted(db, slot)
  BY <1>2, <1>3 DEF Slotted
<1> QED BY <1>2, <1>4, <1>5, <1>7, <1>8 DEF SlotsInv, MutationInv

(* At most one key is inserted, the one of the mutation, and no other row   *)
(* becomes active.                                                          *)
LEMMA InsertsOne ==
  ASSUME SlotsInv, pending.kind # "none"
  PROVE  Inserted \subseteq {pending.key}
BY DEF SlotsInv, MutationInv, Legal, StateMoves, Inserted

LEMMA DeltaIsTyped ==
  ASSUME SlotsInv
  PROVE  DbAfter \in Vault
<1> SUFFICES ASSUME NEW k \in Key PROVE DbAfter[k] \in StoredKey
  BY DEF DbAfter, Vault
<1>1. memory[k] \in StoredKey /\ previous[k] \in StoredKey /\ db[k] \in StoredKey
  BY DEF SlotsInv, StoreTyped, Vault
<1>2. CASE k \in Inserted
  BY <1>1, <1>2 DEF DbAfter
<1>3. CASE k \notin Inserted
  <2>1. DbAfter[k] =
          [state |-> Changed(previous[k].state, memory[k].state, db[k].state),
           enabled |-> Changed(previous[k].enabled, memory[k].enabled, db[k].enabled),
           verified |-> Changed(previous[k].verified, memory[k].verified, db[k].verified),
           cooldown |-> Changed(previous[k].cooldown, memory[k].cooldown, db[k].cooldown)]
    BY <1>3 DEF DbAfter
  <2> QED BY <1>1, <2>1 DEF Changed, StoredKey
<1> QED BY <1>2, <1>3

LEMMA OnlyInsertsActivate ==
  ASSUME SlotsInv, pending.kind # "none"
  PROVE  Active(DbAfter) \ Inserted \subseteq Active(db)
<1> SUFFICES ASSUME NEW k \in Key, DbAfter[k].state = "active", k \notin Inserted
             PROVE  db[k].state = "active"
  BY DEF Active
<1>1. DbAfter[k].state = Changed(previous[k].state, memory[k].state, db[k].state)
  BY DEF DbAfter
<1>2. \/ memory[k].state = previous[k].state
      \/ previous[k].state = "active" /\ memory[k].state = "retired"
      \/ previous[k].state = "absent" /\ memory[k].state = "active"
  BY DEF SlotsInv, MutationInv, Legal, StateMoves
<1>3. ~(previous[k].state = "absent" /\ memory[k].state = "active")
  BY DEF Inserted
<1> QED BY <1>1, <1>2, <1>3 DEF Changed

LEMMA DeltaIsBounded ==
  ASSUME SlotsInv, pending.kind # "none", Admitted
  PROVE  Bounded(DbAfter)
<1>1. Bounded(db)
  BY DEF SlotsInv
<1>2. CASE Inserted = {}
  <2>1. Active(DbAfter) \subseteq Active(db)
    BY <1>2, OnlyInsertsActivate
  <2> QED BY <1>1, <2>1, BoundedSubset
<1>3. CASE Inserted # {}
  <2>1. Active(DbAfter) \in SUBSET (Active(db) \cup {pending.key})
    BY InsertsOne, OnlyInsertsActivate
  <2>2. IsFiniteSet(Active(db) \cup {pending.key})
    BY <1>1, FS_AddElement DEF Bounded
  <2>3. IsFiniteSet(Active(DbAfter))
    BY <2>1, <2>2, FS_Subset
  <2> QED BY <1>3, <2>3 DEF Admitted, Bounded
<1> QED BY <1>2, <1>3

(* The slot of an inserted key is in range and nobody's: the row itself is  *)
(* one of the active keys that Admitted counts, so the others leave room.   *)
LEMMA InsertedSlotIsFree ==
  ASSUME SlotsInv, pending.kind # "none", Admitted, Inserted # {}
  PROVE  FirstFreeOf(SlotsInUse) \in 1 .. MaxUpstreamKeys /\ FirstFreeOf(SlotsInUse) \notin SlotsInUse
<1> DEFINE k == pending.key
           others == Active(DbAfter) \ Inserted
           f == [j \in others |-> slot[j]]
<1>1. Inserted = {k} /\ k \in Key
  BY InsertsOne DEF Inserted
<1>2. memory[k].state = "active"
  <2>1. previous[k].state = "absent" /\ memory[k].state # "absent"
    BY <1>1 DEF Inserted
  <2> QED BY <1>1, <2>1 DEF SlotsInv, MutationInv, Legal, StateMoves
<1>3. k \in Active(DbAfter)
  BY <1>1, <1>2 DEF DbAfter, Active
<1>4. Bounded(DbAfter)
  BY DeltaIsBounded
<1>5. others = Active(DbAfter) \ {k}
  BY <1>1
<1>6. /\ IsFiniteSet(others) /\ Cardinality(others) = Cardinality(Active(DbAfter)) - 1
      /\ Cardinality(Active(DbAfter)) \in Nat
  BY <1>3, <1>4, <1>5, FS_RemoveElement, FS_CardinalityType DEF Bounded
<1> HIDE DEF others
<1>7. SlotsInUse = {f[j] : j \in others}
  BY DEF SlotsInUse, others
<1>8. f \in Surjection(others, SlotsInUse)
  BY <1>7 DEF Surjection
<1>9. IsFiniteSet(SlotsInUse) /\ Cardinality(SlotsInUse) <= Cardinality(others)
  BY <1>6, <1>8, FS_Surjection
<1>10. Cardinality(SlotsInUse) < MaxUpstreamKeys
  BY <1>4, <1>6, <1>9, FS_CardinalityType, VaultAssumption DEF Bounded
<1> QED BY <1>9, <1>10, FirstFreeIsFree


LEMMA SlotsAfterAreSlotted ==
  ASSUME SlotsInv, pending.kind # "none", Admitted
  PROVE  SlotAfter \in [Key -> 0 .. MaxUpstreamKeys] /\ Slotted(DbAfter, SlotAfter)
<1> DEFINE free == FirstFreeOf(SlotsInUse)
<1>1. slot \in [Key -> 0 .. MaxUpstreamKeys] /\ Slotted(db, slot) /\ MaxUpstreamKeys \in Nat
  BY VaultAssumption DEF SlotsInv, StoreTyped
<1>2. Inserted # {} => free \in 1 .. MaxUpstreamKeys /\ free \notin SlotsInUse
  BY InsertedSlotIsFree
<1> HIDE DEF free
<1>3. \A k \in Key : SlotAfter[k] = IF k \in Inserted THEN free ELSE slot[k]
  BY DEF SlotAfter, free
<1>4. ASSUME NEW k \in Key PROVE SlotAfter[k] \in 0 .. MaxUpstreamKeys
  BY <1>1, <1>2, <1>3
<1>5. SlotAfter \in [Key -> 0 .. MaxUpstreamKeys]
  BY <1>4 DEF SlotAfter
<1>6. ASSUME NEW k \in Active(DbAfter)
      PROVE  /\ SlotAfter[k] \in 1 .. MaxUpstreamKeys
             /\ \A j \in Active(DbAfter) : SlotAfter[j] = SlotAfter[k] => j = k
  <2>1. k \in Key /\ Active(DbAfter) \subseteq Key
    BY DEF Active
  <2>2. \A j \in Active(DbAfter) \ Inserted : j \in Active(db) /\ slot[j] \in SlotsInUse
    BY OnlyInsertsActivate DEF SlotsInUse
  <2>3. CASE k \in Inserted
    <3>1. SlotAfter[k] = free /\ free \in 1 .. MaxUpstreamKeys /\ free \notin SlotsInUse
      BY <1>2, <1>3, <2>1, <2>3
    <3>2. ASSUME NEW j \in Active(DbAfter), SlotAfter[j] = SlotAfter[k] PROVE j = k
      <4>1. CASE j \in Inserted
        BY <2>3, <4>1, InsertsOne
      <4>2. CASE j \notin Inserted
        <5>1. SlotAfter[j] = slot[j] /\ slot[j] \in SlotsInUse
          BY <1>3, <2>1, <2>2, <4>2
        <5> QED BY <3>1, <3>2, <5>1
      <4> QED BY <4>1, <4>2
    <3> QED BY <3>1, <3>2
  <2>4. CASE k \notin Inserted
    <3>1. SlotAfter[k] = slot[k] /\ k \in Active(db) /\ slot[k] \in SlotsInUse
      BY <1>3, <2>1, <2>2, <2>4
    <3>2. slot[k] \in 1 .. MaxUpstreamKeys
      BY <1>1, <3>1 DEF Slotted
    <3>3. ASSUME NEW j \in Active(DbAfter), SlotAfter[j] = SlotAfter[k] PROVE j = k
      <4>1. CASE j \in Inserted
        <5>1. SlotAfter[j] = free /\ free \notin SlotsInUse
          BY <1>2, <1>3, <2>1, <4>1
        <5> QED BY <3>1, <3>3, <5>1
      <4>2. CASE j \notin Inserted
        <5>1. SlotAfter[j] = slot[j] /\ j \in Active(db)
          BY <1>3, <2>1, <2>2, <4>2
        <5> QED BY <1>1, <3>1, <3>3, <5>1 DEF Slotted
      <4> QED BY <4>1, <4>2
    <3> QED BY <3>1, <3>2, <3>3
  <2> QED BY <2>3, <2>4
<1>7. Slotted(DbAfter, SlotAfter)
  BY <1>6 DEF Slotted
<1> QED BY <1>5, <1>7

LEMMA ReceiptsAreTyped ==
  ASSUME SlotsInv
  PROVE  ReceiptAfter \in [Key -> {"none", "valid", "invalid"}]
<1>1. receipt \in [Key -> {"none", "valid", "invalid"}]
  BY DEF SlotsInv, StoreTyped
<1> QED BY <1>1 DEF ReceiptAfter

(* What a step leaves the table as. *)
TableKept ==
  /\ db' \in Vault /\ Bounded(db')
  /\ slot' \in [Key -> 0 .. MaxUpstreamKeys] /\ Slotted(db', slot')
  /\ receipt' \in [Key -> {"none", "valid", "invalid"}]

LEMMA CommitKeepsTheTable ==
  ASSUME SlotsInv, pending.kind # "none", CommitDelta \/ UNCHANGED store
  PROVE  TableKept
<1>1. CASE CommitDelta
  <2>1. Admitted /\ db' = DbAfter /\ slot' = SlotAfter /\ receipt' = ReceiptAfter
    BY <1>1 DEF CommitDelta
  <2>2. DbAfter \in Vault /\ Bounded(DbAfter)
    BY <2>1, DeltaIsTyped, DeltaIsBounded
  <2> QED BY <2>1, <2>2, SlotsAfterAreSlotted, ReceiptsAreTyped DEF TableKept
<1>2. CASE UNCHANGED store
  BY <1>2 DEF store, SlotsInv, StoreTyped, TableKept
<1> QED BY <1>1, <1>2

LEMMA SlotsInvSettle ==
  ASSUME SlotsInv, TableKept, NEW vault, vault \in Vault, Bounded(vault), Settle(vault),
         running' \in BOOLEAN, now' = now, off' \subseteq Key
  PROVE  SlotsInv'
<1>1. memory' = vault /\ previous' = vault /\ pending' = NoMutation
  BY DEF Settle
<1>2. pending' \in Mutation /\ pending'.kind = "none"
  BY <1>1 DEF NoMutation, Mutation, Kind
<1>3. now \in 1 .. Horizon
  BY DEF SlotsInv, StoreTyped
<1>4. Bounded(memory)' /\ Bounded(previous)' /\ Bounded(db)' /\ Slotted(db, slot)'
  BY <1>1 DEF TableKept, Bounded, Slotted, Active
<1>5. StoreTyped'
  BY <1>1, <1>2, <1>3 DEF StoreTyped, TableKept
<1>6. MutationInv'
  BY <1>1, <1>2 DEF MutationInv
<1> QED BY <1>4, <1>5, <1>6 DEF SlotsInv

LEMMA SlotsInvBegin ==
  ASSUME SlotsInv, NEW kind \in Kind \ {"none"}, NEW k \in Key, NEW t \in Task \cup {NoTask},
         NEW results, \A w \in results : Legal(k, memory, w),
         Begin(kind, k, t, results),
         UNCHANGED <<running, store, now>>, off' \subseteq off
  PROVE  SlotsInv'
<1>1. /\ running /\ Legal(k, memory, memory') /\ previous' = memory
      /\ pending' = [kind |-> kind, key |-> k, task |-> t]
  BY DEF Begin
<1>2. pending' \in Mutation /\ pending'.kind = kind /\ pending'.key = k
  BY <1>1 DEF Mutation
<1>3. memory \in Vault /\ Bounded(memory)
  BY DEF SlotsInv, StoreTyped
<1>4. memory' \in Vault /\ Bounded(memory')
  BY <1>1, <1>3 DEF Legal
<1>5. Bounded(memory)' /\ Bounded(previous)' /\ Bounded(db)' /\ Slotted(db, slot)'
  BY <1>1, <1>3, <1>4 DEF SlotsInv, store, Bounded, Slotted, Active
<1>6. StoreTyped'
  BY <1>1, <1>2, <1>3, <1>4 DEF SlotsInv, StoreTyped, store
<1>7. Legal(pending.key, previous, memory)'
  BY <1>1, <1>2 DEF Legal, StateMoves, Bounded, Active
<1>8. MutationInv'
  BY <1>1, <1>2, <1>7 DEF MutationInv
<1> QED BY <1>5, <1>6, <1>8 DEF SlotsInv

(* A step that leaves the vaults and the slots alone. *)
LEMMA SlotsInvFrame ==
  ASSUME SlotsInv, UNCHANGED <<running, memory, previous, pending, db, slot>>,
         receipt' \in [Key -> {"none", "valid", "invalid"}],
         off' \subseteq Key, now' \in 1 .. Horizon
  PROVE  SlotsInv'
<1>1. StoreTyped'
  BY DEF SlotsInv, StoreTyped
<1>2. Bounded(memory)' /\ Bounded(previous)' /\ Bounded(db)' /\ Slotted(db, slot)'
  BY DEF SlotsInv, Bounded, Slotted, Active
<1>3. MutationInv'
  BY DEF SlotsInv, MutationInv, Legal, StateMoves, Bounded, Active
<1> QED BY <1>1, <1>2, <1>3 DEF SlotsInv


LEMMA SlotsInvRecord ==
  ASSUME SlotsInv, NEW t \in Task, NEW kind \in Kind \ {"none"},
         task[t].key \in Key,
         NEW results, \A w \in results : Legal(task[t].key, memory, w),
         Record(t, kind, results)
  PROVE  SlotsInv'
<1>1. UNCHANGED <<running, store, off, now>>
  BY DEF Record
<1>2. CASE Begin(kind, task[t].key, t, results)
  BY <1>1, <1>2, SlotsInvBegin
<1>3. CASE Refuse(t, results)
  <2>1. UNCHANGED <<running, memory, previous, pending, db, slot>> /\ receipt' = receipt
    BY <1>1, <1>3 DEF Refuse, store
  <2> QED BY <1>1, <2>1, SlotsInvFrame DEF SlotsInv, StoreTyped
<1> QED BY <1>2, <1>3 DEF Record

LEMMA OperandNow ==
  ASSUME SlotsInv, NEW k \in Key
  PROVE  Operand(memory, k)
BY DEF SlotsInv, StoreTyped, Operand

LEMMA SlotsInvOperator ==
  ASSUME SlotsInv, NEW k \in Key, Operator(k)
  PROVE  SlotsInv'
<1>1. CASE AddKey(k)
  <2>1. \A w \in Added(memory, k) : Legal(k, memory, w)
    BY <1>1, OperandNow, LegalAdd DEF AddKey
  <2> QED BY <1>1, <2>1, SlotsInvBegin DEF AddKey, Kind
<1>2. CASE EnableKey(k)
  <2>1. \A w \in EnabledKey(memory, k) : Legal(k, memory, w)
    BY OperandNow, LegalOperator
  <2>2. Begin("enable", k, NoTask, EnabledKey(memory, k)) /\ off' \subseteq off
        /\ UNCHANGED <<running, store, now>>
    BY <1>2 DEF EnableKey
  <2> QED BY <2>1, <2>2, SlotsInvBegin DEF Kind
<1>3. CASE DisableKey(k)
  <2>1. \A w \in DisabledKey(memory, k) : Legal(k, memory, w)
    BY OperandNow, LegalOperator
  <2> QED BY <1>3, <2>1, SlotsInvBegin DEF DisableKey, Kind
<1>4. CASE RetireKey(k)
  <2>1. \A w \in RetiredKey(memory, k) : Legal(k, memory, w)
    BY OperandNow, LegalOperator
  <2> QED BY <1>4, <2>1, SlotsInvBegin DEF RetireKey, Kind
<1> QED BY <1>1, <1>2, <1>3, <1>4 DEF Operator

LEMMA SlotsInvHandler ==
  ASSUME SlotsInv, TaskInv, NEW t \in Task, Handler(t)
  PROVE  SlotsInv'
<1> DEFINE k == task[t].key
<1>1. task[t].pc # "idle" => k \in Key
  BY DEF TaskInv
<1>2. receipt \in [Key -> {"none", "valid", "invalid"}] /\ off \subseteq Key /\ now \in 1 .. Horizon
  BY DEF SlotsInv, StoreTyped
<1>3. CASE ProviderSucceeded(t)
  <2>1. k \in Key /\ \A w \in RequestRecorded(memory, k) : Legal(k, memory, w)
    BY <1>1, <1>3, OperandNow, LegalAnswer DEF ProviderSucceeded
  <2> QED BY <1>3, <2>1, SlotsInvRecord DEF ProviderSucceeded, Kind
<1>4. CASE ProviderFailed(t)
  <2>1. k \in Key /\ \A w \in FailureRecorded(memory, k) : Legal(k, memory, w)
    BY <1>1, <1>4, OperandNow, LegalAnswer DEF ProviderFailed
  <2> QED BY <1>4, <2>1, SlotsInvRecord DEF ProviderFailed, Kind
<1>5. CASE ProviderRejected(t)
  <2>1. k \in Key /\ \A w \in QuarantinedKey(memory, k) : Legal(k, memory, w)
    BY <1>1, <1>5, OperandNow, LegalAnswer DEF ProviderRejected
  <2> QED BY <1>5, <2>1, SlotsInvRecord DEF ProviderRejected, Kind
<1>6. CASE ProbePassed(t)
  <2>1. k \in Key /\ \A w \in VerifiedKey(memory, k) : Legal(k, memory, w)
    BY <1>1, <1>6, OperandNow, LegalAnswer DEF ProbePassed
  <2> QED BY <1>6, <2>1, SlotsInvRecord DEF ProbePassed, Kind
<1>7. CASE SelectKey(t) \/ FinishSucceeded(t) \/ ProfileProbed(t) \/ TaskEnds(t)
  <2>1. /\ UNCHANGED <<running, memory, previous, pending, db, slot, off, now>>
        /\ receipt' \in [Key -> {"none", "valid", "invalid"}]
    BY <1>2, <1>7 DEF SelectKey, FinishSucceeded, ProfileProbed, TaskEnds, store
  <2> QED BY <1>2, <2>1, SlotsInvFrame
<1> QED BY <1>3, <1>4, <1>5, <1>6, <1>7 DEF Handler

(* A migration gives the active keys of the file the slots 1 .. n, n of     *)
(* them: no two the same one.                                               *)
LEMMA MigrationSlots ==
  ASSUME NEW rows, Bounded(rows), NEW slots,
         {slots[k] : k \in Active(rows)} = 1 .. Cardinality(Active(rows))
  PROVE  Slotted(rows, slots)
<1> DEFINE n == Cardinality(Active(rows))
           f == [k \in Active(rows) |-> slots[k]]
<1>1. IsFiniteSet(Active(rows)) /\ n \in Nat /\ n <= MaxUpstreamKeys
  BY FS_CardinalityType DEF Bounded
<1>2. Cardinality(1 .. n) = n
  BY <1>1, FS_Interval
<1>3. f \in Surjection(Active(rows), 1 .. n)
  BY DEF Surjection
<1>4. f \in Injection(Active(rows), 1 .. n)
  BY <1>1, <1>2, <1>3, FS_SurjSameCardinalityImpliesInj
<1>5. \A k \in Active(rows) : f[k] = slots[k] /\ f[k] \in 1 .. n
  BY <1>4 DEF Injection, IsInjective
<1>6. \A k, j \in Active(rows) : f[k] = f[j] => k = j
  BY <1>4 DEF Injection, IsInjective
<1> HIDE DEF f, n
<1>7. 1 .. n \subseteq 1 .. MaxUpstreamKeys
  BY <1>1, VaultAssumption
<1> QED BY <1>5, <1>6, <1>7 DEF Slotted

LEMMA SlotsInvOpen ==
  ASSUME SlotsInv, Open
  PROVE  SlotsInv'
<1>1. /\ running' = TRUE /\ now' = now /\ off' = off /\ off \subseteq Key
      /\ receipt' = receipt /\ receipt \in [Key -> {"none", "valid", "invalid"}]
      /\ memory \in Vault /\ db \in Vault /\ Bounded(memory) /\ Bounded(db)
      /\ slot \in [Key -> 0 .. MaxUpstreamKeys] /\ Slotted(db, slot)
  BY DEF Open, SlotsInv, StoreTyped
<1>2. CASE Settle(db) /\ UNCHANGED <<db, slot>>
  <2>1. TableKept
    BY <1>1, <1>2 DEF TableKept
  <2> QED BY <1>1, <1>2, <2>1, SlotsInvSettle
<1>3. CASE /\ Settle(memory) /\ db' = memory /\ slot' \in [Key -> 0 .. MaxUpstreamKeys]
           /\ {slot'[k] : k \in Active(memory)} = 1 .. Cardinality(Active(memory))
  <2>1. Slotted(memory, slot')
    BY <1>1, <1>3, MigrationSlots
  <2>2. Slotted(db', slot') /\ Bounded(db')
    BY <1>1, <1>3, <2>1
  <2>3. TableKept
    BY <1>1, <1>3, <2>2 DEF TableKept
  <2> QED BY <1>1, <1>3, <2>3, SlotsInvSettle
<1> QED BY <1>2, <1>3 DEF Open, Loaded

LEMMA SlotsInvStep ==
  ASSUME SlotsInv, TaskInv, [Next]_vars
  PROVE  SlotsInv'
<1>1. /\ running \in BOOLEAN /\ off \subseteq Key /\ now \in 1 .. Horizon
      /\ receipt \in [Key -> {"none", "valid", "invalid"}]
      /\ memory \in Vault /\ previous \in Vault /\ Bounded(memory) /\ Bounded(previous)
      /\ pending.kind # "none" => pending.key \in Key
  BY DEF SlotsInv, StoreTyped, MutationInv
<1>2. ASSUME NEW k \in Key, Operator(k) PROVE SlotsInv'
  BY <1>2, SlotsInvOperator
<1>3. ASSUME NEW t \in Task, Handler(t) PROVE SlotsInv'
  BY <1>3, SlotsInvHandler
<1>4. ASSUME NEW t \in Task, NEW k \in Key, StartProbe(t, k) PROVE SlotsInv'
  <2>1. UNCHANGED <<running, memory, previous, pending, db, slot, receipt, off, now>>
    BY <1>4 DEF StartProbe, store
  <2> QED BY <1>1, <2>1, SlotsInvFrame
<1>5. CASE Acknowledged
  <2>1. TableKept
    BY <1>5, CommitKeepsTheTable DEF Acknowledged
  <2>2. Settle(memory) /\ running' = running /\ now' = now /\ off' \subseteq Key
    BY <1>1, <1>5 DEF Acknowledged
  <2> QED BY <1>1, <2>1, <2>2, SlotsInvSettle
<1>6. CASE Failed
  <2>1. TableKept
    BY <1>6, CommitKeepsTheTable DEF Failed
  <2>2. Settle(previous) /\ running' = running /\ now' = now /\ off' = off
    BY <1>6 DEF Failed, RollBack
  <2> QED BY <1>1, <2>1, <2>2, SlotsInvSettle
<1>7. CASE Cancelled
  <2>1. TableKept
    BY <1>7, CommitKeepsTheTable DEF Cancelled
  <2>2. Settle(memory) /\ running' = running /\ now' = now /\ off' = off
    BY <1>7 DEF Cancelled
  <2> QED BY <1>1, <2>1, <2>2, SlotsInvSettle
<1>8. CASE Crash
  <2>1. TableKept
    <3>1. CASE UNCHANGED store
      BY <3>1 DEF store, SlotsInv, StoreTyped, TableKept
    <3>2. CASE pending.kind # "none" /\ CommitDelta
      BY <3>2, CommitKeepsTheTable
    <3> QED BY <1>8, <3>1, <3>2 DEF Crash
  <2>2. Settle(memory) /\ running' = FALSE /\ now' = now /\ off' = off
    BY <1>8 DEF Crash
  <2> QED BY <1>1, <2>1, <2>2, SlotsInvSettle
<1>9. CASE Open
  BY <1>9, SlotsInvOpen
<1>10. CASE Tick
  <2>1. now' \in 1 .. Horizon
    BY <1>1, <1>10, Bounds DEF Tick
  <2>2. UNCHANGED <<running, memory, previous, pending, db, slot, receipt, off>>
    BY <1>10 DEF Tick, store
  <2> QED BY <1>1, <2>1, <2>2, SlotsInvFrame
<1>11. CASE UNCHANGED vars
  BY <1>1, <1>11, SlotsInvFrame DEF vars
<1> QED BY <1>2, <1>3, <1>4, <1>5, <1>6, <1>7, <1>8, <1>9, <1>10, <1>11 DEF Next

LEMMA SlotsInvariance == Spec => [](SlotsInv /\ TaskInv)
<1>1. Init => SlotsInv /\ TaskInv
  BY SlotsInvInit, TaskInvInit
<1>2. SlotsInv /\ TaskInv /\ [Next]_vars => (SlotsInv /\ TaskInv)'
  BY SlotsInvStep, TaskInvStep
<1> QED BY <1>1, <1>2, PTL DEF Spec

(* Every variable of the vault keeps its type, under every fault: what      *)
(* VaultStore::open, mutate and sync_database_delta leave is always a vault *)
(* and a table they can load again.                                         *)
THEOREM TypeCorrect == Spec => []TypeOK
<1>1. SlotsInv /\ TaskInv => TypeOK
  BY DEF SlotsInv, StoreTyped, Vault, TaskInv, TypeOK
<1> QED BY <1>1, SlotsInvariance, PTL

(* ActiveKeysHaveTheirSlots: whatever answers of sync_database_delta are    *)
(* lost, cancelled or cut by a crash, the active rows of upstream_keys are  *)
(* at most MAX_UPSTREAM_KEYS and hold distinct slots.                       *)
THEOREM SlotsAreExclusive == Spec => []ActiveKeysHaveTheirSlots
<1>1. SlotsInv => ActiveKeysHaveTheirSlots
  BY DEF SlotsInv, Bounded, Slotted, ActiveKeysHaveTheirSlots
<1> QED BY <1>1, SlotsInvariance, PTL

=============================================================================
