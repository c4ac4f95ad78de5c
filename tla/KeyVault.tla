------------------------------ MODULE KeyVault -------------------------------
(***************************************************************************)
(* The upstream keys of the gateway: the vault in the memory of the process *)
(* (mirrored in its encrypted file), the table upstream_keys that routing   *)
(* reads, the provider receipts of one profile, and the mutations that      *)
(* change the memory first and then the table, one at a time under          *)
(* sync_lock.  Live requests and provider probes run beside the operator's  *)
(* actions and record what the provider answered when they come back.       *)
(*                                                                         *)
(* A synchronization commits and answers; or fails and changes nothing      *)
(* ("error"); or commits and the answer is lost ("lost"); or the handler    *)
(* that awaits it is dropped by its client, before or after the commit      *)
(* ("cancel").  Labels, ciphertext and counters are left out, except that   *)
(* a counter of a missing row makes the synchronization fail.               *)
(***************************************************************************)
EXTENDS Naturals, FiniteSets

CONSTANTS
  Key,              \* ids of upstream keys, those not added yet included
  Task,             \* handlers that may be in flight together
  MaxUpstreamKeys,  \* active keys, hence slots
  MaxDelay,         \* longest cooldown, in ticks: 300 seconds in the code
  Horizon,          \* bound on the clock
  ClientsStored,    \* downstream_credentials has rows: no file is migrated
  Faults,           \* which of FaultKinds the environment may inject
  NoKey, NoTask

FaultKinds == {"error", "lost", "cancel", "crash"}

ASSUME VaultAssumption ==
  /\ NoKey \notin Key /\ NoTask \notin Task
  /\ MaxUpstreamKeys \in Nat \ {0} /\ Horizon \in Nat \ {0}
  /\ MaxDelay \in Nat
  /\ ClientsStored \in BOOLEAN /\ Faults \subseteq FaultKinds

VARIABLES
  running,   \* the gateway process is up and owns the vault
  memory,    \* its vault; the encrypted file while it is down
  previous,  \* the vault before the mutation in flight
  pending,   \* that mutation, which holds sync_lock
  db,        \* upstream_keys
  slot,      \* upstream_keys.slot_no
  receipt,   \* profile_probe_receipts of the profile, per key
  task,      \* what each handler awaits
  off,       \* keys whose exclusion was acknowledged and not undone (history)
  now        \* the clock, shared with the database

store == <<db, slot, receipt>>
vars == <<running, memory, previous, pending, db, slot, receipt, task, off, now>>

-----------------------------------------------------------------------------

NoCooldown == 0
Delay == 0 .. MaxDelay
Absent == [state |-> "absent", enabled |-> FALSE, verified |-> FALSE, cooldown |-> NoCooldown]

StoredKey == [state: {"absent", "active", "retired"}, enabled: BOOLEAN, verified: BOOLEAN,
              cooldown: 0 .. Horizon + MaxDelay]
Kind == {"none", "add", "enable", "disable", "retire", "verify", "quarantine", "request",
         "failure"}
Mutation == [kind: Kind, key: Key \cup {NoKey}, task: Task \cup {NoTask}]
NoMutation == [kind |-> "none", key |-> NoKey, task |-> NoTask]
Waiting == [pc: {"idle", "requesting", "recorded", "probing", "testing"}, key: Key \cup {NoKey}]
Idle == [pc |-> "idle", key |-> NoKey]

TypeOK ==
  /\ running \in BOOLEAN
  /\ memory \in [Key -> StoredKey] /\ previous \in [Key -> StoredKey]
  /\ pending \in Mutation
  /\ db \in [Key -> StoredKey]
  /\ slot \in [Key -> 0 .. MaxUpstreamKeys]
  /\ receipt \in [Key -> {"none", "valid", "invalid"}]
  /\ task \in [Task -> Waiting]
  /\ off \subseteq Key
  /\ now \in 1 .. Horizon

Init ==
  /\ running = FALSE
  /\ memory = [k \in Key |-> Absent] /\ previous = memory
  /\ pending = NoMutation
  /\ db = memory
  /\ slot = [k \in Key |-> 0]
  /\ receipt = [k \in Key |-> "none"]
  /\ task = [t \in Task |-> Idle]
  /\ off = {}
  /\ now = 1

May(fault) == fault \in Faults

-----------------------------------------------------------------------------
(* What an operation makes of a vault v: the vaults it may leave, none when *)
(* it refuses.                                                              *)

Active(v) == {k \in Key : v[k].state = "active"}
Cooling(key) == key.cooldown > now
Later(a, b) == IF a > b THEN a ELSE b

(* A full vault retires a disabled key to make room for the new one. *)
ReplaceableIgnoringUse(v) == Active(v)
Replaceable(v) == {k \in Active(v) : ~v[k].enabled}

Added(v, k) ==
  LET new == [v EXCEPT ![k] = [Absent EXCEPT !.state = "active"]]
  IN  IF Cardinality(Active(v)) < MaxUpstreamKeys
        THEN {new}
        ELSE {[new EXCEPT ![j].state = "retired", ![j].enabled = FALSE] : j \in Replaceable(v)}

EnabledUnprobed(v, k) ==
  {[v EXCEPT ![k].enabled = TRUE] : j \in {k} \cap {i \in Active(v) : ~Cooling(v[i])}}
EnabledKey(v, k) ==
  {[v EXCEPT ![k].enabled = TRUE] :
     j \in {k} \cap {i \in Active(v) : v[i].verified /\ ~Cooling(v[i])}}

DisabledKey(v, k) == {[v EXCEPT ![k].enabled = FALSE] : j \in {k} \cap Active(v)}

RetiredKey(v, k) ==
  {[v EXCEPT ![k] = [state |-> "retired", enabled |-> FALSE, verified |-> FALSE,
                     cooldown |-> NoCooldown]] : j \in {k} \cap Active(v)}

VerifiedKey(v, k) ==
  {[v EXCEPT ![k].verified = TRUE, ![k].cooldown = NoCooldown] : j \in {k} \cap Active(v)}

QuarantinedKey(v, k) ==
  {[v EXCEPT ![k].enabled = FALSE, ![k].verified = FALSE, ![k].cooldown = NoCooldown] :
     j \in {k} \cap Active(v)}

(* Requests and failures are also counted for a retired key that drains. *)
RequestRecorded(v, k) ==
  IF v[k].state = "absent" THEN {} ELSE {[v EXCEPT ![k].cooldown = NoCooldown]}

FailureRecordedLatest(v, k) ==
  IF v[k].state = "absent" THEN {}
  ELSE IF v[k].state = "retired" THEN {[v EXCEPT ![k].cooldown = NoCooldown]}
  ELSE {[v EXCEPT ![k].cooldown = now + d] : d \in Delay}
FailureRecorded(v, k) ==
  IF v[k].state = "absent" THEN {}
  ELSE IF v[k].state = "retired" THEN {[v EXCEPT ![k].cooldown = NoCooldown]}
  ELSE {[v EXCEPT ![k].cooldown = Later(@, now + d)] : d \in Delay}

-----------------------------------------------------------------------------
(* mutate, mutate_with_audit: the vault changes at once, in memory and file *)

Begin(kind, k, t, results) ==
  /\ running /\ pending = NoMutation
  /\ memory' \in results
  /\ previous' = memory
  /\ pending' = [kind |-> kind, key |-> k, task |-> t]

(* The operation refuses: the vault is as before and the handler returns. *)
Refuse(t, results) ==
  /\ running /\ pending = NoMutation
  /\ results = {}
  /\ task' = [task EXCEPT ![t] = Idle]
  /\ UNCHANGED <<memory, previous, pending>>

-----------------------------------------------------------------------------
(* sync_database_delta: only the fields the mutation changed, each guarded  *)
(* by its previous value                                                    *)

Changed(old, new, current) == IF new # old THEN new ELSE current

GuardedField(old, new, current) == new # old => current = old

Inserted == {k \in Key : previous[k].state = "absent" /\ memory[k].state # "absent"}
Counted == IF pending.kind \in {"request", "failure"} THEN {pending.key} ELSE {}

DbAfter ==
  [k \in Key |->
     IF k \in Inserted THEN memory[k]
     ELSE [state |-> Changed(previous[k].state, memory[k].state, db[k].state),
           enabled |-> Changed(previous[k].enabled, memory[k].enabled, db[k].enabled),
           verified |-> Changed(previous[k].verified, memory[k].verified, db[k].verified),
           cooldown |-> Changed(previous[k].cooldown, memory[k].cooldown, db[k].cooldown)]]

Admitted ==
  /\ \A k \in Key \ Inserted :
       /\ memory[k] # previous[k] \/ k \in Counted => db[k].state # "absent"
       /\ GuardedField(previous[k].state, memory[k].state, db[k].state)
       /\ GuardedField(previous[k].enabled, memory[k].enabled, db[k].enabled)
       /\ GuardedField(previous[k].verified, memory[k].verified, db[k].verified)
       /\ GuardedField(previous[k].cooldown, memory[k].cooldown, db[k].cooldown)
  /\ Inserted # {} => Cardinality(Active(DbAfter)) <= MaxUpstreamKeys

(* The slots of active keys other than those being inserted; the lowest     *)
(* free one goes to a new key.                                              *)
FirstFreeOf(used) == CHOOSE s \in 1 .. MaxUpstreamKeys :
                       /\ s \notin used
                       /\ \A j \in 1 .. MaxUpstreamKeys : j \notin used => s <= j
SlotsOfEnabledKeys == {slot[k] : k \in {j \in Active(DbAfter) : db[j].enabled}}
SlotsInUse == {slot[k] : k \in Active(DbAfter) \ Inserted}
SlotAfter == [k \in Key |-> IF k \in Inserted THEN FirstFreeOf(SlotsInUse) ELSE slot[k]]

(* A key that loses its verification or is retired loses its receipts, in   *)
(* the same transaction; then the result of a probe is stored.              *)
Discredited ==
  {k \in Key : \/ previous[k].verified /\ ~memory[k].verified
               \/ previous[k].state # "retired" /\ memory[k].state = "retired"}
RejectedByProbe ==
  IF /\ pending.kind = "quarantine" /\ pending.task # NoTask
     /\ task[pending.task].pc = "probing"
    THEN {pending.key} ELSE {}
ReceiptAfter ==
  [k \in Key |->
     IF pending.kind = "verify" /\ k = pending.key THEN "valid"
     ELSE IF k \in Discredited \cup RejectedByProbe /\ receipt[k] = "valid" THEN "invalid"
     ELSE receipt[k]]

CommitDelta ==
  /\ Admitted
  /\ db' = DbAfter /\ slot' = SlotAfter /\ receipt' = ReceiptAfter

-----------------------------------------------------------------------------
(* How the handler learns of it *)

Settle(vault) ==
  /\ pending' = NoMutation
  /\ memory' = vault /\ previous' = vault

TaskReturns ==
  task' = [t \in Task |-> IF t = pending.task THEN Idle ELSE task[t]]

(* The caller is told that its mutation is done. *)
Acknowledged ==
  /\ pending.kind # "none"
  /\ CommitDelta
  /\ Settle(memory)
  /\ off' = IF pending.kind \in {"disable", "retire", "quarantine"}
              THEN off \cup {pending.key} ELSE off
  /\ IF pending.kind = "request"
       THEN task' = [task EXCEPT ![pending.task].pc = "recorded"]
       ELSE TaskReturns
  /\ UNCHANGED <<running, now>>

(* The caller is told that it failed, and the previous vault is restored. *)
RollBackForgotten == Settle(memory)
RollBack == Settle(previous)

Failed ==
  /\ pending.kind # "none"
  /\ \/ (~Admitted \/ May("error")) /\ UNCHANGED store
     \/ May("lost") /\ CommitDelta
  /\ RollBack
  /\ TaskReturns
  /\ UNCHANGED <<running, off, now>>

(* Nobody is told: the future of mutate is dropped while it awaits the sync. *)
Cancelled ==
  /\ pending.kind # "none" /\ May("cancel")
  /\ CommitDelta \/ UNCHANGED store
  /\ Settle(memory)
  /\ TaskReturns
  /\ UNCHANGED <<running, off, now>>

-----------------------------------------------------------------------------
(* The operator *)

AddKey(k) ==
  /\ memory[k].state = "absent" /\ db[k].state = "absent"
  /\ Begin("add", k, NoTask, Added(memory, k))
  /\ UNCHANGED <<running, store, task, off, now>>

EnableKey(k) ==
  /\ Begin("enable", k, NoTask, EnabledKey(memory, k))
  /\ off' = off \ {k}
  /\ UNCHANGED <<running, store, task, now>>

DisableKey(k) ==
  /\ Begin("disable", k, NoTask, DisabledKey(memory, k))
  /\ UNCHANGED <<running, store, task, off, now>>

RetireKey(k) ==
  /\ Begin("retire", k, NoTask, RetiredKey(memory, k))
  /\ UNCHANGED <<running, store, task, off, now>>

-----------------------------------------------------------------------------
(* Live requests *)

(* Routing reads the tables, never the memory. *)
Routable(k) == /\ db[k].state = "active" /\ db[k].enabled /\ db[k].verified
               /\ ~Cooling(db[k]) /\ receipt[k] = "valid"

Await(t, pc, k) == task' = [task EXCEPT ![t] = [pc |-> pc, key |-> k]]

SelectKey(t) ==
  /\ running /\ task[t].pc = "idle"
  /\ \E k \in Key : Routable(k) /\ Await(t, "requesting", k)
  /\ UNCHANGED <<running, memory, previous, pending, store, off, now>>

Record(t, kind, results) ==
  /\ \/ Begin(kind, task[t].key, t, results) /\ UNCHANGED task
     \/ Refuse(t, results)
  /\ UNCHANGED <<running, store, off, now>>

ProviderSucceeded(t) ==
  task[t].pc = "requesting" /\ Record(t, "request", RequestRecorded(memory, task[t].key))

ProviderFailed(t) ==
  task[t].pc = "requesting" /\ Record(t, "failure", FailureRecorded(memory, task[t].key))

ProviderRejected(t) ==
  /\ task[t].pc \in {"requesting", "probing"}
  /\ Record(t, "quarantine", QuarantinedKey(memory, task[t].key))

(* The terminal transaction of a successful attempt renews the receipt. *)
FinishSucceeded(t) ==
  /\ task[t].pc = "recorded"
  /\ receipt' = [receipt EXCEPT ![task[t].key] = "valid"]
  /\ task' = [task EXCEPT ![t] = Idle]
  /\ UNCHANGED <<running, memory, previous, pending, db, slot, off, now>>

-----------------------------------------------------------------------------
(* Provider probes *)

StartProbe(t, k) ==
  /\ running /\ task[t].pc = "idle" /\ memory[k].state = "active"
  /\ Await(t, "probing", k) \/ Await(t, "testing", k)
  /\ UNCHANGED <<running, memory, previous, pending, store, off, now>>

ProbePassed(t) ==
  task[t].pc = "probing" /\ Record(t, "verify", VerifiedKey(memory, task[t].key))

(* record_probe_result of a profile probe writes the receipts directly. *)
ProfileProbed(t) ==
  /\ task[t].pc = "testing" /\ db[task[t].key].state # "absent"
  /\ LET k == task[t].key IN
     \/ receipt' = [receipt EXCEPT ![k] = "valid"]
     \/ receipt[k] = "valid" /\ receipt' = [receipt EXCEPT ![k] = "invalid"]
  /\ task' = [task EXCEPT ![t] = Idle]
  /\ UNCHANGED <<running, memory, previous, pending, db, slot, off, now>>

(* A handler that ends without recording anything: an answer that says      *)
(* nothing of the key, a failed write, a client that went away.             *)
TaskEnds(t) ==
  /\ task[t].pc # "idle" /\ pending.task # t
  /\ task' = [task EXCEPT ![t] = Idle]
  /\ UNCHANGED <<running, memory, previous, pending, store, off, now>>

-----------------------------------------------------------------------------
(* The process *)

(* A crash: the file keeps what the memory held; the transaction in flight  *)
(* may still commit.                                                        *)
Crash ==
  /\ running /\ May("crash")
  /\ running' = FALSE
  /\ \/ UNCHANGED store
     \/ pending.kind # "none" /\ CommitDelta
  /\ Settle(memory)
  /\ task' = [t \in Task |-> Idle]
  /\ UNCHANGED <<off, now>>

(* VaultStore::open: the tables win, unless they hold no credential at all; *)
(* then a non-empty file is migrated into them.                             *)
LoadedFromFile == memory
Loaded == db

Open ==
  /\ ~running
  /\ running' = TRUE
  /\ IF (\E k \in Key : db[k].state # "absent") \/ ClientsStored
       THEN Settle(Loaded) /\ UNCHANGED <<db, slot>>
       ELSE /\ db' = memory
            /\ slot' \in [Key -> 0 .. MaxUpstreamKeys]
            /\ \A k \in Key : slot'[k] = 0 <=> memory[k].state = "absent"
            /\ {slot'[k] : k \in Active(memory)} = 1 .. Cardinality(Active(memory))
            /\ Settle(memory)
  /\ UNCHANGED <<receipt, task, off, now>>

Tick ==
  /\ now < Horizon
  /\ now' = now + 1
  /\ UNCHANGED <<running, memory, previous, pending, store, task, off>>

-----------------------------------------------------------------------------

Operator(k) == AddKey(k) \/ EnableKey(k) \/ DisableKey(k) \/ RetireKey(k)

Handler(t) ==
  \/ SelectKey(t) \/ ProviderSucceeded(t) \/ ProviderFailed(t) \/ ProviderRejected(t)
  \/ FinishSucceeded(t) \/ ProbePassed(t) \/ ProfileProbed(t) \/ TaskEnds(t)

Next ==
  \/ \E k \in Key : Operator(k)
  \/ \E t \in Task : Handler(t) \/ \E k \in Key : StartProbe(t, k)
  \/ Acknowledged \/ Failed \/ Cancelled
  \/ Crash \/ Open \/ Tick

Spec == Init /\ [][Next]_vars

-----------------------------------------------------------------------------
(* Properties *)

(* Two rows that are not retired never share a slot and never exceed the    *)
(* slots, whatever synchronizations were lost: slot_no is chosen in the     *)
(* transaction, not from the memory that asked for it.                      *)
ActiveKeysHaveTheirSlots ==
  /\ Cardinality(Active(db)) <= MaxUpstreamKeys
  /\ \A k \in Active(db) :
       /\ slot[k] \in 1 .. MaxUpstreamKeys
       /\ \A j \in Active(db) : slot[j] = slot[k] => j = k

(* When every answer of the database arrives, the memory of an idle process *)
(* is the table: operators are told of, and routing uses, the same keys.    *)
MemoryMatchesDatabase ==
  running /\ pending = NoMutation => memory = db

(* add, then probe, then enable: in whatever order answers, probes and       *)
(* rollbacks are recorded, a row that is enabled is verified and active.     *)
EnabledKeysAreVerified ==
  \A k \in Key : db[k].enabled => db[k].verified /\ db[k].state = "active"

(* Once the gateway answered that a key is disabled, retired or quarantined *)
(* it stays out of routing until somebody asks to enable it again.          *)
OffStaysOff == \A k \in off : ~db[k].enabled

(* Adding a key to a full vault never displaces a key that takes traffic;   *)
(* only its own retirement does.                                            *)
AddKeepsEnabledKeys ==
  [][\A k \in Key :
       db[k].enabled /\ db'[k].state = "retired" => pending.kind = "retire" /\ pending.key = k]_vars

(* A retired key never regains a cooldown from a request that drains.       *)
RetiredKeysStayCold ==
  [][\A k \in Key :
       /\ db[k].state = "retired" => db'[k].state = "retired"
       /\ db[k].state = "retired" /\ db'[k].cooldown > db[k].cooldown => FALSE]_vars

(* Two failures recorded in any order leave the later of their cooldowns.   *)
FailuresNeverShortenCooldowns ==
  [][\A k \in Key :
       pending.kind = "failure" /\ db[k].state = "active" => db'[k].cooldown >= db[k].cooldown]_vars

(* main.rs on sync_database_delta: "Provider receipts are invalid once a    *)
(* key loses verification or is durably retired".  So an invalidated        *)
(* receipt becomes valid again only for a key that is verified and active.  *)
InvalidReceiptsAwaitVerification ==
  [][\A k \in Key :
       receipt[k] = "invalid" /\ receipt'[k] = "valid" =>
         db'[k].verified /\ db'[k].state = "active"]_vars

=============================================================================
