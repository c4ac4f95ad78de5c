-------------------------- MODULE DownstreamClients ---------------------------
(***************************************************************************)
(* The downstream credentials of the gateway: the copies in the memory of   *)
(* the process, the table downstream_credentials with its policy columns,   *)
(* the administrator's mutations (memory first, then the table and the      *)
(* audit row in one transaction, one at a time under sync_lock), and the    *)
(* two transactions a request needs: authorization under sync_lock, and     *)
(* admission, which counts and inserts permits under a lock of its own.     *)
(*                                                                         *)
(* A token is the pair of its client and a generation: every issue and      *)
(* every rotation draws fresh random bytes.  Labels, counters and the       *)
(* last use are left out, except that two active clients may not share a    *)
(* label.  A synchronization or an admission commits and answers, fails     *)
(* ("error"), or commits and the answer is lost ("lost"); the caller of a   *)
(* mutation may go away while it is synchronized ("cancel").                *)
(***************************************************************************)
EXTENDS Naturals, FiniteSets

CONSTANTS
  Client,          \* ids of clients, those not created yet included
  Label,           \* the label each of them is created with
  Request,         \* requests that present a token
  CatalogRequests, \* those of GET /v1/models, which need no permit
  NeededScope,     \* the scope each request needs
  Profile,         \* models
  AskedProfile,    \* the model each request asks for
  ScopeSets,       \* the lists of scopes an administrator may write
  NewPolicies,     \* the policies a client may be created with
  PolicyPatches,   \* the policy fields a patch may change, with their values
  Admin,           \* PATCH handlers that may be in flight together
  MinutesPerDay,
  MaxGeneration,   \* bound on the tokens of a client
  Horizon,         \* bound on the clock, in minutes
  KeysStored,      \* upstream_keys has rows: no file is migrated
  Faults,          \* which of FaultKinds the environment may inject
  Unlimited,       \* NULL in a policy column
  NoClient, NoRequest

FaultKinds == {"error", "lost", "cancel", "crash"}

Scope == UNION ScopeSets

Limit == (Nat \ {0}) \cup {Unlimited}
Policy == [expires_at: Limit, model_allowlist: (SUBSET Profile \ {{}}) \cup {Unlimited},
           rpm_limit: Limit, max_concurrency: Limit, request_limit_day: Limit]
NoLimits == [expires_at |-> Unlimited, model_allowlist |-> Unlimited, rpm_limit |-> Unlimited,
             max_concurrency |-> Unlimited, request_limit_day |-> Unlimited]

(* A patch is a function on the fields it changes; a null clears a limit. *)
Patched(p, patch) == [f \in DOMAIN p |-> IF f \in DOMAIN patch THEN patch[f] ELSE p[f]]
NoPatch == [f \in {} |-> Unlimited]

ASSUME ClientsAssumption ==
  /\ NoClient \notin Client /\ NoRequest \notin Request
  /\ CatalogRequests \subseteq Request
  /\ NeededScope \in [Request -> Scope]
  /\ AskedProfile \in [Request -> Profile]
  /\ {} \notin ScopeSets
  /\ NewPolicies \subseteq Policy
  /\ \A patch \in PolicyPatches : Patched(NoLimits, patch) \in Policy
  /\ MinutesPerDay \in Nat \ {0} /\ MaxGeneration \in Nat /\ Horizon \in Nat \ {0}
  /\ KeysStored \in BOOLEAN /\ Faults \subseteq FaultKinds
  /\ Unlimited \notin Nat

VARIABLES
  running,   \* the gateway process is up
  memory,    \* its credentials; the encrypted file while it is down
  previous,  \* the credentials before the mutation in flight
  pending,   \* that mutation, which holds sync_lock
  db,        \* downstream_credentials: active, digest, scopes
  policy,    \* downstream_credentials: the policy columns
  issued,    \* generations of tokens drawn for each client
  patching,  \* what each PATCH handler has read and will write
  request,   \* the handler of each request
  permit,    \* downstream_request_permits
  admitting, \* the request whose transaction holds the client's advisory and row locks
  handed,    \* the generation last handed out by an acknowledged answer (history)
  gone,      \* clients whose revocation was acknowledged (history)
  dropped,   \* clients with a mutation whose caller went away (history)
  now        \* the clock, in minutes

tables == <<db, policy>>
vars == <<running, memory, previous, pending, db, policy, issued, patching, request, permit,
          admitting, handed, gone, dropped, now>>
history == <<handed, gone, dropped>>

-----------------------------------------------------------------------------

Absent == [state |-> "absent", scopes |-> {}, token |-> 0]
Credential == [state: {"absent", "active", "revoked"}, scopes: SUBSET Scope, token: Nat]
Kind == {"none", "create", "update", "rotate", "revoke", "use"}
Mutation == [kind: Kind, client: Client \cup {NoClient}, request: Request \cup {NoRequest},
             policy: {NoPatch} \cup NewPolicies \cup PolicyPatches, scoped: BOOLEAN]
NoMutation == [kind |-> "none", client |-> NoClient, request |-> NoRequest,
               policy |-> NoPatch, scoped |-> FALSE]
Patching == [client: Client \cup {NoClient}, scopes: SUBSET Scope, scoped: BOOLEAN,
             policy: {NoPatch} \cup PolicyPatches]
NotPatching == [client |-> NoClient, scopes |-> {}, scoped |-> FALSE, policy |-> NoPatch]
Handling == [pc: {"idle", "authorized", "queued", "admitting", "admitted", "recording",
                  "serving", "closing", "done"},
             client: Client \cup {NoClient}, token: Nat, began: Nat]
Permit == [state: {"none", "held", "orphaned", "released"}, client: Client \cup {NoClient},
           at: Nat]

TypeOK ==
  /\ running \in BOOLEAN
  /\ memory \in [Client -> Credential] /\ previous \in [Client -> Credential]
  /\ pending \in Mutation
  /\ db \in [Client -> Credential] /\ policy \in [Client -> Policy]
  /\ issued \in [Client -> Nat]
  /\ patching \in [Admin -> Patching]
  /\ request \in [Request -> Handling]
  /\ permit \in [Request -> Permit]
  /\ admitting \in [Client -> Request \cup {NoRequest}]
  /\ handed \in [Client -> Nat] /\ gone \subseteq Client /\ dropped \subseteq Client
  /\ now \in Nat

Init ==
  /\ running = FALSE
  /\ memory = [c \in Client |-> Absent] /\ previous = memory
  /\ pending = NoMutation
  /\ db = memory /\ policy = [c \in Client |-> NoLimits]
  /\ issued = [c \in Client |-> 0]
  /\ patching = [a \in Admin |-> NotPatching]
  /\ request = [r \in Request |-> [pc |-> "idle", client |-> NoClient, token |-> 0, began |-> 0]]
  /\ permit = [r \in Request |-> [state |-> "none", client |-> NoClient, at |-> 0]]
  /\ admitting = [c \in Client |-> NoRequest]
  /\ handed = [c \in Client |-> 0] /\ gone = {} /\ dropped = {}
  /\ now = 1

May(fault) == fault \in Faults

-----------------------------------------------------------------------------
(* What an operation makes of the credentials v: none when it refuses *)

Active(v) == {c \in Client : v[c].state = "active"}
LabelFree(v, c) == \A d \in Active(v) : Label[d] # Label[c]

Issued(v, c, scopes) ==
  {[v EXCEPT ![c] = [state |-> "active", scopes |-> scopes, token |-> issued[c] + 1]] :
     d \in {c} \cap {b \in Client : v[b].state = "absent" /\ LabelFree(v, b)}}
Rotated(v, c) == {[v EXCEPT ![c].token = issued[c] + 1] : d \in {c} \cap Active(v)}
Rescoped(v, c, scopes) == {[v EXCEPT ![c].scopes = scopes] : d \in {c} \cap Active(v)}

(* Repeated revocation is accepted and changes nothing. *)
Revoked(v, c) ==
  IF v[c].state = "absent" THEN {} ELSE {[v EXCEPT ![c].state = "revoked"]}

-----------------------------------------------------------------------------
(* mutate_with_audit: the memory at once, then the tables *)

Begin(mutation, results) ==
  /\ running /\ pending = NoMutation
  /\ memory' \in results
  /\ previous' = memory
  /\ pending' = mutation

Changed(old, new, current) == IF new # old THEN new ELSE current
GuardedField(old, new, current) == new # old => current = old

Inserted == {c \in Client : previous[c].state = "absent" /\ memory[c].state # "absent"}

DbAfterWithoutDigest ==
  [c \in Client |->
     IF c \in Inserted THEN memory[c]
     ELSE [state |-> Changed(previous[c].state, memory[c].state, db[c].state),
           scopes |-> Changed(previous[c].scopes, memory[c].scopes, db[c].scopes),
           token |-> db[c].token]]
DbAfter ==
  [c \in Client |->
     IF c \in Inserted THEN memory[c]
     ELSE [state |-> Changed(previous[c].state, memory[c].state, db[c].state),
           scopes |-> Changed(previous[c].scopes, memory[c].scopes, db[c].scopes),
           token |-> Changed(previous[c].token, memory[c].token, db[c].token)]]

(* A patch writes the policy columns even when it changes none of them. *)
PolicyWritten == pending.kind = "update" \/ pending.policy # NoPatch

(* The transaction commits: every guarded field still had its old value,    *)
(* labels stay unique and the client whose policy is written is active.     *)
Admitted ==
  /\ \A c \in Inserted : db[c].state = "absent" /\ LabelFree(db, c)
  /\ \A c \in Client \ Inserted :
       /\ GuardedField(previous[c].state, memory[c].state, db[c].state)
       /\ GuardedField(previous[c].scopes, memory[c].scopes, db[c].scopes)
       /\ GuardedField(previous[c].token, memory[c].token, db[c].token)
       /\ pending.kind = "use" /\ c = pending.client => db[c].state # "absent"
  /\ PolicyWritten => DbAfter[pending.client].state = "active"

(* It waits for the row locks of admissions in flight. *)
Touched == {c \in Client : \/ memory[c] # previous[c]
                           \/ c = pending.client /\ (PolicyWritten \/ pending.kind = "use")}
RowsFree == \A c \in Touched : admitting[c] = NoRequest

CommitDelta ==
  /\ Admitted /\ RowsFree
  /\ db' = DbAfter
  /\ policy' = [c \in Client |-> IF c = pending.client THEN Patched(policy[c], pending.policy)
                                 ELSE policy[c]]

Settle(credentials) ==
  /\ pending' = NoMutation
  /\ memory' = credentials /\ previous' = credentials

(* The request that recorded its use goes on to its provider, or gives up. *)
RequestGoes(pc) ==
  request' = [r \in Request |-> IF r = pending.request THEN [request[r] EXCEPT !.pc = pc]
                                ELSE request[r]]

Acknowledged ==
  /\ pending.kind # "none"
  /\ CommitDelta
  /\ Settle(memory)
  /\ RequestGoes("serving")
  /\ handed' = [c \in Client |->
                  IF c = pending.client /\ pending.kind \in {"create", "rotate"}
                    THEN memory[c].token ELSE handed[c]]
  /\ gone' = IF pending.kind = "revoke" THEN gone \cup {pending.client} ELSE gone
  /\ UNCHANGED <<running, issued, patching, permit, admitting, dropped, now>>

RollBackForgotten == Settle(memory)
RollBack == Settle(previous)

Failed ==
  /\ pending.kind # "none"
  /\ \/ (~Admitted \/ May("error")) /\ UNCHANGED tables
     \/ May("lost") /\ CommitDelta
  /\ RollBack
  /\ RequestGoes("closing")
  /\ UNCHANGED <<running, issued, patching, permit, admitting, history, now>>

Cancelled ==
  /\ pending.kind # "none" /\ May("cancel")
  /\ CommitDelta \/ UNCHANGED tables
  /\ Settle(memory)
  /\ RequestGoes("closing")
  /\ dropped' = dropped \cup {pending.client}
  /\ UNCHANGED <<running, issued, patching, permit, admitting, handed, gone, now>>

-----------------------------------------------------------------------------
(* The administrator *)

Mutating(kind, c, fields) == [NoMutation EXCEPT !.kind = kind, !.client = c, !.policy = fields]

NextToken(c) ==
  /\ issued[c] < MaxGeneration
  /\ issued' = [issued EXCEPT ![c] = @ + 1]

(* invalid_client_limits: an expiration lies in the future. *)
Valid(fields) ==
  "expires_at" \in DOMAIN fields /\ fields["expires_at"] # Unlimited => fields["expires_at"] > now

(* Also add_downstream and the client of a QA run, which set no policy. *)
CreateClient(c) ==
  /\ memory[c].state = "absent" /\ db[c].state = "absent"
  /\ \E scopes \in ScopeSets, fields \in NewPolicies \cup {NoPatch} :
       /\ Valid(fields)
       /\ Begin(Mutating("create", c, fields), Issued(memory, c, scopes))
  /\ NextToken(c)
  /\ UNCHANGED <<running, tables, patching, request, permit, admitting, history, now>>

RotateClient(c) ==
  /\ Begin(Mutating("rotate", c, NoPatch), Rotated(memory, c))
  /\ NextToken(c)
  /\ UNCHANGED <<running, tables, patching, request, permit, admitting, history, now>>

RevokeClient(c) ==
  /\ Begin(Mutating("revoke", c, NoPatch), Revoked(memory, c))
  /\ UNCHANGED <<running, tables, issued, patching, request, permit, admitting, history, now>>

(* update_client reads the row first; scopes that the patch omits are the   *)
(* ones just read.                                                          *)
ReadForUpdate(a, c) ==
  /\ running /\ patching[a].client = NoClient
  /\ db[c].state # "absent"
  /\ \E fields \in PolicyPatches \cup {NoPatch} :
       /\ Valid(fields)
       /\ \E scopes \in ScopeSets \cup {db[c].scopes}, scoped \in BOOLEAN :
            /\ scoped => scopes \in ScopeSets
            /\ ~scoped => scopes = db[c].scopes /\ fields # NoPatch
            /\ patching' = [patching EXCEPT ![a] = [client |-> c, scopes |-> scopes,
                                                    scoped |-> scoped, policy |-> fields]]
  /\ UNCHANGED <<running, memory, previous, pending, tables, issued, request, permit, admitting,
                 history, now>>

UpdateClient(a) ==
  /\ patching[a].client # NoClient
  /\ LET c == patching[a].client
         mutation == [Mutating("update", c, patching[a].policy) EXCEPT !.scoped = patching[a].scoped]
         results == Rescoped(memory, c, patching[a].scopes)
     IN \/ Begin(mutation, results)
        \/ /\ running /\ pending = NoMutation /\ results = {}
           /\ UNCHANGED <<memory, previous, pending>>
  /\ patching' = [patching EXCEPT ![a] = NotPatching]
  /\ UNCHANGED <<running, tables, issued, request, permit, admitting, history, now>>

-----------------------------------------------------------------------------
(* Requests *)

Goto(r, pc) == request' = [request EXCEPT ![r].pc = pc]
Finished == [pc |-> "done", client |-> NoClient, token |-> 0, began |-> 0]
Finish(r) == request' = [request EXCEPT ![r] = Finished]

Expired(p, time) == p.expires_at # Unlimited /\ p.expires_at <= time
Unusable(c, time) == db[c].state # "active" \/ Expired(policy[c], time)

(* identify_downstream, the check of the row, require_downstream_scope: all *)
(* under sync_lock.                                                         *)
Authorizes(c, token, scope) ==
  /\ memory[c].state = "active" /\ memory[c].token = token
  /\ ~Unusable(c, now)
  /\ scope \in memory[c].scopes

Authorize(r) ==
  /\ running /\ pending = NoMutation /\ request[r].pc = "idle"
  /\ \E c \in Client : \E token \in 1 .. issued[c] :
       /\ Authorizes(c, token, NeededScope[r])
       /\ request' = [request EXCEPT ![r] = [pc |-> "authorized", client |-> c, token |-> token,
                                             began |-> 0]]
  /\ UNCHANGED <<running, memory, previous, pending, tables, issued, patching, permit, admitting,
                 history, now>>

(* acquire_downstream_permit: now() is fixed when the transaction begins,   *)
(* before it waits for the advisory lock of its client.                     *)
BeginAdmission(r) ==
  /\ running /\ request[r].pc = "authorized" /\ r \notin CatalogRequests
  /\ request' = [request EXCEPT ![r].pc = "queued", ![r].token = 0, ![r].began = now]
  /\ UNCHANGED <<running, memory, previous, pending, tables, issued, patching, permit, admitting,
                 history, now>>

PermitsSince(c, time) ==
  {q \in Request : permit[q].state # "none" /\ permit[q].client = c /\ permit[q].at >= time}
Unreleased(c) ==
  {q \in Request : permit[q].state \in {"held", "orphaned"} /\ permit[q].client = c}
DayStart(minute) == (minute \div MinutesPerDay) * MinutesPerDay
Below(count, limit) == limit = Unlimited \/ count < limit

PolicyAdmits(r, c) ==
  /\ ~Unusable(c, now)
  /\ policy[c].model_allowlist = Unlimited \/ AskedProfile[r] \in policy[c].model_allowlist
  /\ Below(Cardinality(PermitsSince(c, request[r].began)), policy[c].rpm_limit)
  /\ Below(Cardinality(PermitsSince(c, DayStart(request[r].began))), policy[c].request_limit_day)
  /\ Below(Cardinality(Unreleased(c)), policy[c].max_concurrency)

LockableAlways(c) == TRUE
Lockable(c) == admitting[c] = NoRequest

(* Advisory lock, SELECT ... FOR UPDATE, the three counts. *)
LockAndCount(r) ==
  /\ running /\ request[r].pc = "queued"
  /\ LET c == request[r].client IN
     /\ Lockable(c)
     /\ IF PolicyAdmits(r, c)
          THEN Goto(r, "admitting") /\ admitting' = [admitting EXCEPT ![c] = r]
          ELSE Finish(r) /\ UNCHANGED admitting
  /\ UNCHANGED <<running, memory, previous, pending, tables, issued, patching, permit, history,
                 now>>

Unlock(c) == admitting' = [admitting EXCEPT ![c] = NoRequest]

InsertPermit(r) ==
  /\ running /\ request[r].pc = "admitting"
  /\ permit' = [permit EXCEPT ![r] = [state |-> "held", client |-> request[r].client,
                                      at |-> request[r].began]]
  /\ \/ request' = [request EXCEPT ![r].pc = "admitted", ![r].began = 0]
     \/ May("lost") /\ Finish(r)
  /\ Unlock(request[r].client)
  /\ UNCHANGED <<running, memory, previous, pending, tables, issued, patching, history, now>>

(* The database fails, or the request is dropped, before the commit. *)
AdmissionFails(r) ==
  /\ running /\ request[r].pc \in {"queued", "admitting"}
  /\ May("error") \/ May("cancel")
  /\ Finish(r)
  /\ IF request[r].pc = "admitting" THEN Unlock(request[r].client) ELSE UNCHANGED admitting
  /\ UNCHANGED <<running, memory, previous, pending, tables, issued, patching, permit, history,
                 now>>

(* record_accepted_downstream_use: the row again, then memory and tables. *)
RecordUse(r) ==
  /\ running /\ pending = NoMutation
  /\ \/ request[r].pc = "admitted"
     \/ request[r].pc = "authorized" /\ r \in CatalogRequests
  /\ LET c == request[r].client IN
     IF Unusable(c, now) \/ memory[c].state # "active"
       THEN Goto(r, "closing") /\ UNCHANGED <<memory, previous, pending>>
       ELSE /\ Begin([Mutating("use", c, NoPatch) EXCEPT !.request = r], {memory})
            /\ request' = [request EXCEPT ![r].pc = "recording", ![r].token = 0]
  /\ UNCHANGED <<running, tables, issued, patching, permit, admitting, history, now>>

(* The answer is sent, or the handler gives up: its permit is still held. *)
RequestEnds(r) ==
  /\ running /\ request[r].pc \in {"authorized", "admitted", "serving"}
  /\ Goto(r, "closing")
  /\ UNCHANGED <<running, memory, previous, pending, tables, issued, patching, permit, admitting,
                 history, now>>

ReleasePermit(r) ==
  /\ running /\ request[r].pc = "closing"
  /\ permit' = [permit EXCEPT ![r].state = IF @ = "held" THEN "released" ELSE @]
  /\ Finish(r)
  /\ UNCHANGED <<running, memory, previous, pending, tables, issued, patching, admitting, history,
                 now>>

(* The cleanup of a process that is gone, by its successor. *)
ReleaseOrphan(r) ==
  /\ running /\ permit[r].state = "orphaned"
  /\ permit' = [permit EXCEPT ![r].state = "released"]
  /\ UNCHANGED <<running, memory, previous, pending, tables, issued, patching, request, admitting,
                 history, now>>

-----------------------------------------------------------------------------
(* The process *)

(* The transactions in flight roll back, or the mutation's still commits. *)
Crash ==
  /\ running /\ May("crash")
  /\ running' = FALSE
  /\ UNCHANGED tables \/ (pending.kind # "none" /\ CommitDelta)
  /\ Settle(memory)
  /\ patching' = [a \in Admin |-> NotPatching]
  /\ request' = [r \in Request |->
                   IF request[r].pc = "idle" THEN request[r] ELSE Finished]
  /\ permit' = [r \in Request |->
                  IF permit[r].state = "held" THEN [permit[r] EXCEPT !.state = "orphaned"]
                  ELSE permit[r]]
  /\ admitting' = [c \in Client |-> NoRequest]
  /\ UNCHANGED <<issued, history, now>>

(* VaultStore::open: the table wins, unless no credential at all is stored. *)
Open ==
  /\ ~running
  /\ running' = TRUE
  /\ IF KeysStored \/ \E c \in Client : db[c].state # "absent"
       THEN Settle(db) /\ UNCHANGED db
       ELSE Settle(memory) /\ db' = memory
  /\ UNCHANGED <<policy, issued, patching, request, permit, admitting, history, now>>

Tick ==
  /\ now < Horizon
  /\ now' = now + 1
  /\ UNCHANGED <<running, memory, previous, pending, tables, issued, patching, request, permit,
                 admitting, history>>

-----------------------------------------------------------------------------

Administrator ==
  \/ \E c \in Client : CreateClient(c) \/ RotateClient(c) \/ RevokeClient(c)
  \/ \E a \in Admin : UpdateClient(a) \/ \E c \in Client : ReadForUpdate(a, c)

Handler(r) ==
  \/ Authorize(r) \/ BeginAdmission(r) \/ LockAndCount(r) \/ InsertPermit(r) \/ AdmissionFails(r)
  \/ RecordUse(r) \/ RequestEnds(r) \/ ReleasePermit(r) \/ ReleaseOrphan(r)

Next ==
  \/ Administrator
  \/ \E r \in Request : Handler(r)
  \/ Acknowledged \/ Failed \/ Cancelled
  \/ Crash \/ Open \/ Tick

Spec == Init /\ [][Next]_vars

-----------------------------------------------------------------------------
(* Properties *)

(* Once a rotation or a revocation was acknowledged, no request is          *)
(* authorized with a token it took away, whatever answers of the database   *)
(* were lost and whatever process has started since: authorize_downstream   *)
(* asks the memory for the digest and the row for the state.                *)
DeadTokensAreRefused ==
  [][\A r \in Request :
       request[r].pc = "idle" /\ request'[r].pc # "idle" =>
         LET c == request'[r].client IN
         c \notin dropped => c \notin gone /\ request'[r].token >= handed[c]]_vars

(* A permit is inserted only within the policy its client has at that       *)
(* moment, however many admissions, patches and minutes pass meanwhile:     *)
(* counting and inserting are two statements of one locked transaction.     *)
PermitsOn(c, from, to) ==
  {q \in Request : permit'[q].state # "none" /\ permit'[q].client = c /\ permit'[q].at \in from .. to}
WithinLimit(S, limit) == limit = Unlimited \/ Cardinality(S) <= limit
AdmissionsRespectThePolicy ==
  [][\A r \in Request :
       permit[r].state = "none" /\ permit'[r].state # "none" =>
         LET c == permit'[r].client
             at == permit'[r].at
             p == policy'[c]
         IN  /\ db'[c].state = "active" /\ ~Expired(p, at)
             /\ p.model_allowlist = Unlimited \/ AskedProfile[r] \in p.model_allowlist
             /\ WithinLimit(PermitsOn(c, at, at), p.rpm_limit)
             /\ WithinLimit(PermitsOn(c, DayStart(at), DayStart(at) + MinutesPerDay - 1),
                            p.request_limit_day)
             /\ WithinLimit({q \in Request : /\ permit'[q].client = c
                                             /\ permit'[q].state \in {"held", "orphaned"}},
                            p.max_concurrency)]_vars

(* A client whose revocation was acknowledged stays revoked in the table:   *)
(* no late patch, rotation or restart revives it.                           *)
GoneStaysGone == \A c \in gone \ dropped : db[c].state = "revoked"

(* main.rs on sync_database_delta: it "applies only the fields changed by   *)
(* one local mutation", and a concurrent change "fails closed" instead of   *)
(* being overwritten.  So the scopes of a client change only by a patch     *)
(* that names them.                                                         *)
OmittedScopesAreKept ==
  [][\A c \in Client :
       db[c].state # "absent" /\ db'[c].scopes # db[c].scopes => pending.scoped]_vars

=============================================================================
