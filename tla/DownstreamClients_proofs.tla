---------------------- MODULE DownstreamClients_proofs ----------------------
(***************************************************************************)
(* Proofs about DownstreamClients: for any number of clients, requests and  *)
(* patches, and under every fault, a token that an acknowledged rotation or *)
(* revocation took away opens nothing, a revoked client stays revoked, and  *)
(* no permit is inserted beyond the policy its client has at that moment.   *)
(***************************************************************************)
EXTENDS DownstreamClients, FiniteSetTheorems, TLAPS

-----------------------------------------------------------------------------
(* The part of the types the argument needs, and the shape of a mutation    *)

CoreTypes ==
  /\ running \in BOOLEAN
  /\ memory \in [Client -> Credential] /\ previous \in [Client -> Credential]
  /\ db \in [Client -> Credential]
  /\ pending \in Mutation
  /\ issued \in [Client -> Nat]
  /\ patching \in [Admin -> Patching]
  /\ request \in [Request -> Handling]
  /\ handed \in [Client -> Nat] /\ gone \subseteq Client /\ dropped \subseteq Client

(* A credential has a token from its creation on, one drawn for its client. *)
Drawn(v) ==
  \A c \in Client : /\ v[c].state = "absent" <=> v[c].token = 0
                    /\ v[c].token <= issued[c]

(* What an operation may make of a credential: it never revives or removes  *)
(* one, and tokens only grow.                                               *)
Evolves(old, new) ==
  /\ old.state = "revoked" => new.state = "revoked"
  /\ new.state = "absent" => old.state = "absent"
  /\ old.token <= new.token

(* The mutation in flight is all that lies between previous and memory.     *)
OneMutation ==
  /\ \A c \in Client : Evolves(previous[c], memory[c])
  /\ \A c \in Client : c # pending.client => memory[c] = previous[c]
  /\ pending.kind = "none" => memory = previous
  /\ pending.kind # "none" => running /\ pending.client \in Client
  /\ pending.kind = "revoke" => memory[pending.client].state = "revoked"
  /\ pending.kind \in {"create", "rotate"} =>
       memory[pending.client].token # previous[pending.client].token

RecordingWaits ==
  pending.request # NoRequest => request[pending.request].pc = "recording"

(* A request on its way to a permit or to its first use names a client.     *)
EntrantsNameClients ==
  \A r \in Request : request[r].pc \in {"authorized", "queued", "admitting", "admitted"} =>
                     request[r].client \in Client

ShapeInv ==
  /\ CoreTypes /\ OneMutation /\ RecordingWaits /\ EntrantsNameClients
  /\ Drawn(memory) /\ Drawn(previous) /\ Drawn(db)

(* What was acknowledged is in the table, and in memory while it runs.      *)
KeepsPromises(c) ==
  /\ running /\ previous[c].state = "revoked" => db[c].state = "revoked"
  /\ c \in gone => db[c].state = "revoked" /\ (running => previous[c].state = "revoked")
  /\ handed[c] <= db[c].token /\ (running => handed[c] <= previous[c].token)

Promises == \A c \in Client \ dropped : KeepsPromises(c)

ClientInv == ShapeInv /\ Promises

-----------------------------------------------------------------------------
(* A transaction that commits *)

(* The row of one client after the transaction. *)
LEMMA RowAfter ==
  ASSUME ShapeInv, CommitDelta, NEW c \in Client
  PROVE  /\ db'[c] \in Credential
         /\ db'[c].state = "absent" <=> db'[c].token = 0
         /\ db'[c].token <= issued[c]
         /\ db[c].token <= db'[c].token
         /\ memory[c].state # previous[c].state => db'[c].state = memory[c].state
         /\ memory[c].state = previous[c].state => db'[c].state = db[c].state
         /\ memory[c].token # previous[c].token => db'[c].token = memory[c].token
<1>1. /\ memory[c] \in Credential /\ previous[c] \in Credential /\ db[c] \in Credential
      /\ issued[c] \in Nat
  BY DEF ShapeInv, CoreTypes
<1>2. /\ memory[c].state = "absent" <=> memory[c].token = 0
      /\ previous[c].state = "absent" <=> previous[c].token = 0
      /\ db[c].state = "absent" <=> db[c].token = 0
      /\ memory[c].token <= issued[c] /\ db[c].token <= issued[c]
      /\ Evolves(previous[c], memory[c])
  BY DEF ShapeInv, OneMutation, Drawn
<1>3. CASE c \in Inserted
  <2>1. db'[c] = memory[c] /\ db[c].state = "absent" /\ previous[c].state = "absent"
        /\ memory[c].state # "absent"
    BY <1>3 DEF CommitDelta, Admitted, DbAfter, Inserted
  <2> QED
    BY <1>1, <1>2, <2>1 DEF Credential
<1>4. CASE c \notin Inserted
  <2> DEFINE state == Changed(previous[c].state, memory[c].state, db[c].state)
             scopes == Changed(previous[c].scopes, memory[c].scopes, db[c].scopes)
             token == Changed(previous[c].token, memory[c].token, db[c].token)
  <2>1. db'[c] = [state |-> state, scopes |-> scopes, token |-> token]
    BY <1>4 DEF CommitDelta, DbAfter
  <2>2. /\ GuardedField(previous[c].state, memory[c].state, db[c].state)
        /\ GuardedField(previous[c].token, memory[c].token, db[c].token)
    BY <1>4 DEF CommitDelta, Admitted
  <2>3. previous[c].state = "absent" => memory[c].state = "absent"
    BY <1>4 DEF Inserted
  <2>4. /\ state \in {"absent", "active", "revoked"} /\ scopes \in SUBSET Scope /\ token \in Nat
    BY <1>1 DEF Changed, Credential
  <2>5. db'[c].state = state /\ db'[c].token = token /\ db'[c] \in Credential
    BY <2>1, <2>4 DEF Credential
  <2>6. /\ state = "absent" <=> token = 0
        /\ token <= issued[c] /\ db[c].token <= token
    BY <1>1, <1>2, <2>2, <2>3 DEF Changed, GuardedField, Evolves, Credential
  <2>7. /\ memory[c].state # previous[c].state => state = memory[c].state
        /\ memory[c].state = previous[c].state => state = db[c].state
        /\ memory[c].token # previous[c].token => token = memory[c].token
    BY DEF Changed
  <2> HIDE DEF state, scopes, token
  <2> QED
    BY <2>5, <2>6, <2>7
<1> QED
  BY <1>3, <1>4

LEMMA TableAfter ==
  ASSUME ShapeInv, CommitDelta
  PROVE  db' \in [Client -> Credential]
         /\ \A c \in Client : /\ db'[c].state = "absent" <=> db'[c].token = 0
                              /\ db'[c].token <= issued[c]
<1>1. db' = [c \in Client |-> db'[c]]
  BY DEF CommitDelta, DbAfter
<1> QED
  BY <1>1, RowAfter

(* Whatever the mutation, the table keeps what was promised of a client.    *)
LEMMA CommitKeepsPromises ==
  ASSUME ClientInv, CommitDelta, running, NEW c \in Client \ dropped
  PROVE  /\ previous[c].state = "revoked" => db'[c].state = "revoked"
         /\ memory[c].state = "revoked" => db'[c].state = "revoked"
         /\ c \in gone => db'[c].state = "revoked"
         /\ handed[c] <= db'[c].token
<1>1. KeepsPromises(c) /\ ShapeInv /\ Evolves(previous[c], memory[c])
  BY DEF ClientInv, Promises, ShapeInv, OneMutation
<1>2. handed[c] \in Nat /\ db[c].token \in Nat /\ db'[c].token \in Nat
  <2>1. db[c] \in Credential /\ db'[c] \in Credential
    BY <1>1, RowAfter DEF ShapeInv, CoreTypes
  <2> QED
    BY <1>1, <2>1 DEF ShapeInv, CoreTypes, Credential
<1>3. /\ db[c].token <= db'[c].token
      /\ memory[c].state # previous[c].state => db'[c].state = memory[c].state
      /\ memory[c].state = previous[c].state => db'[c].state = db[c].state
  BY <1>1, RowAfter
<1> QED
  BY <1>1, <1>2, <1>3 DEF KeepsPromises, Evolves

-----------------------------------------------------------------------------
(* Steps that settle the mutation *)

LEMMA GoesTypes ==
  ASSUME ShapeInv, NEW pc \in {"serving", "closing"}, RequestGoes(pc)
  PROVE  request' \in [Request -> Handling] /\ EntrantsNameClients'
<1>1. \A r \in Request : /\ [request[r] EXCEPT !.pc = pc] \in Handling
                         /\ [request[r] EXCEPT !.pc = pc].pc = pc
                         /\ request[r] \in Handling
  BY DEF ShapeInv, CoreTypes, Handling
<1> QED
  BY <1>1 DEF RequestGoes, ShapeInv, EntrantsNameClients

LEMMA SettledShape ==
  ASSUME ShapeInv, NEW credentials \in [Client -> Credential], Settle(credentials),
         Drawn(credentials), UNCHANGED issued
  PROVE  /\ memory' = credentials /\ previous' = credentials
         /\ pending' = NoMutation /\ NoMutation \in Mutation
         /\ OneMutation' /\ RecordingWaits' /\ Drawn(memory)' /\ Drawn(previous)'
<1>1. memory' = credentials /\ previous' = credentials /\ pending' = NoMutation
  BY DEF Settle
<1>2. NoMutation.kind = "none" /\ NoMutation.request = NoRequest /\ NoMutation \in Mutation
  BY DEF NoMutation, Mutation, Kind
<1>3. \A c \in Client : Evolves(memory'[c], memory'[c])
  BY <1>1 DEF Evolves, Credential
<1>4. Drawn(memory)' /\ Drawn(previous)'
  BY <1>1 DEF Drawn
<1> QED
  BY <1>1, <1>2, <1>3, <1>4 DEF OneMutation, RecordingWaits

LEMMA DrawnTable ==
  ASSUME ShapeInv, UNCHANGED issued, CommitDelta \/ UNCHANGED tables
  PROVE  db' \in [Client -> Credential] /\ Drawn(db)'
<1>1. CASE CommitDelta
  BY <1>1, TableAfter DEF Drawn
<1>2. CASE UNCHANGED tables
  BY <1>2 DEF tables, ShapeInv, CoreTypes, Drawn
<1> QED
  BY <1>1, <1>2

LEMMA AcknowledgedKeeps ==
  ASSUME ClientInv, Acknowledged
  PROVE  ClientInv'
<1>1. /\ CommitDelta /\ Settle(memory) /\ RequestGoes("serving")
      /\ UNCHANGED <<running, issued, patching, dropped>> /\ pending.kind # "none"
  BY DEF Acknowledged
<1>2. ShapeInv /\ running /\ pending.client \in Client
      /\ memory \in [Client -> Credential] /\ previous \in [Client -> Credential] /\ Drawn(memory)
  BY <1>1 DEF ClientInv, ShapeInv, OneMutation, CoreTypes
<1>3. /\ memory' = memory /\ previous' = memory
      /\ pending' \in Mutation
      /\ OneMutation' /\ RecordingWaits' /\ Drawn(memory)' /\ Drawn(previous)'
  BY <1>1, <1>2, SettledShape
<1>4. db' \in [Client -> Credential] /\ Drawn(db)'
  BY <1>1, <1>2, DrawnTable
<1>5. handed' \in [Client -> Nat] /\ gone' \subseteq Client
  <2>1. \A c \in Client : memory[c].token \in Nat /\ handed[c] \in Nat
    BY <1>2 DEF Credential, ShapeInv, CoreTypes
  <2> QED
    BY <1>2, <2>1 DEF Acknowledged, ShapeInv, CoreTypes
<1>6. ShapeInv'
  BY <1>1, <1>2, <1>3, <1>4, <1>5, GoesTypes DEF ShapeInv, CoreTypes
<1>7. ASSUME NEW c \in Client \ dropped
      PROVE  KeepsPromises(c)'
  <2>1. /\ memory[c].state = "revoked" => db'[c].state = "revoked"
        /\ c \in gone => db'[c].state = "revoked"
        /\ handed[c] <= db'[c].token
    BY <1>1, <1>2, CommitKeepsPromises
  <2>2. KeepsPromises(c) /\ Evolves(previous[c], memory[c])
    BY DEF ClientInv, Promises, ShapeInv, OneMutation
  <2>3. memory[c].token # previous[c].token => db'[c].token = memory[c].token
    BY <1>1, <1>2, RowAfter
  <2>4. \/ handed'[c] = handed[c]
        \/ handed'[c] = memory[c].token /\ memory[c].token # previous[c].token
    BY DEF Acknowledged, ClientInv, ShapeInv, OneMutation
  <2>5. c \in gone' => c \in gone \/ memory[c].state = "revoked"
    BY DEF Acknowledged, ClientInv, ShapeInv, OneMutation
  <2>6. memory[c].token \in Nat /\ previous[c].token \in Nat /\ handed[c] \in Nat
    BY <1>2 DEF Credential, ShapeInv, CoreTypes
  <2> QED
    BY <1>2, <1>3, <2>1, <2>2, <2>3, <2>4, <2>5, <2>6 DEF KeepsPromises, Evolves
<1> QED
  BY <1>1, <1>6, <1>7 DEF ClientInv, Promises

LEMMA FailedKeeps ==
  ASSUME ClientInv, Failed
  PROVE  ClientInv'
<1>1. /\ CommitDelta \/ UNCHANGED tables
      /\ Settle(previous) /\ RequestGoes("closing")
      /\ UNCHANGED <<running, issued, patching, handed, gone, dropped>> /\ pending.kind # "none"
  BY DEF Failed, RollBack, history
<1>2. ShapeInv /\ running /\ previous \in [Client -> Credential] /\ Drawn(previous)
  BY <1>1 DEF ClientInv, ShapeInv, OneMutation, CoreTypes
<1>3. /\ memory' = previous /\ previous' = previous
      /\ pending' \in Mutation
      /\ OneMutation' /\ RecordingWaits' /\ Drawn(memory)' /\ Drawn(previous)'
  BY <1>1, <1>2, SettledShape
<1>4. db' \in [Client -> Credential] /\ Drawn(db)'
  BY <1>1, <1>2, DrawnTable
<1>5. ShapeInv'
  BY <1>1, <1>2, <1>3, <1>4, GoesTypes DEF ShapeInv, CoreTypes
<1>6. ASSUME NEW c \in Client \ dropped
      PROVE  KeepsPromises(c)'
  <2>1. KeepsPromises(c)
    BY DEF ClientInv, Promises
  <2>2. CASE CommitDelta
    <3>1. /\ previous[c].state = "revoked" => db'[c].state = "revoked"
          /\ c \in gone => db'[c].state = "revoked"
          /\ handed[c] <= db'[c].token
      BY <1>2, <2>2, CommitKeepsPromises
    <3> QED
      BY <1>1, <1>2, <1>3, <2>1, <3>1 DEF KeepsPromises
  <2>3. CASE UNCHANGED tables
    BY <1>1, <1>3, <2>1, <2>3 DEF KeepsPromises, tables
  <2> QED
    BY <1>1, <2>2, <2>3
<1> QED
  BY <1>1, <1>5, <1>6 DEF ClientInv, Promises

LEMMA CancelledKeeps ==
  ASSUME ClientInv, Cancelled
  PROVE  ClientInv'
<1>1. /\ CommitDelta \/ UNCHANGED tables
      /\ Settle(memory) /\ RequestGoes("closing")
      /\ UNCHANGED <<running, issued, patching, handed, gone>> /\ pending.kind # "none"
      /\ dropped' = dropped \cup {pending.client}
  BY DEF Cancelled
<1>2. ShapeInv /\ running /\ memory \in [Client -> Credential] /\ Drawn(memory)
      /\ pending.client \in Client
  BY <1>1 DEF ClientInv, ShapeInv, OneMutation, CoreTypes
<1>3. /\ memory' = memory /\ previous' = memory
      /\ pending' \in Mutation
      /\ OneMutation' /\ RecordingWaits' /\ Drawn(memory)' /\ Drawn(previous)'
  BY <1>1, <1>2, SettledShape
<1>4. db' \in [Client -> Credential] /\ Drawn(db)'
  BY <1>1, <1>2, DrawnTable
<1>5. ShapeInv'
  BY <1>1, <1>2, <1>3, <1>4, GoesTypes DEF ShapeInv, CoreTypes
<1>6. ASSUME NEW c \in Client \ dropped'
      PROVE  KeepsPromises(c)'
  <2>1. KeepsPromises(c) /\ memory[c] = previous[c] /\ c \in Client \ dropped
    BY <1>1 DEF ClientInv, Promises, ShapeInv, OneMutation
  <2>2. CASE CommitDelta
    <3>1. /\ previous[c].state = "revoked" => db'[c].state = "revoked"
          /\ c \in gone => db'[c].state = "revoked"
          /\ handed[c] <= db'[c].token
      BY <1>2, <2>1, <2>2, CommitKeepsPromises
    <3> QED
      BY <1>1, <1>2, <1>3, <2>1, <3>1 DEF KeepsPromises
  <2>3. CASE UNCHANGED tables
    BY <1>1, <1>3, <2>1, <2>3 DEF KeepsPromises, tables
  <2> QED
    BY <1>1, <2>2, <2>3
<1> QED
  BY <1>5, <1>6 DEF ClientInv, Promises

-----------------------------------------------------------------------------
(* Steps that begin a mutation *)

LEMMA BeginKeeps ==
  ASSUME ClientInv, NEW c \in Client, NEW mutation \in Mutation,
         NEW new \in [Client -> Credential],
         running, pending = NoMutation,
         memory' = new, previous' = memory, pending' = mutation,
         mutation.kind # "none", mutation.client = c,
         \A d \in Client : d # c => new[d] = memory[d],
         Evolves(memory[c], new[c]),
         mutation.kind = "revoke" => new[c].state = "revoked",
         mutation.kind \in {"create", "rotate"} => new[c].token # memory[c].token,
         new[c].state = "absent" <=> new[c].token = 0,
         new[c].token <= issued'[c],
         issued' \in [Client -> Nat], \A d \in Client : issued[d] <= issued'[d],
         patching' \in [Admin -> Patching], request' \in [Request -> Handling],
         mutation.request # NoRequest => request'[mutation.request].pc = "recording",
         EntrantsNameClients',
         UNCHANGED <<running, db, handed, gone, dropped>>
  PROVE  ClientInv'
<1>1. ShapeInv /\ memory = previous
  BY DEF ClientInv, ShapeInv, OneMutation, NoMutation
<1>2. \A d \in Client : /\ memory[d] \in Credential /\ new[d] \in Credential
                        /\ db[d] \in Credential
                        /\ issued[d] \in Nat /\ issued'[d] \in Nat
  BY <1>1 DEF ShapeInv, CoreTypes
<1>3. CoreTypes'
  BY <1>1 DEF ShapeInv, CoreTypes
<1>4. OneMutation'
  <2>1. \A d \in Client : Evolves(previous'[d], memory'[d])
    BY <1>2 DEF Evolves, Credential
  <2> QED
    BY <2>1 DEF OneMutation
<1>5. RecordingWaits'
  BY DEF RecordingWaits
<1>6. Drawn(memory)' /\ Drawn(previous)' /\ Drawn(db)'
  <2>1. \A d \in Client : /\ memory[d].token \in Nat /\ db[d].token \in Nat
                          /\ new[d].token \in Nat
    BY <1>2 DEF Credential
  <2> QED
    BY <1>1, <1>2, <2>1 DEF ShapeInv, Drawn
<1>7. Promises'
  BY <1>1 DEF ClientInv, Promises, KeepsPromises
<1> QED
  BY <1>3, <1>4, <1>5, <1>6, <1>7 DEF ClientInv, ShapeInv

(* Kinds of mutations of an administrator. *)
LEMMA MutatingType ==
  ASSUME NEW kind \in Kind, NEW c \in Client,
         NEW fields \in {NoPatch} \cup NewPolicies \cup PolicyPatches
  PROVE  /\ Mutating(kind, c, fields) \in Mutation
         /\ Mutating(kind, c, fields).kind = kind
         /\ Mutating(kind, c, fields).client = c
         /\ Mutating(kind, c, fields).request = NoRequest
BY DEF Mutating, NoMutation, Mutation

LEMMA NextTokenTypes ==
  ASSUME ClientInv, NEW c \in Client, NextToken(c)
  PROVE  /\ issued' \in [Client -> Nat] /\ issued'[c] = issued[c] + 1
         /\ \A d \in Client : issued[d] <= issued'[d]
BY DEF NextToken, ClientInv, ShapeInv, CoreTypes

LEMMA CreateKeeps ==
  ASSUME ClientInv, NEW c \in Client, CreateClient(c)
  PROVE  ClientInv'
<1>1. PICK scopes \in ScopeSets, fields \in NewPolicies \cup {NoPatch} :
        Begin(Mutating("create", c, fields), Issued(memory, c, scopes))
  BY DEF CreateClient
<1> DEFINE row == [state |-> "active", scopes |-> scopes, token |-> issued[c] + 1]
           new == [memory EXCEPT ![c] = row]
<1>2. /\ running /\ pending = NoMutation /\ previous' = memory
      /\ pending' = Mutating("create", c, fields)
      /\ memory' = new /\ memory[c].state = "absent"
  BY <1>1 DEF Begin, Issued
<1>3. /\ memory \in [Client -> Credential] /\ issued \in [Client -> Nat]
      /\ memory[c].token = 0
  BY <1>2 DEF ClientInv, ShapeInv, CoreTypes, Drawn
<1>4. row \in Credential /\ row.token = issued[c] + 1 /\ row.state = "active"
  BY <1>3 DEF Credential, Scope
<1>5. /\ new \in [Client -> Credential] /\ new[c] = row
      /\ \A d \in Client : d # c => new[d] = memory[d]
  BY <1>3, <1>4
<1>6. /\ issued' \in [Client -> Nat] /\ issued'[c] = issued[c] + 1
      /\ \A d \in Client : issued[d] <= issued'[d]
  BY NextTokenTypes DEF CreateClient
<1>7. /\ UNCHANGED <<running, db, patching, request, handed, gone, dropped>>
      /\ patching' \in [Admin -> Patching] /\ request' \in [Request -> Handling]
      /\ EntrantsNameClients'
  BY DEF CreateClient, tables, history, ClientInv, ShapeInv, CoreTypes, EntrantsNameClients
<1>8. /\ pending' \in Mutation /\ pending'.kind = "create" /\ pending'.client = c
      /\ pending'.request = NoRequest
  BY <1>2, MutatingType DEF Kind
<1> HIDE DEF row, new
<1>9. /\ Evolves(memory[c], new[c]) /\ new[c].token # memory[c].token
      /\ new[c].state = "absent" <=> new[c].token = 0
      /\ new[c].token <= issued'[c]
  BY <1>2, <1>3, <1>4, <1>5, <1>6 DEF Evolves
<1> QED
  BY <1>2, <1>5, <1>6, <1>7, <1>8, <1>9, BeginKeeps

LEMMA RotateKeeps ==
  ASSUME ClientInv, NEW c \in Client, RotateClient(c)
  PROVE  ClientInv'
<1> DEFINE row == [memory[c] EXCEPT !.token = issued[c] + 1]
           new == [memory EXCEPT ![c].token = issued[c] + 1]
<1>2. /\ running /\ pending = NoMutation /\ previous' = memory
      /\ pending' = Mutating("rotate", c, NoPatch)
      /\ memory' = new /\ memory[c].state = "active"
  BY DEF RotateClient, Begin, Rotated, Active
<1>3. /\ memory \in [Client -> Credential] /\ issued \in [Client -> Nat]
      /\ memory[c] \in Credential /\ memory[c].token <= issued[c]
  BY <1>2 DEF ClientInv, ShapeInv, CoreTypes, Drawn
<1>4. row \in Credential /\ row.token = issued[c] + 1 /\ row.state = "active"
  BY <1>2, <1>3 DEF Credential
<1>5. /\ new \in [Client -> Credential] /\ new[c] = row
      /\ \A d \in Client : d # c => new[d] = memory[d]
  BY <1>3, <1>4
<1>6. /\ issued' \in [Client -> Nat] /\ issued'[c] = issued[c] + 1
      /\ \A d \in Client : issued[d] <= issued'[d]
  BY NextTokenTypes DEF RotateClient
<1>7. /\ UNCHANGED <<running, db, patching, request, handed, gone, dropped>>
      /\ patching' \in [Admin -> Patching] /\ request' \in [Request -> Handling]
      /\ EntrantsNameClients'
  BY DEF RotateClient, tables, history, ClientInv, ShapeInv, CoreTypes, EntrantsNameClients
<1>8. /\ pending' \in Mutation /\ pending'.kind = "rotate" /\ pending'.client = c
      /\ pending'.request = NoRequest
  BY <1>2, MutatingType DEF Kind
<1> HIDE DEF row, new
<1>9. /\ Evolves(memory[c], new[c]) /\ new[c].token # memory[c].token
      /\ new[c].state = "absent" <=> new[c].token = 0
      /\ new[c].token <= issued'[c]
  <2>1. memory[c].token \in Nat /\ issued[c] \in Nat
    BY <1>3 DEF Credential
  <2> QED
    BY <1>2, <1>3, <1>4, <1>5, <1>6, <2>1 DEF Evolves
<1> QED
  BY <1>2, <1>5, <1>6, <1>7, <1>8, <1>9, BeginKeeps

LEMMA RevokeKeeps ==
  ASSUME ClientInv, NEW c \in Client, RevokeClient(c)
  PROVE  ClientInv'
<1> DEFINE row == [memory[c] EXCEPT !.state = "revoked"]
           new == [memory EXCEPT ![c].state = "revoked"]
<1>2. /\ running /\ pending = NoMutation /\ previous' = memory
      /\ pending' = Mutating("revoke", c, NoPatch)
      /\ memory' = new /\ memory[c].state # "absent"
  BY DEF RevokeClient, Begin, Revoked
<1>3. /\ memory \in [Client -> Credential] /\ issued \in [Client -> Nat]
      /\ memory[c] \in Credential /\ memory[c].token <= issued[c] /\ memory[c].token # 0
  BY <1>2 DEF ClientInv, ShapeInv, CoreTypes, Drawn
<1>4. row \in Credential /\ row.token = memory[c].token /\ row.state = "revoked"
  BY <1>2, <1>3 DEF Credential
<1>5. /\ new \in [Client -> Credential] /\ new[c] = row
      /\ \A d \in Client : d # c => new[d] = memory[d]
  BY <1>3, <1>4
<1>7. /\ UNCHANGED <<running, db, issued, patching, request, handed, gone, dropped>>
      /\ patching' \in [Admin -> Patching] /\ request' \in [Request -> Handling]
      /\ EntrantsNameClients'
  BY DEF RevokeClient, tables, history, ClientInv, ShapeInv, CoreTypes, EntrantsNameClients
<1>8. /\ pending' \in Mutation /\ pending'.kind = "revoke" /\ pending'.client = c
      /\ pending'.request = NoRequest
  BY <1>2, MutatingType DEF Kind
<1> HIDE DEF row, new
<1>9. /\ Evolves(memory[c], new[c])
      /\ new[c].state = "absent" <=> new[c].token = 0
      /\ new[c].token <= issued'[c]
  <2>1. memory[c].token \in Nat /\ issued[c] \in Nat
    BY <1>3 DEF Credential
  <2> QED
    BY <1>2, <1>3, <1>4, <1>5, <1>7, <2>1 DEF Evolves
<1>10. \A d \in Client : issued[d] \in Nat /\ issued'[d] = issued[d]
  BY <1>3, <1>7
<1>11. new[c].state = "revoked" /\ issued' \in [Client -> Nat]
       /\ \A d \in Client : issued[d] <= issued'[d]
  BY <1>3, <1>4, <1>5, <1>7, <1>10
<1> QED
  BY <1>2, <1>5, <1>7, <1>8, <1>9, <1>11, BeginKeeps

(* A step that leaves credentials, table and history alone.                 *)
LEMMA OthersKeep ==
  ASSUME ClientInv,
         patching' \in [Admin -> Patching], request' \in [Request -> Handling],
         \A r \in Request : request[r].pc = "recording" => request'[r].pc = "recording",
         EntrantsNameClients',
         UNCHANGED <<running, memory, previous, pending, db, issued, handed, gone, dropped>>
  PROVE  ClientInv'
<1>1. CoreTypes'
  BY DEF ClientInv, ShapeInv, CoreTypes
<1>2. pending.request \in Request \cup {NoRequest}
  BY DEF ClientInv, ShapeInv, CoreTypes, Mutation
<1>3. RecordingWaits'
  BY <1>2 DEF ClientInv, ShapeInv, RecordingWaits
<1>4. OneMutation' /\ Drawn(memory)' /\ Drawn(previous)' /\ Drawn(db)'
  BY DEF ClientInv, ShapeInv, OneMutation, Drawn
<1>5. Promises'
  BY DEF ClientInv, Promises, KeepsPromises
<1> QED
  BY <1>1, <1>3, <1>4, <1>5 DEF ClientInv, ShapeInv

LEMMA UpdateKeeps ==
  ASSUME ClientInv, NEW a \in Admin, UpdateClient(a)
  PROVE  ClientInv'
<1> DEFINE c == patching[a].client
           mutation == [Mutating("update", c, patching[a].policy)
                          EXCEPT !.scoped = patching[a].scoped]
           new == [memory EXCEPT ![c].scopes = patching[a].scopes]
<1>1. /\ patching[a] \in Patching /\ c \in Client
      /\ patching \in [Admin -> Patching] /\ request \in [Request -> Handling]
  BY DEF UpdateClient, ClientInv, ShapeInv, CoreTypes, Patching
<1>2. NotPatching \in Patching
  BY DEF NotPatching, Patching
<1>3. /\ UNCHANGED <<running, db, issued, request, handed, gone, dropped>>
      /\ patching' \in [Admin -> Patching] /\ request' \in [Request -> Handling]
      /\ EntrantsNameClients'
  BY <1>1, <1>2 DEF UpdateClient, tables, history, ClientInv, ShapeInv, EntrantsNameClients
<1>4. CASE UNCHANGED <<memory, previous, pending>>
  BY <1>3, <1>4, OthersKeep
<1>5. CASE Begin(mutation, Rescoped(memory, c, patching[a].scopes))
  <2>1. /\ running /\ pending = NoMutation /\ previous' = memory
        /\ pending' = mutation /\ memory' = new
    BY <1>5 DEF Begin, Rescoped
  <2>2. /\ memory \in [Client -> Credential] /\ issued \in [Client -> Nat]
        /\ memory[c] \in Credential /\ memory[c].token <= issued[c]
        /\ memory[c].state = "absent" <=> memory[c].token = 0
    BY <1>1 DEF ClientInv, ShapeInv, CoreTypes, Drawn
  <2>3. /\ new \in [Client -> Credential]
        /\ new[c].state = memory[c].state /\ new[c].token = memory[c].token
        /\ \A d \in Client : d # c => new[d] = memory[d]
    BY <1>1, <2>2 DEF Credential, Patching
  <2>4. /\ mutation \in Mutation /\ mutation.kind = "update" /\ mutation.client = c
        /\ mutation.request = NoRequest
    BY <1>1 DEF Mutating, NoMutation, Mutation, Patching, Kind
  <2> HIDE DEF mutation, new, c
  <2>5. \A d \in Client : issued[d] \in Nat /\ issued'[d] = issued[d]
    BY <1>3, <2>2
  <2>6. /\ issued' \in [Client -> Nat] /\ \A d \in Client : issued[d] <= issued'[d]
        /\ Evolves(memory[c], new[c]) /\ new[c].token <= issued'[c]
        /\ new[c].state = "absent" <=> new[c].token = 0
    BY <1>1, <1>3, <2>2, <2>3, <2>5 DEF Evolves, Credential
  <2> QED
    BY <1>1, <1>3, <2>1, <2>3, <2>4, <2>6, BeginKeeps
<1> QED
  BY <1>4, <1>5 DEF UpdateClient

LEMMA RecordUseKeeps ==
  ASSUME ClientInv, NEW r \in Request, RecordUse(r)
  PROVE  ClientInv'
<1> DEFINE c == request[r].client
           mutation == [Mutating("use", c, NoPatch) EXCEPT !.request = r]
<1>1. /\ request[r] \in Handling /\ request[r].pc \in {"admitted", "authorized"}
      /\ request \in [Request -> Handling] /\ patching \in [Admin -> Patching]
      /\ running /\ pending = NoMutation
  BY DEF RecordUse, ClientInv, ShapeInv, CoreTypes
<1>2. UNCHANGED <<running, db, issued, patching, handed, gone, dropped>>
  BY DEF RecordUse, tables, history
<1>3. CASE Goto(r, "closing") /\ UNCHANGED <<memory, previous, pending>>
  <2>1. /\ request' \in [Request -> Handling] /\ EntrantsNameClients'
        /\ \A q \in Request : request[q].pc = "recording" => request'[q].pc = "recording"
    BY <1>1, <1>3 DEF Goto, Handling, ClientInv, ShapeInv, EntrantsNameClients
  <2> QED
    BY <1>1, <1>2, <1>3, <2>1, OthersKeep
<1>4. CASE /\ memory[c].state = "active" /\ Begin(mutation, {memory})
           /\ request' = [request EXCEPT ![r].pc = "recording", ![r].token = 0]
  <2>1. previous' = memory /\ pending' = mutation /\ memory' = memory
    BY <1>4 DEF Begin
  <2>2. /\ request' \in [Request -> Handling] /\ request'[r].pc = "recording"
        /\ EntrantsNameClients'
    BY <1>1, <1>4 DEF Handling, ClientInv, ShapeInv, EntrantsNameClients
  <2>3. c \in Client
    BY <1>1 DEF ClientInv, ShapeInv, EntrantsNameClients
  <2>4. /\ memory \in [Client -> Credential] /\ issued \in [Client -> Nat]
        /\ memory[c] \in Credential /\ memory[c].token <= issued[c]
        /\ memory[c].state = "absent" <=> memory[c].token = 0
    BY <2>3 DEF ClientInv, ShapeInv, CoreTypes, Drawn
  <2>5. /\ mutation \in Mutation /\ mutation.kind = "use" /\ mutation.client = c
        /\ mutation.request = r
    BY <2>3 DEF Mutating, NoMutation, Mutation, Kind
  <2> HIDE DEF mutation, c
  <2>6. \A d \in Client : issued[d] \in Nat /\ issued'[d] = issued[d]
    BY <1>2, <2>4
  <2>7. /\ issued' \in [Client -> Nat] /\ \A d \in Client : issued[d] <= issued'[d]
        /\ Evolves(memory[c], memory[c]) /\ memory[c].token <= issued'[c]
    BY <1>2, <2>3, <2>4, <2>6 DEF Evolves, Credential
  <2> QED
    BY <1>1, <1>2, <2>1, <2>2, <2>3, <2>4, <2>5, <2>7, BeginKeeps
<1> QED
  BY <1>1, <1>3, <1>4 DEF RecordUse

LEMMA ReadKeeps ==
  ASSUME ClientInv, NEW a \in Admin, NEW c \in Client, ReadForUpdate(a, c)
  PROVE  ClientInv'
<1>1. /\ patching \in [Admin -> Patching] /\ request \in [Request -> Handling]
      /\ db[c] \in Credential
  BY DEF ClientInv, ShapeInv, CoreTypes
<1>2. PICK fields \in PolicyPatches \cup {NoPatch}, scopes \in ScopeSets \cup {db[c].scopes},
           scoped \in BOOLEAN :
        patching' = [patching EXCEPT ![a] = [client |-> c, scopes |-> scopes,
                                             scoped |-> scoped, policy |-> fields]]
  BY DEF ReadForUpdate
<1>3. [client |-> c, scopes |-> scopes, scoped |-> scoped, policy |-> fields] \in Patching
  BY <1>1 DEF Patching, Scope, Credential
<1>4. patching' \in [Admin -> Patching]
  BY <1>1, <1>2, <1>3
<1>5. /\ UNCHANGED <<running, memory, previous, pending, db, issued, request, handed, gone,
                     dropped>>
      /\ EntrantsNameClients'
  BY DEF ReadForUpdate, tables, history, ClientInv, ShapeInv, EntrantsNameClients
<1> QED
  BY <1>1, <1>4, <1>5, OthersKeep

(* The steps of a request outside the recording of its use.                 *)
Elsewhere(r) ==
  \/ Authorize(r) \/ BeginAdmission(r) \/ LockAndCount(r) \/ InsertPermit(r) \/ AdmissionFails(r)
  \/ RequestEnds(r) \/ ReleasePermit(r) \/ ReleaseOrphan(r)

LEMMA ElsewhereMoves ==
  ASSUME ClientInv, now \in Nat, NEW r \in Request, Elsewhere(r)
  PROVE  /\ \E h \in Handling :
              /\ request' = [request EXCEPT ![r] = h]
              /\ h.pc \in {"authorized", "queued", "admitting", "admitted"} => h.client \in Client
              /\ request[r].pc = "recording" => h.pc = "recording"
         /\ UNCHANGED <<running, memory, previous, pending, db, issued, patching, handed, gone,
                        dropped>>
<1> DEFINE Moves(h) ==
      /\ request' = [request EXCEPT ![r] = h]
      /\ h.pc \in {"authorized", "queued", "admitting", "admitted"} => h.client \in Client
      /\ request[r].pc = "recording" => h.pc = "recording"
<1>1. /\ request \in [Request -> Handling] /\ request[r] \in Handling /\ Finished \in Handling
      /\ Finished.pc = "done"
  BY DEF ClientInv, ShapeInv, CoreTypes, Handling, Finished
<1>2. request[r].pc \in {"authorized", "queued", "admitting", "admitted"} =>
        request[r].client \in Client
  BY DEF ClientInv, ShapeInv, EntrantsNameClients
<1>3. UNCHANGED <<running, memory, previous, pending, db, issued, patching, handed, gone, dropped>>
  BY DEF Elsewhere, Authorize, BeginAdmission, LockAndCount, InsertPermit, AdmissionFails,
         RequestEnds, ReleasePermit, ReleaseOrphan, tables, history
<1> SUFFICES \E h \in Handling : Moves(h)
  BY <1>3
<1>4. ASSUME Finish(r), request[r].pc # "recording"
      PROVE  \E h \in Handling : Moves(h)
  BY <1>1, <1>4 DEF Finish
<1>5. ASSUME NEW pc \in {"admitting", "closing"}, Goto(r, pc),
             request[r].pc \in {"authorized", "queued", "admitted", "serving"},
             pc = "admitting" => request[r].pc = "queued"
      PROVE  \E h \in Handling : Moves(h)
  <2> DEFINE h == [request[r] EXCEPT !.pc = pc]
  <2>1. h \in Handling /\ h.pc = pc /\ h.client = request[r].client
    BY <1>1 DEF Handling
  <2>2. request' = [request EXCEPT ![r] = h]
    BY <1>1, <1>5 DEF Goto
  <2> HIDE DEF h
  <2>3. Moves(h)
    BY <1>2, <1>5, <2>1, <2>2
  <2> QED
    BY <2>1, <2>3
<1>6. CASE Authorize(r)
  <2>1. PICK c \in Client : \E token \in 1 .. issued[c] :
          request' = [request EXCEPT ![r] = [pc |-> "authorized", client |-> c, token |-> token,
                                             began |-> 0]]
    BY <1>6 DEF Authorize
  <2>5. PICK token \in 1 .. issued[c] :
          request' = [request EXCEPT ![r] = [pc |-> "authorized", client |-> c, token |-> token,
                                             began |-> 0]]
    BY <2>1
  <2> DEFINE h == [pc |-> "authorized", client |-> c, token |-> token, began |-> 0]
  <2>2. issued[c] \in Nat
    BY DEF ClientInv, ShapeInv, CoreTypes
  <2>3. h \in Handling /\ h.client \in Client
    BY <2>2 DEF Handling
  <2>4. Moves(h)
    BY <1>6, <2>5, <2>3 DEF Authorize
  <2> QED
    BY <2>3, <2>4
<1>7. CASE BeginAdmission(r)
  <2> DEFINE h == [request[r] EXCEPT !.pc = "queued", !.token = 0, !.began = now]
  <2>1. h.pc = "queued" /\ h.client = request[r].client
        /\ request' = [request EXCEPT ![r] = h]
    BY <1>1, <1>7 DEF BeginAdmission, Handling
  <2>2. h \in Handling
    BY <1>1 DEF Handling, ClientInv, ShapeInv, CoreTypes
  <2> HIDE DEF h
  <2>3. Moves(h)
    BY <1>2, <1>7, <2>1 DEF BeginAdmission
  <2> QED
    BY <2>2, <2>3
<1>8. CASE LockAndCount(r)
  BY <1>4, <1>5, <1>8 DEF LockAndCount
<1>9. CASE InsertPermit(r)
  <2>1. CASE request' = [request EXCEPT ![r].pc = "admitted", ![r].began = 0]
    <3> DEFINE h == [request[r] EXCEPT !.pc = "admitted", !.began = 0]
    <3>1. h.pc = "admitted" /\ h.client = request[r].client /\ h \in Handling
          /\ request' = [request EXCEPT ![r] = h]
      BY <1>1, <2>1 DEF Handling
    <3> HIDE DEF h
    <3>2. Moves(h)
      BY <1>2, <1>9, <3>1 DEF InsertPermit
    <3> QED
      BY <3>1, <3>2
  <2> QED
    BY <1>4, <1>9, <2>1 DEF InsertPermit
<1>10. CASE AdmissionFails(r)
  BY <1>4, <1>10 DEF AdmissionFails
<1>11. CASE RequestEnds(r)
  BY <1>5, <1>11 DEF RequestEnds
<1>12. CASE ReleasePermit(r)
  BY <1>4, <1>12 DEF ReleasePermit
<1>13. CASE ReleaseOrphan(r)
  <2>1. request' = [request EXCEPT ![r] = request[r]]
    BY <1>1, <1>13 DEF ReleaseOrphan
  <2>2. Moves(request[r])
    BY <1>2, <2>1
  <2> QED
    BY <1>1, <2>2
<1> HIDE DEF Moves
<1> QED
  BY <1>6, <1>7, <1>8, <1>9, <1>10, <1>11, <1>12, <1>13 DEF Elsewhere

LEMMA ElsewhereKeeps ==
  ASSUME ClientInv, now \in Nat, NEW r \in Request, Elsewhere(r)
  PROVE  ClientInv'
<1>1. PICK h \in Handling :
        /\ request' = [request EXCEPT ![r] = h]
        /\ h.pc \in {"authorized", "queued", "admitting", "admitted"} => h.client \in Client
        /\ request[r].pc = "recording" => h.pc = "recording"
  BY ElsewhereMoves
<1>2. UNCHANGED <<running, memory, previous, pending, db, issued, patching, handed, gone, dropped>>
  BY ElsewhereMoves
<1>3. request \in [Request -> Handling] /\ patching \in [Admin -> Patching] /\ EntrantsNameClients
  BY DEF ClientInv, ShapeInv, CoreTypes
<1>4. /\ request' \in [Request -> Handling] /\ EntrantsNameClients'
      /\ \A q \in Request : request[q].pc = "recording" => request'[q].pc = "recording"
  BY <1>1, <1>3 DEF EntrantsNameClients
<1> QED
  BY <1>2, <1>3, <1>4, OthersKeep

-----------------------------------------------------------------------------
(* The process *)

LEMMA CrashKeeps ==
  ASSUME ClientInv, Crash
  PROVE  ClientInv'
<1>1. /\ CommitDelta \/ UNCHANGED tables
      /\ Settle(memory) /\ running /\ running' = FALSE
      /\ UNCHANGED <<issued, handed, gone, dropped>>
  BY DEF Crash, history
<1>2. ShapeInv /\ memory \in [Client -> Credential] /\ Drawn(memory)
  BY DEF ClientInv, ShapeInv, CoreTypes
<1>3. /\ memory' = memory /\ previous' = memory
      /\ pending' \in Mutation
      /\ OneMutation' /\ RecordingWaits' /\ Drawn(memory)' /\ Drawn(previous)'
  BY <1>1, <1>2, SettledShape
<1>4. db' \in [Client -> Credential] /\ Drawn(db)'
  BY <1>1, <1>2, DrawnTable
<1>5. patching' \in [Admin -> Patching]
  BY DEF Crash, NotPatching, Patching
<1>6. request' \in [Request -> Handling] /\ EntrantsNameClients'
  <2>1. Finished \in Handling /\ Finished.pc = "done"
        /\ request \in [Request -> Handling] /\ EntrantsNameClients
    BY <1>2 DEF Finished, Handling, ShapeInv, CoreTypes
  <2> QED
    BY <2>1 DEF Crash, EntrantsNameClients
<1>7. ShapeInv'
  BY <1>1, <1>2, <1>3, <1>4, <1>5, <1>6 DEF ShapeInv, CoreTypes
<1>8. ASSUME NEW c \in Client \ dropped
      PROVE  KeepsPromises(c)'
  <2>1. KeepsPromises(c)
    BY DEF ClientInv, Promises
  <2>2. CASE CommitDelta
    <3>1. /\ c \in gone => db'[c].state = "revoked"
          /\ handed[c] <= db'[c].token
      BY <1>1, <2>2, CommitKeepsPromises
    <3> QED
      BY <1>1, <3>1 DEF KeepsPromises
  <2>3. CASE UNCHANGED tables
    BY <1>1, <2>1, <2>3 DEF KeepsPromises, tables
  <2> QED
    BY <1>1, <2>2, <2>3
<1> QED
  BY <1>1, <1>7, <1>8 DEF ClientInv, Promises

LEMMA OpenKeeps ==
  ASSUME ClientInv, Open
  PROVE  ClientInv'
<1>1. /\ running' = TRUE
      /\ UNCHANGED <<issued, patching, request, handed, gone, dropped>>
  BY DEF Open, history
<1>2. /\ ShapeInv /\ Drawn(memory) /\ Drawn(db)
      /\ memory \in [Client -> Credential] /\ db \in [Client -> Credential]
      /\ request \in [Request -> Handling] /\ EntrantsNameClients
      /\ patching \in [Admin -> Patching]
  BY DEF ClientInv, ShapeInv, CoreTypes
<1>3. EntrantsNameClients'
  BY <1>1, <1>2 DEF EntrantsNameClients
<1>4. ASSUME NEW v \in [Client -> Credential], Settle(v), Drawn(v), db' = v,
             \A c \in Client \ dropped :
                (c \in gone => v[c].state = "revoked") /\ handed[c] <= v[c].token
      PROVE  ClientInv'
  <2>1. /\ memory' = v /\ previous' = v
        /\ pending' \in Mutation
        /\ OneMutation' /\ RecordingWaits' /\ Drawn(memory)' /\ Drawn(previous)'
    BY <1>1, <1>2, <1>4, SettledShape
  <2>2. Drawn(db)'
    BY <1>1, <1>4 DEF Drawn
  <2>3. ShapeInv'
    BY <1>1, <1>2, <1>3, <1>4, <2>1, <2>2 DEF ShapeInv, CoreTypes
  <2> QED
    BY <1>1, <1>4, <2>1, <2>3 DEF ClientInv, Promises, KeepsPromises
<1>5. CASE Settle(db) /\ UNCHANGED db
  <2>1. \A c \in Client \ dropped :
           (c \in gone => db[c].state = "revoked") /\ handed[c] <= db[c].token
    BY DEF ClientInv, Promises, KeepsPromises
  <2> QED
    BY <1>2, <1>4, <1>5, <2>1
<1>6. CASE /\ Settle(memory) /\ db' = memory
           /\ \A c \in Client : db[c].state = "absent"
  <2>1. ASSUME NEW c \in Client \ dropped
        PROVE  c \notin gone /\ handed[c] <= memory[c].token
    <3>1. KeepsPromises(c) /\ db[c].state = "absent" /\ db[c].token = 0
      BY <1>2, <1>6 DEF ClientInv, Promises, Drawn
    <3>2. handed[c] \in Nat /\ memory[c].token \in Nat
      BY <1>2 DEF ShapeInv, CoreTypes, Credential
    <3> QED
      BY <3>1, <3>2 DEF KeepsPromises
  <2> QED
    BY <1>2, <1>4, <1>6, <2>1
<1> QED
  BY <1>5, <1>6 DEF Open

LEMMA TickKeeps ==
  ASSUME ClientInv, Tick
  PROVE  ClientInv'
<1>1. UNCHANGED <<running, memory, previous, pending, db, issued, patching, request, handed, gone,
                  dropped>>
  BY DEF Tick, tables, history
<1>2. /\ patching' \in [Admin -> Patching] /\ request' \in [Request -> Handling]
      /\ EntrantsNameClients'
  BY <1>1 DEF ClientInv, ShapeInv, CoreTypes, EntrantsNameClients
<1> QED
  BY <1>1, <1>2, OthersKeep

-----------------------------------------------------------------------------
(* The invariant *)

ClockedInv == ClientInv /\ now \in Nat

LEMMA InitHolds ==
  Init => ClockedInv
<1> SUFFICES ASSUME Init PROVE ClockedInv
  OBVIOUS
<1>1. Absent \in Credential /\ Absent.state = "absent" /\ Absent.token = 0
  BY DEF Absent, Credential
<1>2. /\ NoMutation \in Mutation /\ NoMutation.kind = "none" /\ NoMutation.request = NoRequest
      /\ NotPatching \in Patching
  BY DEF NoMutation, Mutation, Kind, NotPatching, Patching
<1>3. request \in [Request -> Handling] /\ EntrantsNameClients
  BY DEF Init, Handling, EntrantsNameClients
<1>4. CoreTypes
  BY <1>1, <1>2, <1>3 DEF Init, CoreTypes
<1>5. OneMutation /\ RecordingWaits
  BY <1>1, <1>2 DEF Init, OneMutation, RecordingWaits, Evolves
<1>6. Drawn(memory) /\ Drawn(previous) /\ Drawn(db)
  BY <1>1 DEF Init, Drawn
<1>7. Promises
  BY <1>1 DEF Init, Promises, KeepsPromises
<1> QED
  BY <1>3, <1>4, <1>5, <1>6, <1>7 DEF Init, ClockedInv, ClientInv, ShapeInv

LEMMA StepKeeps ==
  ClockedInv /\ [Next]_vars => ClockedInv'
<1> SUFFICES ASSUME ClockedInv, [Next]_vars PROVE ClockedInv'
  OBVIOUS
<1>1. ClientInv /\ now \in Nat
  BY DEF ClockedInv
<1>2. CASE Administrator
  <2>1. now' = now
    BY <1>2 DEF Administrator, CreateClient, RotateClient, RevokeClient, UpdateClient,
                ReadForUpdate
  <2>2. ClientInv'
    BY <1>1, <1>2, CreateKeeps, RotateKeeps, RevokeKeeps, UpdateKeeps, ReadKeeps
       DEF Administrator
  <2> QED
    BY <1>1, <2>1, <2>2 DEF ClockedInv
<1>3. ASSUME NEW r \in Request, Handler(r)
      PROVE  ClockedInv'
  <2>1. now' = now
    BY <1>3 DEF Handler, Authorize, BeginAdmission, LockAndCount, InsertPermit, AdmissionFails,
                RecordUse, RequestEnds, ReleasePermit, ReleaseOrphan
  <2>2. Elsewhere(r) \/ RecordUse(r)
    BY <1>3 DEF Handler, Elsewhere
  <2>3. ClientInv'
    BY <1>1, <2>2, ElsewhereKeeps, RecordUseKeeps
  <2> QED
    BY <1>1, <2>1, <2>3 DEF ClockedInv
<1>4. CASE Acknowledged \/ Failed \/ Cancelled
  <2>1. now' = now
    BY <1>4 DEF Acknowledged, Failed, Cancelled
  <2> QED
    BY <1>1, <1>4, <2>1, AcknowledgedKeeps, FailedKeeps, CancelledKeeps DEF ClockedInv
<1>5. CASE Crash \/ Open
  <2>1. now' = now
    BY <1>5 DEF Crash, Open
  <2> QED
    BY <1>1, <1>5, <2>1, CrashKeeps, OpenKeeps DEF ClockedInv
<1>6. CASE Tick
  <2>1. now' \in Nat
    BY <1>1, <1>6 DEF Tick
  <2> QED
    BY <1>1, <1>6, <2>1, TickKeeps DEF ClockedInv
<1>7. CASE UNCHANGED vars
  <2>1. UNCHANGED <<running, memory, previous, pending, db, issued, patching, request, handed,
                    gone, dropped, now>>
    BY <1>7 DEF vars
  <2>2. /\ patching' \in [Admin -> Patching] /\ request' \in [Request -> Handling]
        /\ EntrantsNameClients'
    BY <1>1, <2>1 DEF ClientInv, ShapeInv, CoreTypes, EntrantsNameClients
  <2> QED
    BY <1>1, <2>1, <2>2, OthersKeep DEF ClockedInv
<1> QED
  BY <1>2, <1>3, <1>4, <1>5, <1>6, <1>7 DEF Next

LEMMA InvariantHolds ==
  Spec => []ClockedInv
<1> QED
  BY InitHolds, StepKeeps, PTL DEF Spec

-----------------------------------------------------------------------------
(* What it means for administrators and for the holders of tokens *)

(* A client whose revocation was acknowledged is revoked in                 *)
(* downstream_credentials for good, through every lost answer, late patch,  *)
(* crash and restart (mutate_with_audit, sync_database_delta, open).        *)
THEOREM RevokedStaysRevoked ==
  Spec => []GoneStaysGone
<1>1. ClockedInv => GoneStaysGone
  BY DEF ClockedInv, ClientInv, ShapeInv, CoreTypes, Promises, KeepsPromises, GoneStaysGone
<1> QED
  BY <1>1, InvariantHolds, PTL

(* A request leaves "idle" only through authorize_downstream.               *)
LEMMA OnlyAuthorizeAdmits ==
  ASSUME ClockedInv, [Next]_vars, NEW r \in Request,
         request[r].pc = "idle", request'[r].pc # "idle"
  PROVE  Authorize(r)
<1>1. /\ ClientInv /\ now \in Nat /\ request \in [Request -> Handling]
      /\ pending.request # NoRequest => request[pending.request].pc = "recording"
  BY DEF ClockedInv, ClientInv, ShapeInv, CoreTypes, RecordingWaits
<1>2. request' # request
  BY <1>1
<1>3. CASE Administrator
  BY <1>2, <1>3 DEF Administrator, CreateClient, RotateClient, RevokeClient, UpdateClient,
                    ReadForUpdate
<1>4. ASSUME NEW q \in Request, Handler(q)
      PROVE  Authorize(r)
  <2>1. CASE Elsewhere(q)
    <3>1. \E h \in Handling : request' = [request EXCEPT ![q] = h]
      BY <1>1, <2>1, ElsewhereMoves
    <3>2. q = r
      BY <1>1, <3>1
    <3> QED
      BY <1>2, <2>1, <3>2
         DEF Elsewhere, BeginAdmission, LockAndCount, InsertPermit, AdmissionFails, RequestEnds,
             ReleasePermit, ReleaseOrphan
  <2>2. CASE RecordUse(q)
    <3>1. request[q].pc # "idle" /\ \E h : request' = [request EXCEPT ![q] = h]
      BY <1>1, <2>2 DEF RecordUse, Goto
    <3> QED
      BY <1>1, <3>1
  <2> QED
    BY <1>4, <2>1, <2>2 DEF Handler, Elsewhere
<1>5. CASE Acknowledged \/ Failed \/ Cancelled
  <2>1. PICK pc \in {"serving", "closing"} : RequestGoes(pc)
    BY <1>5 DEF Acknowledged, Failed, Cancelled
  <2>2. pending.request # r
    BY <1>1, ClientsAssumption
  <2> QED
    BY <2>1, <2>2 DEF RequestGoes
<1>6. CASE Crash
  BY <1>6 DEF Crash
<1>7. CASE Open \/ Tick \/ UNCHANGED vars
  BY <1>2, <1>7 DEF Open, Tick, vars
<1> QED
  BY <1>3, <1>4, <1>5, <1>6, <1>7 DEF Next

(* No request is authorized with a token that an acknowledged rotation      *)
(* replaced or an acknowledged revocation took away: authorize_downstream   *)
(* waits for sync_lock, so that memory is what the table was told.          *)
THEOREM DeadTokensOpenNothing ==
  Spec => DeadTokensAreRefused
<1>1. ASSUME ClockedInv, [Next]_vars, NEW r \in Request,
             request[r].pc = "idle", request'[r].pc # "idle",
             request'[r].client \notin dropped
      PROVE  request'[r].client \notin gone /\ request'[r].token >= handed[request'[r].client]
  <2>1. Authorize(r)
    BY <1>1, OnlyAuthorizeAdmits
  <2>2. PICK c \in Client : \E token \in 1 .. issued[c] :
          /\ Authorizes(c, token, NeededScope[r])
          /\ request' = [request EXCEPT ![r] = [pc |-> "authorized", client |-> c,
                                                token |-> token, began |-> 0]]
    BY <2>1 DEF Authorize
  <2>3. request \in [Request -> Handling]
    BY <1>1 DEF ClockedInv, ClientInv, ShapeInv, CoreTypes
  <2>4. /\ request'[r].client = c /\ request'[r].token = memory[c].token
        /\ memory[c].state = "active"
    BY <2>2, <2>3 DEF Authorizes
  <2>5. running /\ memory = previous /\ KeepsPromises(c)
    BY <1>1, <2>1, <2>4
       DEF Authorize, ClockedInv, ClientInv, ShapeInv, OneMutation, NoMutation, Promises
  <2>6. handed[c] \in Nat /\ memory[c].token \in Nat
    BY <1>1 DEF ClockedInv, ClientInv, ShapeInv, CoreTypes, Credential
  <2> QED
    BY <2>4, <2>5, <2>6 DEF KeepsPromises
<1>2. ClockedInv /\ [Next]_vars =>
        [\A r \in Request :
           request[r].pc = "idle" /\ request'[r].pc # "idle" =>
             LET c == request'[r].client IN
             c \notin dropped => c \notin gone /\ request'[r].token >= handed[c]]_vars
  BY <1>1
<1> QED
  BY <1>2, InvariantHolds, PTL DEF Spec, DeadTokensAreRefused

-----------------------------------------------------------------------------
(* Policies and the patches of them *)

Fields == {"expires_at", "model_allowlist", "rpm_limit", "max_concurrency", "request_limit_day"}

LEMMA PolicyFields ==
  ASSUME NEW p
  PROVE  p \in Policy <=> /\ p = [f \in Fields |-> p[f]]
                          /\ p.expires_at \in Limit /\ p.rpm_limit \in Limit
                          /\ p.max_concurrency \in Limit /\ p.request_limit_day \in Limit
                          /\ p.model_allowlist \in (SUBSET Profile \ {{}}) \cup {Unlimited}
BY DEF Policy, Fields

(* What is a policy when it patches no limits is one when it patches any.   *)
LEMMA PatchedTyped ==
  ASSUME NEW p \in Policy, NEW patch, Patched(NoLimits, patch) \in Policy
  PROVE  Patched(p, patch) \in Policy
<1>1. NoLimits \in Policy
  BY DEF NoLimits, Policy, Limit
<1>2. DOMAIN p = Fields /\ DOMAIN NoLimits = Fields
  BY <1>1, PolicyFields
<1>3. /\ Patched(p, patch) = [f \in Fields |-> IF f \in DOMAIN patch THEN patch[f] ELSE p[f]]
      /\ Patched(NoLimits, patch) =
           [f \in Fields |-> IF f \in DOMAIN patch THEN patch[f] ELSE NoLimits[f]]
  BY <1>2 DEF Patched
<1>4. \A f \in Fields : \/ Patched(p, patch)[f] = Patched(NoLimits, patch)[f]
                        \/ Patched(p, patch)[f] = p[f]
  BY <1>3
<1>5. Patched(p, patch) = [f \in Fields |-> Patched(p, patch)[f]]
  BY <1>3
<1> HIDE DEF Patched
<1> DEFINE x == Patched(p, patch)
           y == Patched(NoLimits, patch)
<1>6. /\ y.expires_at \in Limit /\ y.rpm_limit \in Limit
      /\ y.max_concurrency \in Limit /\ y.request_limit_day \in Limit
      /\ y.model_allowlist \in (SUBSET Profile \ {{}}) \cup {Unlimited}
  BY PolicyFields
<1>7. /\ p.expires_at \in Limit /\ p.rpm_limit \in Limit
      /\ p.max_concurrency \in Limit /\ p.request_limit_day \in Limit
      /\ p.model_allowlist \in (SUBSET Profile \ {{}}) \cup {Unlimited}
  BY PolicyFields
<1>8. /\ x.expires_at \in Limit /\ x.rpm_limit \in Limit
      /\ x.max_concurrency \in Limit /\ x.request_limit_day \in Limit
      /\ x.model_allowlist \in (SUBSET Profile \ {{}}) \cup {Unlimited}
  BY <1>4, <1>6, <1>7 DEF Fields
<1> HIDE DEF x, y
<1> QED
  BY <1>5, <1>8, PolicyFields DEF x

LEMMA PatchOfWhole ==
  ASSUME NEW p \in Policy
  PROVE  Patched(NoLimits, p) \in Policy
<1>1. NoLimits \in Policy
  BY DEF NoLimits, Policy, Limit
<1>2. DOMAIN p = Fields /\ DOMAIN NoLimits = Fields /\ p = [f \in Fields |-> p[f]]
  BY <1>1, PolicyFields
<1>3. Patched(NoLimits, p) = p
  BY <1>2 DEF Patched
<1> QED
  BY <1>3

LEMMA PatchOfNone ==
  ASSUME NEW p \in Policy
  PROVE  Patched(p, NoPatch) = p
<1>1. DOMAIN NoPatch = {} /\ p = [f \in DOMAIN p |-> p[f]]
  BY PolicyFields DEF NoPatch
<1> QED
  BY <1>1 DEF Patched

(* Whatever patch a mutation carries leaves a policy a policy.              *)
LEMMA MutationsPatch ==
  ASSUME NEW p \in Policy, NEW mutation \in Mutation
  PROVE  Patched(p, mutation.policy) \in Policy
<1>1. mutation.policy \in {NoPatch} \cup NewPolicies \cup PolicyPatches
  BY DEF Mutation
<1>2. CASE mutation.policy = NoPatch
  BY <1>2, PatchOfNone
<1>3. CASE mutation.policy \in NewPolicies \cup PolicyPatches
  <2>1. Patched(NoLimits, mutation.policy) \in Policy
    BY <1>3, PatchOfWhole, ClientsAssumption
  <2> QED
    BY <2>1, PatchedTyped
<1> QED
  BY <1>1, <1>2, <1>3

-----------------------------------------------------------------------------
(* Admissions *)

(* The policy of c still lets the permit of r in, counted from at.          *)
Stands(r, c, at) ==
  /\ db[c].state = "active" /\ ~Expired(policy[c], at)
  /\ policy[c].model_allowlist = Unlimited \/ AskedProfile[r] \in policy[c].model_allowlist
  /\ Below(Cardinality(PermitsSince(c, at)), policy[c].rpm_limit)
  /\ Below(Cardinality(PermitsSince(c, DayStart(at))), policy[c].request_limit_day)
  /\ Below(Cardinality(Unreleased(c)), policy[c].max_concurrency)

Given == {q \in Request : permit[q].state # "none"}

AdmissionTypes ==
  /\ policy \in [Client -> Policy]
  /\ permit \in [Request -> Permit]
  /\ admitting \in [Client -> Request \cup {NoRequest}]
  /\ IsFiniteSet(Given)
  /\ \A r \in Request : request[r].began <= now

(* A transaction that has counted holds the lock of its client, and what it *)
(* counted still stands.                                                    *)
CountStands(r) ==
  request[r].pc = "admitting" =>
    /\ running
    /\ admitting[request[r].client] = r
    /\ Stands(r, request[r].client, request[r].began)

AdmissionInv == AdmissionTypes /\ \A r \in Request : CountStands(r)

LEMMA CountsCompare ==
  ASSUME NEW S, NEW T, IsFiniteSet(S), T \subseteq S, NEW limit \in Limit
  PROVE  Below(Cardinality(S), limit) => Below(Cardinality(T), limit)
<1>1. IsFiniteSet(T) /\ Cardinality(T) <= Cardinality(S)
  BY FS_Subset
<1>2. Cardinality(S) \in Nat /\ Cardinality(T) \in Nat
  BY <1>1, FS_CardinalityType
<1> QED
  BY <1>1, <1>2 DEF Below, Limit

LEMMA CountedSets ==
  ASSUME IsFiniteSet(Given), NEW c, NEW time
  PROVE  /\ PermitsSince(c, time) \subseteq Given /\ IsFiniteSet(PermitsSince(c, time))
         /\ Unreleased(c) \subseteq Given /\ IsFiniteSet(Unreleased(c))
<1>1. PermitsSince(c, time) \subseteq Given /\ Unreleased(c) \subseteq Given
  BY DEF PermitsSince, Unreleased, Given
<1> QED
  BY <1>1, FS_Subset

(* Nothing new counts against c: no permit of its own appears or is held    *)
(* again.                                                                   *)
NoNewPermit(c) ==
  \A q \in Request :
    permit'[q].client = c =>
      /\ permit'[q].state # "none" =>
           /\ permit[q].state # "none"
           /\ permit[q].client = c /\ permit[q].at = permit'[q].at
      /\ permit'[q].state \in {"held", "orphaned"} => permit[q].state \in {"held", "orphaned"}

LEMMA StandsStill ==
  ASSUME AdmissionTypes, NEW r \in Request, NEW c \in Client, NEW at \in Nat, Stands(r, c, at),
         db'[c].state = db[c].state, policy'[c] = policy[c], NoNewPermit(c)
  PROVE  Stands(r, c, at)'
<1>1. /\ policy[c].rpm_limit \in Limit /\ policy[c].request_limit_day \in Limit
      /\ policy[c].max_concurrency \in Limit
  BY PolicyFields DEF AdmissionTypes
<1>2. /\ PermitsSince(c, at)' \subseteq PermitsSince(c, at)
      /\ PermitsSince(c, DayStart(at))' \subseteq PermitsSince(c, DayStart(at))
      /\ Unreleased(c)' \subseteq Unreleased(c)
  BY DEF PermitsSince, Unreleased, NoNewPermit
<1>3. /\ IsFiniteSet(PermitsSince(c, at)) /\ IsFiniteSet(PermitsSince(c, DayStart(at)))
      /\ IsFiniteSet(Unreleased(c))
  BY CountedSets DEF AdmissionTypes
<1>4. /\ Below(Cardinality(PermitsSince(c, at)'), policy[c].rpm_limit)
      /\ Below(Cardinality(PermitsSince(c, DayStart(at))'), policy[c].request_limit_day)
      /\ Below(Cardinality(Unreleased(c)'), policy[c].max_concurrency)
  BY <1>1, <1>2, <1>3, CountsCompare DEF Stands
<1> QED
  BY <1>4 DEF Stands, Expired

LEMMA AdmissionNumbers ==
  ASSUME ClockedInv, AdmissionInv
  PROVE  /\ now \in Nat /\ request \in [Request -> Handling]
         /\ \A q \in Request : /\ request[q].began \in Nat /\ request[q].began <= now
                               /\ request[q].pc = "admitting" => request[q].client \in Client
BY DEF ClockedInv, ClientInv, ShapeInv, CoreTypes, EntrantsNameClients, Handling, AdmissionInv,
       AdmissionTypes

(* A transaction that goes on waiting for its insert.                       *)
LEMMA StillAdmitting ==
  ASSUME ClockedInv, AdmissionInv, NEW r \in Request,
         request[r].pc = "admitting", request'[r] = request[r], running' = running,
         admitting'[request[r].client] = r,
         db'[request[r].client].state = db[request[r].client].state,
         policy'[request[r].client] = policy[request[r].client],
         NoNewPermit(request[r].client)
  PROVE  CountStands(r)'
<1>1. PICK c \in Client, at \in Nat : c = request[r].client /\ at = request[r].began
  BY AdmissionNumbers
<1>2. Stands(r, c, at) /\ AdmissionTypes /\ running
  BY <1>1 DEF AdmissionInv, CountStands
<1>3. /\ db'[c].state = db[c].state /\ policy'[c] = policy[c] /\ NoNewPermit(c)
      /\ c = request'[r].client /\ at = request'[r].began
  BY <1>1
<1>4. Stands(r, c, at)'
  BY <1>2, <1>3, StandsStill
<1>5. running' /\ admitting'[request'[r].client] = r
  BY <1>1, <1>2
<1> QED
  BY <1>3, <1>4, <1>5 DEF CountStands, Stands, PermitsSince, Unreleased, Expired

LEMMA SamePermits ==
  ASSUME UNCHANGED permit, NEW c
  PROVE  NoNewPermit(c)
BY DEF NoNewPermit

(* Steps that leave the permits, the locks and the policies alone.          *)
LEMMA QuietKeeps ==
  ASSUME ClockedInv, AdmissionInv, UNCHANGED <<running, db, policy, permit, admitting>>,
         \A q \in Request : request'[q].began <= now',
         \A q \in Request : request'[q].pc = "admitting" => request'[q] = request[q]
  PROVE  AdmissionInv'
<1>1. AdmissionTypes'
  BY DEF AdmissionInv, AdmissionTypes, Given
<1>2. ASSUME NEW r \in Request, request'[r].pc = "admitting"
      PROVE  CountStands(r)'
  <2>1. request'[r] = request[r] /\ request[r].pc = "admitting"
    BY <1>2
  <2>2. admitting[request[r].client] = r
    BY <2>1 DEF AdmissionInv, CountStands
  <2> QED
    BY <2>1, <2>2, StillAdmitting, SamePermits
<1>3. \A r \in Request : CountStands(r)'
  BY <1>2 DEF CountStands
<1> QED
  BY <1>1, <1>3 DEF AdmissionInv

LEMMA AdministratorLetsIn ==
  ASSUME ClockedInv, AdmissionInv, Administrator
  PROVE  AdmissionInv'
<1>1. UNCHANGED <<running, db, policy, permit, admitting, request, now>>
  BY DEF Administrator, CreateClient, RotateClient, RevokeClient, UpdateClient, ReadForUpdate,
         tables
<1> QED
  BY <1>1, QuietKeeps, AdmissionNumbers

LEMMA TickLetsIn ==
  ASSUME ClockedInv, AdmissionInv, Tick
  PROVE  AdmissionInv'
<1>1. UNCHANGED <<running, db, policy, permit, admitting, request>> /\ now' = now + 1
  BY DEF Tick, tables
<1>2. \A q \in Request : request'[q].began <= now'
  BY <1>1, AdmissionNumbers
<1> QED
  BY <1>1, <1>2, QuietKeeps

(* A transaction that commits waits for the rows that admissions hold.      *)
LEMMA CommitSpares ==
  ASSUME ClockedInv, AdmissionInv, CommitDelta
  PROVE  /\ policy' \in [Client -> Policy]
         /\ \A c \in Client : admitting[c] # NoRequest =>
              db'[c].state = db[c].state /\ policy'[c] = policy[c]
<1>1. policy \in [Client -> Policy] /\ pending \in Mutation
  BY DEF AdmissionInv, AdmissionTypes, ClockedInv, ClientInv, ShapeInv, CoreTypes
<1>2. policy' = [c \in Client |-> IF c = pending.client THEN Patched(policy[c], pending.policy)
                                  ELSE policy[c]]
  BY DEF CommitDelta
<1>3. \A c \in Client : Patched(policy[c], pending.policy) \in Policy /\ policy[c] \in Policy
  BY <1>1, MutationsPatch
<1>4. policy' \in [Client -> Policy]
  BY <1>2, <1>3
<1>5. ASSUME NEW c \in Client, admitting[c] # NoRequest
      PROVE  db'[c].state = db[c].state /\ policy'[c] = policy[c]
  <2>1. c \notin Touched
    BY <1>5 DEF CommitDelta, RowsFree
  <2>2. memory[c] = previous[c] /\ (c = pending.client => pending.policy = NoPatch)
    BY <2>1 DEF Touched, PolicyWritten
  <2>3. db'[c].state = db[c].state
    BY <2>2, RowAfter DEF ClockedInv, ClientInv
  <2>4. policy'[c] = policy[c]
    BY <1>1, <1>2, <2>2, PatchOfNone
  <2> QED
    BY <2>3, <2>4
<1> QED
  BY <1>4, <1>5

(* The mutation ends; the handler it belongs to is not admitting.           *)
LEMMA SettlingLetsIn ==
  ASSUME ClockedInv, AdmissionInv, CommitDelta \/ UNCHANGED tables,
         NEW pc \in {"serving", "closing"}, RequestGoes(pc),
         UNCHANGED <<running, permit, admitting, now>>
  PROVE  AdmissionInv'
<1>1. /\ request \in [Request -> Handling]
      /\ \A q \in Request : request[q].began \in Nat /\ request[q].began <= now
  BY AdmissionNumbers
<1>2. /\ \A q \in Request : request'[q].began = request[q].began
      /\ \A q \in Request : request'[q].pc = "admitting" => request'[q] = request[q]
  <2>1. ASSUME NEW q \in Request
        PROVE  /\ request'[q].began = request[q].began
               /\ request'[q].pc = "admitting" => request'[q] = request[q]
    <3>1. request[q] \in Handling
      BY <1>1
    <3>2. /\ [request[q] EXCEPT !.pc = pc].began = request[q].began
          /\ [request[q] EXCEPT !.pc = pc].pc = pc
      BY <3>1 DEF Handling
    <3> QED
      BY <3>2 DEF RequestGoes
  <2> QED
    BY <2>1
<1>3. /\ policy' \in [Client -> Policy]
      /\ \A c \in Client : admitting[c] # NoRequest =>
           db'[c].state = db[c].state /\ policy'[c] = policy[c]
  BY CommitSpares DEF tables, AdmissionInv, AdmissionTypes
<1>4. AdmissionTypes'
  BY <1>1, <1>2, <1>3 DEF AdmissionInv, AdmissionTypes, Given
<1>5. ASSUME NEW r \in Request, request'[r].pc = "admitting"
      PROVE  CountStands(r)'
  <2>1. request'[r] = request[r] /\ request[r].pc = "admitting"
    BY <1>2, <1>5
  <2>2. admitting[request[r].client] = r /\ request[r].client \in Client
    BY <2>1, AdmissionNumbers DEF AdmissionInv, CountStands
  <2>3. /\ db'[request[r].client].state = db[request[r].client].state
        /\ policy'[request[r].client] = policy[request[r].client]
    BY <1>3, <2>2, ClientsAssumption
  <2> QED
    BY <2>1, <2>2, <2>3, StillAdmitting, SamePermits
<1>6. \A r \in Request : CountStands(r)'
  BY <1>5 DEF CountStands
<1> QED
  BY <1>4, <1>6 DEF AdmissionInv

LEMMA MutationEndLetsIn ==
  ASSUME ClockedInv, AdmissionInv, Acknowledged \/ Failed \/ Cancelled
  PROVE  AdmissionInv'
<1>1. /\ CommitDelta \/ UNCHANGED tables
      /\ UNCHANGED <<running, permit, admitting, now>>
      /\ \E pc \in {"serving", "closing"} : RequestGoes(pc)
  BY DEF Acknowledged, Failed, Cancelled
<1> QED
  BY <1>1, SettlingLetsIn

-----------------------------------------------------------------------------
(* The handler of one request *)

(* r moves on; no other transaction loses its lock or its count.            *)
LEMMA OneMoves ==
  ASSUME ClockedInv, AdmissionInv, NEW r \in Request, NEW h \in Handling,
         request' = [request EXCEPT ![r] = h], h.began <= now,
         UNCHANGED <<running, db, policy, now>>,
         permit' \in [Request -> Permit], IsFiniteSet(Given)',
         admitting' \in [Client -> Request \cup {NoRequest}],
         \A q \in Request \ {r} : request[q].pc = "admitting" =>
            admitting'[request[q].client] = q /\ NoNewPermit(request[q].client),
         CountStands(r)'
  PROVE  AdmissionInv'
<1>1. /\ request \in [Request -> Handling] /\ request'[r] = h
      /\ \A q \in Request \ {r} : request'[q] = request[q]
      /\ \A q \in Request : request[q].began <= now
  BY AdmissionNumbers
<1>2. AdmissionTypes'
  BY <1>1 DEF AdmissionInv, AdmissionTypes
<1>3. ASSUME NEW q \in Request \ {r}, request'[q].pc = "admitting"
      PROVE  CountStands(q)'
  <2>1. request'[q] = request[q] /\ request[q].pc = "admitting"
    BY <1>1, <1>3
  <2> QED
    BY <2>1, StillAdmitting
<1>4. \A q \in Request : CountStands(q)'
  BY <1>3 DEF CountStands
<1> QED
  BY <1>2, <1>4 DEF AdmissionInv

(* r moves on without permit or lock changing hands.                        *)
LEMMA OneMovesQuietly ==
  ASSUME ClockedInv, AdmissionInv, NEW r \in Request, NEW h \in Handling,
         request' = [request EXCEPT ![r] = h], h.began <= now, h.pc # "admitting",
         UNCHANGED <<running, db, policy, permit, admitting, now>>
  PROVE  AdmissionInv'
<1>1. /\ request \in [Request -> Handling] /\ request'[r] = h
      /\ \A q \in Request \ {r} : request'[q] = request[q]
      /\ \A q \in Request : request[q].began <= now
  BY AdmissionNumbers
<1>2. \A q \in Request : /\ request'[q].began <= now'
                         /\ request'[q].pc = "admitting" => request'[q] = request[q]
  BY <1>1
<1> QED
  BY <1>2, QuietKeeps

LEMMA FinishedIsHandling ==
  ASSUME ClockedInv
  PROVE  Finished \in Handling /\ Finished.pc = "done" /\ Finished.began <= now
BY DEF Finished, Handling, ClockedInv

LEMMA QuietHandlers ==
  ASSUME ClockedInv, AdmissionInv, NEW r \in Request,
         Authorize(r) \/ BeginAdmission(r) \/ RecordUse(r) \/ RequestEnds(r)
  PROVE  AdmissionInv'
<1>1. UNCHANGED <<running, db, policy, permit, admitting, now>>
  BY DEF Authorize, BeginAdmission, RecordUse, RequestEnds, tables
<1>2. request \in [Request -> Handling] /\ now \in Nat /\ request[r].began <= now
      /\ request[r].began \in Nat
  BY AdmissionNumbers
<1>3. CASE Authorize(r)
  <2>1. PICK c \in Client : \E token \in 1 .. issued[c] :
          request' = [request EXCEPT ![r] = [pc |-> "authorized", client |-> c, token |-> token,
                                             began |-> 0]]
    BY <1>3 DEF Authorize
  <2>2. PICK token \in 1 .. issued[c] :
          request' = [request EXCEPT ![r] = [pc |-> "authorized", client |-> c, token |-> token,
                                             began |-> 0]]
    BY <2>1
  <2>3. token \in Nat
    BY <2>2 DEF ClockedInv, ClientInv, ShapeInv, CoreTypes
  <2> DEFINE h == [pc |-> "authorized", client |-> c, token |-> token, began |-> 0]
  <2>4. h \in Handling /\ h.pc = "authorized" /\ h.began <= now
    BY <1>2, <2>3 DEF Handling
  <2>5. request' = [request EXCEPT ![r] = h]
    BY <2>2
  <2> HIDE DEF h
  <2> QED
    BY <1>1, <2>4, <2>5, OneMovesQuietly
<1>4. CASE BeginAdmission(r)
  <2> DEFINE h == [request[r] EXCEPT !.pc = "queued", !.token = 0, !.began = now]
  <2>0. request[r] \in Handling /\ now <= now
    BY <1>2
  <2>1. h \in Handling /\ h.pc = "queued" /\ h.began = now
    BY <1>2, <2>0 DEF Handling
  <2>2. request' = [request EXCEPT ![r] = h]
    BY <1>2, <1>4 DEF BeginAdmission
  <2> HIDE DEF h
  <2> QED
    BY <1>1, <2>0, <2>1, <2>2, OneMovesQuietly
<1>5. ASSUME Goto(r, "closing")
      PROVE  AdmissionInv'
  <2> DEFINE h == [request[r] EXCEPT !.pc = "closing"]
  <2>1. h \in Handling /\ h.pc = "closing" /\ h.began <= now
    BY <1>2 DEF Handling
  <2>2. request' = [request EXCEPT ![r] = h]
    BY <1>2, <1>5 DEF Goto
  <2> HIDE DEF h
  <2> QED
    BY <1>1, <2>1, <2>2, OneMovesQuietly
<1>6. ASSUME request' = [request EXCEPT ![r].pc = "recording", ![r].token = 0]
      PROVE  AdmissionInv'
  <2> DEFINE h == [request[r] EXCEPT !.pc = "recording", !.token = 0]
  <2>1. h \in Handling /\ h.pc = "recording" /\ h.began <= now
    BY <1>2 DEF Handling
  <2>2. request' = [request EXCEPT ![r] = h]
    BY <1>2, <1>6
  <2> HIDE DEF h
  <2> QED
    BY <1>1, <2>1, <2>2, OneMovesQuietly
<1> QED
  BY <1>3, <1>4, <1>5, <1>6 DEF RecordUse, RequestEnds

(* The counts were taken under the lock that r now holds.                   *)
LEMMA LockLetsIn ==
  ASSUME ClockedInv, AdmissionInv, NEW r \in Request, LockAndCount(r)
  PROVE  AdmissionInv'
<1>1. UNCHANGED <<db, policy, permit, now>> /\ running /\ running'
  BY DEF LockAndCount, tables
<1>2. /\ request \in [Request -> Handling] /\ now \in Nat /\ request[r].began <= now
      /\ request[r].began \in Nat /\ request[r].pc = "queued"
  BY AdmissionNumbers DEF LockAndCount
<1>3. request[r].client \in Client
  BY <1>2 DEF ClockedInv, ClientInv, ShapeInv, EntrantsNameClients
<1>4. CASE Finish(r) /\ UNCHANGED admitting
  BY <1>1, <1>4, FinishedIsHandling, OneMovesQuietly DEF Finish
<1>5. CASE /\ Goto(r, "admitting") /\ Lockable(request[r].client)
           /\ admitting' = [admitting EXCEPT ![request[r].client] = r]
           /\ PolicyAdmits(r, request[r].client)
  <2> DEFINE h == [request[r] EXCEPT !.pc = "admitting"]
  <2>1. h \in Handling /\ h.pc = "admitting" /\ h.began = request[r].began
        /\ h.client = request[r].client
    BY <1>2 DEF Handling
  <2>2. request' = [request EXCEPT ![r] = h]
    BY <1>2, <1>5 DEF Goto
  <2> HIDE DEF h
  <2>3. /\ admitting' \in [Client -> Request \cup {NoRequest}]
        /\ admitting'[request[r].client] = r
        /\ \A q \in Request \ {r} : request[q].pc = "admitting" =>
             admitting'[request[q].client] = q
    BY <1>3, <1>5, ClientsAssumption, AdmissionNumbers
       DEF Lockable, AdmissionInv, AdmissionTypes, CountStands
  <2>4. Stands(r, request[r].client, request[r].began)
    <3>1. policy[request[r].client] \in Policy
      BY <1>3 DEF AdmissionInv, AdmissionTypes
    <3>2. policy[request[r].client].expires_at \in Limit
      BY <3>1, PolicyFields
    <3>3. ~Expired(policy[request[r].client], request[r].began)
      BY <1>2, <1>5, <3>2 DEF PolicyAdmits, Unusable, Expired, Limit
    <3> QED
      BY <1>5, <3>3 DEF PolicyAdmits, Unusable, Stands
  <2>5. request'[r].client = request[r].client /\ request'[r].began = request[r].began
    BY <1>2, <2>1, <2>2
  <2>6. CountStands(r)'
    BY <1>1, <2>3, <2>4, <2>5 DEF CountStands, Stands, PermitsSince, Unreleased, Expired
  <2>7. permit' \in [Request -> Permit] /\ IsFiniteSet(Given)'
    BY <1>1 DEF AdmissionInv, AdmissionTypes, Given
  <2> QED
    BY <1>1, <1>2, <2>1, <2>2, <2>3, <2>6, <2>7, OneMoves, SamePermits
<1> QED
  BY <1>4, <1>5 DEF LockAndCount

(* The lock of r goes; the others hold locks of other clients.              *)
LEMMA OthersKeepLocks ==
  ASSUME ClockedInv, AdmissionInv, NEW r \in Request, request[r].pc = "admitting",
         Unlock(request[r].client)
  PROVE  /\ admitting' \in [Client -> Request \cup {NoRequest}]
         /\ \A q \in Request \ {r} : request[q].pc = "admitting" =>
              /\ admitting'[request[q].client] = q
              /\ request[q].client # request[r].client
BY AdmissionNumbers DEF AdmissionInv, AdmissionTypes, CountStands, Unlock

LEMMA FailureLetsIn ==
  ASSUME ClockedInv, AdmissionInv, NEW r \in Request, AdmissionFails(r)
  PROVE  AdmissionInv'
<1>1. UNCHANGED <<running, db, policy, permit, now>> /\ Finish(r)
  BY DEF AdmissionFails, tables
<1>2. request \in [Request -> Handling] /\ request'[r] = Finished
  BY <1>1, AdmissionNumbers DEF Finish
<1>3. /\ admitting' \in [Client -> Request \cup {NoRequest}]
      /\ \A q \in Request \ {r} : request[q].pc = "admitting" =>
           admitting'[request[q].client] = q
  <2>1. CASE request[r].pc = "admitting" /\ Unlock(request[r].client)
    BY <2>1, OthersKeepLocks
  <2>2. CASE UNCHANGED admitting
    BY <2>2 DEF AdmissionInv, AdmissionTypes, CountStands
  <2> QED
    BY <2>1, <2>2 DEF AdmissionFails
<1>4. permit' \in [Request -> Permit] /\ IsFiniteSet(Given)'
  BY <1>1 DEF AdmissionInv, AdmissionTypes, Given
<1>5. CountStands(r)'
  BY <1>2, FinishedIsHandling DEF CountStands
<1> QED
  BY <1>1, <1>3, <1>4, <1>5, OneMoves, FinishedIsHandling, SamePermits DEF Finish

(* A permit that is released counts less than before.                       *)
LEMMA ReleaseCountsLess ==
  ASSUME ClockedInv, AdmissionInv, NEW r \in Request,
         NEW state \in {"none", "held", "orphaned", "released"},
         permit' = [permit EXCEPT ![r].state = state],
         state # "none" => permit[r].state # "none",
         state \in {"held", "orphaned"} => permit[r].state \in {"held", "orphaned"}
  PROVE  /\ permit' \in [Request -> Permit] /\ IsFiniteSet(Given)'
         /\ \A c \in Client : NoNewPermit(c)
<1>1. permit \in [Request -> Permit] /\ IsFiniteSet(Given)
  BY DEF AdmissionInv, AdmissionTypes
<1>2. /\ permit' \in [Request -> Permit]
      /\ \A q \in Request : /\ permit'[q].client = permit[q].client
                            /\ permit'[q].at = permit[q].at
                            /\ q # r => permit'[q].state = permit[q].state
      /\ permit'[r].state = state
  BY <1>1 DEF Permit
<1>3. Given' \subseteq Given
  BY <1>2 DEF Given
<1>4. IsFiniteSet(Given)'
  BY <1>1, <1>3, FS_Subset
<1>5. \A c \in Client : NoNewPermit(c)
  BY <1>2 DEF NoNewPermit
<1> QED
  BY <1>2, <1>4, <1>5

LEMMA ReleaseLetsIn ==
  ASSUME ClockedInv, AdmissionInv, NEW r \in Request, ReleasePermit(r) \/ ReleaseOrphan(r)
  PROVE  AdmissionInv'
<1>1. UNCHANGED <<running, db, policy, admitting, now>> /\ permit \in [Request -> Permit]
  BY DEF ReleasePermit, ReleaseOrphan, tables, AdmissionInv, AdmissionTypes
<1>2. /\ permit' \in [Request -> Permit] /\ IsFiniteSet(Given)'
      /\ \A c \in Client : NoNewPermit(c)
  <2>1. \E state \in {"none", "held", "orphaned", "released"} :
          /\ permit' = [permit EXCEPT ![r].state = state]
          /\ state # "none" => permit[r].state # "none"
          /\ state \in {"held", "orphaned"} => permit[r].state \in {"held", "orphaned"}
    <3>1. CASE ReleasePermit(r) /\ permit[r].state = "held"
      BY <3>1 DEF ReleasePermit
    <3>2. CASE ReleasePermit(r) /\ permit[r].state # "held"
      <4>1. permit' = [permit EXCEPT ![r].state = permit[r].state]
        BY <3>2 DEF ReleasePermit
      <4>2. permit[r].state \in {"none", "held", "orphaned", "released"}
        BY <1>1 DEF Permit
      <4> QED
        BY <4>1, <4>2
    <3>3. CASE ReleaseOrphan(r)
      BY <3>3 DEF ReleaseOrphan
    <3> QED
      BY <3>1, <3>2, <3>3
  <2> QED
    BY <2>1, ReleaseCountsLess
<1>3. request \in [Request -> Handling]
      /\ \A q \in Request : request[q].pc = "admitting" =>
            request[q].client \in Client /\ admitting[request[q].client] = q
  BY AdmissionNumbers DEF AdmissionInv, CountStands
<1>4. \A q \in Request : request[q].pc = "admitting" =>
        admitting'[request[q].client] = q /\ NoNewPermit(request[q].client)
  BY <1>1, <1>2, <1>3
<1>5. admitting' \in [Client -> Request \cup {NoRequest}]
  BY <1>1 DEF AdmissionInv, AdmissionTypes
<1>6. CASE ReleasePermit(r)
  <2>1. Finish(r)
    BY <1>6 DEF ReleasePermit
  <2>2. CountStands(r)'
    BY <1>3, <2>1, FinishedIsHandling DEF CountStands, Finish
  <2> QED
    BY <1>1, <1>2, <1>4, <1>5, <2>1, <2>2, OneMoves, FinishedIsHandling DEF Finish
<1>7. CASE ReleaseOrphan(r)
  <2>1. request' = [request EXCEPT ![r] = request[r]] /\ request'[r] = request[r]
    BY <1>3, <1>7 DEF ReleaseOrphan
  <2>2. CountStands(r)'
    <3>1. CASE request[r].pc = "admitting"
      BY <1>1, <1>4, <2>1, <3>1, StillAdmitting
    <3>2. CASE request[r].pc # "admitting"
      BY <2>1, <3>2 DEF CountStands
    <3> QED
      BY <3>1, <3>2
  <2>3. request[r] \in Handling /\ request[r].began <= now
    BY AdmissionNumbers
  <2> QED
    BY <1>1, <1>2, <1>4, <1>5, <2>1, <2>2, <2>3, OneMoves
<1> QED
  BY <1>6, <1>7

(* The insert counts for the client of r alone, which nobody else holds.    *)
LEMMA InsertLetsIn ==
  ASSUME ClockedInv, AdmissionInv, NEW r \in Request, InsertPermit(r)
  PROVE  AdmissionInv'
<1>1. /\ UNCHANGED <<running, db, policy, now>> /\ request[r].pc = "admitting"
      /\ Unlock(request[r].client)
      /\ permit' = [permit EXCEPT ![r] = [state |-> "held", client |-> request[r].client,
                                          at |-> request[r].began]]
  BY DEF InsertPermit, tables
<1>2. /\ request \in [Request -> Handling] /\ now \in Nat /\ 0 <= now
      /\ request[r].client \in Client /\ request[r].began \in Nat
      /\ permit \in [Request -> Permit] /\ IsFiniteSet(Given)
  BY <1>1, AdmissionNumbers DEF AdmissionInv, AdmissionTypes
<1>3. /\ permit' \in [Request -> Permit]
      /\ permit'[r].client = request[r].client
      /\ \A q \in Request \ {r} : permit'[q] = permit[q]
  BY <1>1, <1>2 DEF Permit
<1>4. IsFiniteSet(Given)'
  <2>1. Given' = Given \cup {r}
    BY <1>1, <1>2, <1>3 DEF Given
  <2> QED
    BY <1>2, <2>1, FS_AddElement
<1>5. /\ admitting' \in [Client -> Request \cup {NoRequest}]
      /\ \A q \in Request \ {r} : request[q].pc = "admitting" =>
           /\ admitting'[request[q].client] = q
           /\ NoNewPermit(request[q].client)
  <2>1. \A c \in Client : c # request[r].client => NoNewPermit(c)
    BY <1>3 DEF NoNewPermit
  <2> QED
    BY <1>1, <2>1, OthersKeepLocks, AdmissionNumbers
<1>6. PICK h \in Handling : /\ request' = [request EXCEPT ![r] = h]
                            /\ h.began <= now /\ h.pc # "admitting"
  <2>1. CASE Finish(r)
    BY <2>1, FinishedIsHandling DEF Finish
  <2>2. CASE request' = [request EXCEPT ![r].pc = "admitted", ![r].began = 0]
    <3> DEFINE h == [request[r] EXCEPT !.pc = "admitted", !.began = 0]
    <3>1. h \in Handling /\ h.pc = "admitted" /\ h.began = 0
      BY <1>2 DEF Handling
    <3>2. request' = [request EXCEPT ![r] = h]
      BY <1>2, <2>2
    <3> HIDE DEF h
    <3> QED
      BY <1>2, <3>1, <3>2
  <2> QED
    BY <2>1, <2>2 DEF InsertPermit
<1>7. CountStands(r)'
  BY <1>2, <1>6 DEF CountStands
<1> QED
  BY <1>1, <1>3, <1>4, <1>5, <1>6, <1>7, OneMoves

-----------------------------------------------------------------------------
(* The process *)

LEMMA CrashLetsIn ==
  ASSUME ClockedInv, AdmissionInv, Crash
  PROVE  AdmissionInv'
<1>1. /\ request \in [Request -> Handling] /\ now \in Nat
      /\ \A q \in Request : request[q].began <= now
      /\ permit \in [Request -> Permit] /\ IsFiniteSet(Given) /\ policy \in [Client -> Policy]
  BY AdmissionNumbers DEF AdmissionInv, AdmissionTypes
<1>2. now' = now
  BY DEF Crash
<1>3. policy' \in [Client -> Policy]
  BY <1>1, CommitSpares DEF Crash, tables
<1>4. /\ \A q \in Request : request'[q].began <= now'
      /\ \A q \in Request : request'[q].pc # "admitting"
  BY <1>1, <1>2, FinishedIsHandling DEF Crash
<1>5. /\ permit' \in [Request -> Permit] /\ IsFiniteSet(Given)'
  <2>1. /\ permit' \in [Request -> Permit]
        /\ \A q \in Request : permit'[q].state # "none" => permit[q].state # "none"
    BY <1>1 DEF Crash, Permit
  <2>2. Given' \subseteq Given
    BY <2>1 DEF Given
  <2> QED
    BY <1>1, <2>1, <2>2, FS_Subset
<1>6. admitting' \in [Client -> Request \cup {NoRequest}]
  BY DEF Crash
<1> QED
  BY <1>3, <1>4, <1>5, <1>6 DEF AdmissionInv, AdmissionTypes, CountStands

LEMMA OpenLetsIn ==
  ASSUME ClockedInv, AdmissionInv, Open
  PROVE  AdmissionInv'
<1>1. UNCHANGED <<policy, request, permit, admitting, now>> /\ ~running
  BY DEF Open
<1>2. \A q \in Request : request'[q].pc # "admitting"
  BY <1>1 DEF AdmissionInv, CountStands
<1> QED
  BY <1>1, <1>2 DEF AdmissionInv, AdmissionTypes, CountStands, Given

-----------------------------------------------------------------------------
(* The invariant of the clock, the credentials and the admissions *)

PolicyInv == ClockedInv /\ AdmissionInv

LEMMA PolicyInitHolds ==
  Init => PolicyInv
<1> SUFFICES ASSUME Init PROVE PolicyInv
  OBVIOUS
<1>1. NoLimits \in Policy
  BY DEF NoLimits, Policy, Limit
<1>2. Given = {}
  BY DEF Init, Given
<1>3. IsFiniteSet(Given)
  BY <1>2, FS_EmptySet
<1>4. AdmissionTypes
  BY <1>1, <1>3 DEF Init, AdmissionTypes, Permit
<1>5. \A r \in Request : CountStands(r)
  BY DEF Init, CountStands
<1> QED
  BY <1>4, <1>5, InitHolds DEF PolicyInv, AdmissionInv

LEMMA PolicyStepKeeps ==
  PolicyInv /\ [Next]_vars => PolicyInv'
<1> SUFFICES ASSUME ClockedInv, AdmissionInv, [Next]_vars PROVE AdmissionInv'
  BY StepKeeps DEF PolicyInv
<1>1. CASE Administrator
  BY <1>1, AdministratorLetsIn
<1>2. ASSUME NEW r \in Request, Handler(r)
      PROVE  AdmissionInv'
  BY <1>2, QuietHandlers, LockLetsIn, InsertLetsIn, FailureLetsIn, ReleaseLetsIn DEF Handler
<1>3. CASE Acknowledged \/ Failed \/ Cancelled
  BY <1>3, MutationEndLetsIn
<1>4. CASE Crash \/ Open \/ Tick
  BY <1>4, CrashLetsIn, OpenLetsIn, TickLetsIn
<1>5. CASE UNCHANGED vars
  <2>1. UNCHANGED <<running, db, policy, permit, admitting, request, now>>
    BY <1>5 DEF vars, tables
  <2> QED
    BY <2>1, QuietKeeps, AdmissionNumbers
<1> QED
  BY <1>1, <1>2, <1>3, <1>4, <1>5 DEF Next

LEMMA PolicyInvariantHolds ==
  Spec => []PolicyInv
<1> QED
  BY PolicyInitHolds, PolicyStepKeeps, PTL DEF Spec

(* Every variable of the credentials keeps its type, policies whatever is   *)
(* patched and permits whatever crashes included.                           *)
THEOREM TypeCorrect ==
  Spec => []TypeOK
<1>1. PolicyInv => TypeOK
  BY DEF PolicyInv, ClockedInv, ClientInv, ShapeInv, CoreTypes, AdmissionInv, AdmissionTypes,
         TypeOK
<1> QED
  BY <1>1, PolicyInvariantHolds, PTL

(* A permit appears only by the insert of its own transaction.              *)
LEMMA OnlyInsertsLetIn ==
  ASSUME PolicyInv, [Next]_vars, NEW r \in Request,
         permit[r].state = "none", permit'[r].state # "none"
  PROVE  InsertPermit(r)
<1>1. permit \in [Request -> Permit] /\ permit' # permit
  BY DEF PolicyInv, AdmissionInv, AdmissionTypes
<1>2. ~Administrator
  BY <1>1 DEF Administrator, CreateClient, RotateClient, RevokeClient, UpdateClient, ReadForUpdate
<1>3. ~(Acknowledged \/ Failed \/ Cancelled \/ Open \/ Tick \/ UNCHANGED vars)
  BY <1>1 DEF Acknowledged, Failed, Cancelled, Open, Tick, vars
<1>4. ~Crash
  BY DEF Crash
<1>5. ASSUME NEW q \in Request, Handler(q)
      PROVE  InsertPermit(r)
  <2>1. InsertPermit(q) \/ ReleasePermit(q) \/ ReleaseOrphan(q)
    BY <1>1, <1>5 DEF Handler, Authorize, BeginAdmission, LockAndCount, AdmissionFails, RecordUse,
                      RequestEnds
  <2>2. ~ReleasePermit(q) /\ ~ReleaseOrphan(q)
    <3>1. ASSUME permit' = [permit EXCEPT ![q].state = IF @ = "held" THEN "released" ELSE @]
          PROVE  FALSE
      <4>1. permit'[r].state = IF q = r /\ permit[r].state = "held" THEN "released"
                               ELSE permit[r].state
        BY <1>1, <3>1 DEF Permit
      <4> QED
        BY <4>1
    <3>2. ASSUME permit' = [permit EXCEPT ![q].state = "released"], permit[q].state = "orphaned"
          PROVE  FALSE
      <4>1. q # r
        BY <3>2
      <4> QED
        BY <1>1, <3>2, <4>1
    <3> QED
      BY <3>1, <3>2 DEF ReleasePermit, ReleaseOrphan
  <2>3. q = r
    BY <1>1, <2>1, <2>2 DEF InsertPermit
  <2> QED
    BY <2>1, <2>2, <2>3
<1> QED
  BY <1>2, <1>3, <1>4, <1>5 DEF Next

LEMMA OneMoreFits ==
  ASSUME NEW S, NEW T, NEW r, IsFiniteSet(S), T \subseteq S \cup {r}, NEW limit \in Limit,
         Below(Cardinality(S), limit)
  PROVE  WithinLimit(T, limit)
<1>1. /\ IsFiniteSet(S \cup {r}) /\ Cardinality(S) \in Nat
      /\ Cardinality(S \cup {r}) = Cardinality(S) \/ Cardinality(S \cup {r}) = Cardinality(S) + 1
  BY FS_AddElement, FS_CardinalityType
<1>2. IsFiniteSet(T) /\ Cardinality(T) <= Cardinality(S \cup {r})
  BY <1>1, FS_Subset
<1>3. Cardinality(T) \in Nat
  BY <1>2, FS_CardinalityType
<1> QED
  BY <1>1, <1>2, <1>3 DEF Below, WithinLimit, Limit

(* However many admissions, patches, rotations, crashes and minutes pass    *)
(* meanwhile, a permit is inserted only while its client is active and      *)
(* unexpired and has the model allowed, and never beyond the requests per   *)
(* minute and per day and the concurrency of the policy at that moment:     *)
(* acquire_downstream_permit counts and inserts under one lock, and a patch *)
(* of the row waits for it.                                                 *)
THEOREM AdmissionsStayWithinPolicy ==
  Spec => AdmissionsRespectThePolicy
<1> DEFINE Fits(r) ==
      LET c == permit'[r].client
          at == permit'[r].at
          p == policy'[c]
      IN  /\ db'[c].state = "active" /\ ~Expired(p, at)
          /\ p.model_allowlist = Unlimited \/ AskedProfile[r] \in p.model_allowlist
          /\ WithinLimit(PermitsOn(c, at, at), p.rpm_limit)
          /\ WithinLimit(PermitsOn(c, DayStart(at), DayStart(at) + MinutesPerDay - 1),
                         p.request_limit_day)
          /\ WithinLimit({q \in Request : /\ permit'[q].client = c
                                          /\ permit'[q].state \in {"held", "orphaned"}},
                         p.max_concurrency)
<1>1. ASSUME PolicyInv, [Next]_vars, NEW r \in Request,
             permit[r].state = "none", permit'[r].state # "none"
      PROVE  Fits(r)
  <2>1. InsertPermit(r)
    BY <1>1, OnlyInsertsLetIn
  <2>2. PICK c \in Client, at \in Nat : c = request[r].client /\ at = request[r].began
    BY <1>1, <2>1, AdmissionNumbers DEF PolicyInv, InsertPermit
  <2>3. Stands(r, c, at) /\ UNCHANGED <<db, policy>> /\ AdmissionTypes
    BY <1>1, <2>1, <2>2 DEF PolicyInv, AdmissionInv, CountStands, InsertPermit, tables
  <2>4. /\ permit \in [Request -> Permit]
        /\ permit' = [permit EXCEPT ![r] = [state |-> "held", client |-> c, at |-> at]]
    BY <2>1, <2>2, <2>3 DEF InsertPermit, AdmissionTypes
  <2>5. /\ permit'[r].client = c /\ permit'[r].at = at
        /\ \A q \in Request \ {r} : permit'[q] = permit[q]
    BY <2>4
  <2> DEFINE from == DayStart(at)
             today == PermitsOn(c, from, from + MinutesPerDay - 1)
             open == {q \in Request : /\ permit'[q].client = c
                                      /\ permit'[q].state \in {"held", "orphaned"}}
  <2>6. PermitsOn(c, at, at) \subseteq PermitsSince(c, at) \cup {r}
    BY <2>5 DEF PermitsOn, PermitsSince
  <2>7. today \subseteq PermitsSince(c, from) \cup {r}
    <3> HIDE DEF from
    <3> QED
      BY <2>5 DEF PermitsOn, PermitsSince
  <2>8. open \subseteq Unreleased(c) \cup {r}
    BY <2>5 DEF Unreleased
  <2>9. /\ IsFiniteSet(PermitsSince(c, at)) /\ IsFiniteSet(PermitsSince(c, from))
        /\ IsFiniteSet(Unreleased(c))
    BY <2>3, CountedSets DEF AdmissionTypes
  <2>10. /\ policy[c].rpm_limit \in Limit /\ policy[c].request_limit_day \in Limit
         /\ policy[c].max_concurrency \in Limit
    BY <2>3, PolicyFields DEF AdmissionTypes
  <2>11. /\ Below(Cardinality(PermitsSince(c, at)), policy[c].rpm_limit)
         /\ Below(Cardinality(PermitsSince(c, from)), policy[c].request_limit_day)
         /\ Below(Cardinality(Unreleased(c)), policy[c].max_concurrency)
    BY <2>3 DEF Stands
  <2> HIDE DEF from, today, open
  <2>12. WithinLimit(PermitsOn(c, at, at), policy[c].rpm_limit)
    BY <2>6, <2>9, <2>10, <2>11, OneMoreFits
  <2>13. WithinLimit(today, policy[c].request_limit_day)
    BY <2>7, <2>9, <2>10, <2>11, OneMoreFits
  <2>14. WithinLimit(open, policy[c].max_concurrency)
    BY <2>8, <2>9, <2>10, <2>11, OneMoreFits
  <2>15. /\ db'[c].state = "active" /\ ~Expired(policy[c], at)
         /\ policy[c].model_allowlist = Unlimited \/ AskedProfile[r] \in policy[c].model_allowlist
    BY <2>3 DEF Stands
  <2>16. policy'[c] = policy[c]
    BY <2>3
  <2> QED
    BY <2>5, <2>12, <2>13, <2>14, <2>15, <2>16 DEF today, open, from
<1>2. PolicyInv /\ [Next]_vars =>
        [\A r \in Request :
           permit[r].state = "none" /\ permit'[r].state # "none" => Fits(r)]_vars
  BY <1>1
<1> QED
  BY <1>2, PolicyInvariantHolds, PTL DEF Spec, AdmissionsRespectThePolicy

=============================================================================
