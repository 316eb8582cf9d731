-------------------------- MODULE TenantServiceProofs --------------------------
(***************************************************************************)
(* For any tenants, credentials, requests and threads, with shutdowns and  *)
(* crashes between any two steps: tenants stay apart, no store is lost or  *)
(* left in a transaction, and what instruments and audit trails tell is    *)
(* right wherever no call has joined the transaction of another thread.    *)
(*                                                                         *)
(* ServiceOK is about workers, stores and the registry and is inductive by *)
(* itself.  DatabaseOK is about what the transactions make of the files;   *)
(* a step changes them in one of a few ways, and there is a lemma for      *)
(* each.                                                                   *)
(***************************************************************************)
EXTENDS TenantService, FiniteSetTheorems, TLAPS

-----------------------------------------------------------------------------
(* Authentication.                                                         *)

\* A principal is one of a tenant, in a role the key of the request gives.
Admits(request, principal) ==
  /\ principal.tenant \in Tenants
  /\ principal.role \in DOMAIN Scopes
  /\ \/ DevelopmentBypass
     \/ AdminKey # None /\ request.key = AdminKey
     \/ /\ principal.tenant \in DOMAIN Credentials
        /\ request.key = Credentials[principal.tenant].key
        /\ principal.role = Credentials[principal.tenant].role

LEMMA AuthenticateAdmits ==
  ASSUME NEW request, Authenticate(request) # Denied
  PROVE  Admits(request, Authenticate(request))
<1> DEFINE spelled == OrElse(request.tenant, DefaultTenant)
           tenant == Normalized[spelled]
<1>1. spelled \in DOMAIN Normalized /\ tenant \in Tenants
  BY DEF Authenticate, Tenants
<1>2. CASE AdminKey # None /\ request.key = AdminKey
  <2>1. Authenticate(request) =
          PrincipalAs(tenant, OrElse(request.actor, "platform-admin"),
                      "platform_admin")
    BY <1>1, <1>2 DEF Authenticate
  <2> QED
    BY <2>1, <1>1, <1>2 DEF PrincipalAs, Admits, Scopes
<1>3. CASE ~(AdminKey # None /\ request.key = AdminKey)
           /\ HoldsKey(tenant, request.key)
  <2>1. Authenticate(request) =
          PrincipalAs(tenant, OrElse(Credentials[tenant].actor, request.actor),
                      Credentials[tenant].role)
    BY <1>1, <1>3 DEF Authenticate
  <2>2. Credentials[tenant].role \in DOMAIN Scopes
    BY <1>3, ServiceAssumption DEF ServiceAssumption, HoldsKey
  <2> QED
    BY <2>1, <2>2, <1>1, <1>3 DEF PrincipalAs, Admits, HoldsKey
<1>4. CASE ~(AdminKey # None /\ request.key = AdminKey)
           /\ ~HoldsKey(tenant, request.key)
  <2>1. DevelopmentBypass
    BY <1>1, <1>4 DEF Authenticate
  <2>2. Authenticate(request) =
          PrincipalAs(tenant, OrElse(request.actor, "development"),
                      "platform_admin")
    BY <1>1, <1>4, <2>1 DEF Authenticate
  <2> QED
    BY <2>1, <2>2, <1>1 DEF PrincipalAs, Admits, Scopes
<1> QED
  BY <1>2, <1>3, <1>4

\* The roles that may write instruments, and those that may read content.
LEMMA RolesOfScopes ==
  ASSUME NEW principal, principal.role \in DOMAIN Scopes
  PROVE  /\ Authorized(principal, "instrument:write") =>
              principal.role \in {"data_ingestor", "tenant_admin", "platform_admin"}
         /\ Authorized(principal, "evidence:content:read") =>
              principal.role \in {"reviewer", "tenant_admin", "platform_admin"}
  BY DEF Authorized, Scopes, Reading, Analyzing, Ingesting, Reviewing

\* Each tenant has a file of its own.
LEMMA PathsApart ==
  ASSUME NEW t \in Tenants, NEW u \in Tenants, PathForTenant(t) = PathForTenant(u)
  PROVE  t = u
  BY DEF PathForTenant

-----------------------------------------------------------------------------
(* Workers, stores and the registry.                                       *)

Busy(w) == workers[w] # Idle

\* The request of a worker may do what it asks for.
Allowed(worker) ==
  /\ worker.principal # Denied
  /\ Authorized(worker.principal, Scope(worker.request.operation))

Contents(tenant) == {Evidence[tenant][id] : id \in DOMAIN Evidence[tenant]}

IsWorker(x) ==
  x = [stage |-> x.stage, status |-> x.status, number |-> x.number,
       request |-> x.request, principal |-> x.principal, store |-> x.store,
       result |-> x.result, todo |-> x.todo, joined |-> x.joined]

\* The content a worker has read, or has answered with.
HasContent(worker) ==
  /\ worker.request.operation.kind = "content"
  /\ \/ worker.stage \in {"read", "appending", "leaving"}
     \/ worker.stage = "answered" /\ worker.status = 200

\* What a worker is doing, it may do, on a store of its principal's tenant.
WorkerOK(worker) ==
  /\ IsWorker(worker)
  /\ worker.stage # "idle"
  /\ worker.request \in Requests
  /\ worker.principal = Authenticate(worker.request)
  /\ worker.number \in 1..served
  /\ worker.stage # "answered" => Allowed(worker)
  /\ worker.stage = "admitted" => stores[worker.number] = Absent
  /\ worker.stage \notin {"admitted", "answered"} =>
       /\ worker.store \in Stores
       /\ stores[worker.store] # Absent
       /\ stores[worker.store].tenant = worker.principal.tenant
  /\ worker.stage \in {"checking", "naming"} =>
       /\ worker.request.operation.kind = "add"
       /\ worker.todo \subseteq worker.request.operation.instrument.identifiers
  /\ HasContent(worker) =>
       Allowed(worker) /\ worker.result \in Contents(worker.principal.tenant)

WorkersOK ==
  /\ workers \in [Workers -> {workers[w] : w \in Workers}]
  /\ \A w \in Workers : Busy(w) => WorkerOK(workers[w])
  /\ \A w, v \in Workers :
       Busy(w) /\ Busy(v) /\ w # v => workers[w].number # workers[v].number

StoresOK ==
  /\ stores \in [Stores -> [tenant : Tenants, open : BOOLEAN] \union {Absent}]
  /\ \A s \in Stores : stores[s] # Absent => s <= served
  /\ closing \subseteq Stores
  /\ \A s \in closing : stores[s] # Absent
  /\ \A s \in Stores :
       stores[s] # Absent /\ stores[s].open => s \in closing \/ s \in Registered

RegistryOK ==
  /\ registry \in [Tenants -> Stores \union {Absent}]
  /\ \A tenant \in Tenants :
       registry[tenant] # Absent =>
         /\ stores[registry[tenant]] = [tenant |-> tenant, open |-> TRUE]
         /\ registry[tenant] \notin closing

ServiceOK ==
  /\ served \in 0..MaxRequests
  /\ StoresOK
  /\ RegistryOK
  /\ WorkersOK

\* The other workers stay where they are.
MovesOnly(w) ==
  /\ workers' \in [Workers -> {workers'[v] : v \in Workers}]
  /\ \A v \in Workers : v # w => workers'[v] = workers[v]

\* What does not change of a worker that goes on.
SameRequest(x, y) ==
  /\ x.number = y.number
  /\ x.request = y.request
  /\ x.principal = y.principal
  /\ x.store = y.store

\* A busy worker goes on, or answers.
Moves(w) ==
  /\ Busy(w)
  /\ MovesOnly(w)
  /\ WorkerOK(workers'[w])
  /\ SameRequest(workers'[w], workers[w])
  /\ UNCHANGED <<stores, registry, closing, served>>

\* A busy worker that is allowed its request acts for a tenant there is.
LEMMA AllowedTenant ==
  ASSUME NEW worker, worker.principal = Authenticate(worker.request),
         Allowed(worker)
  PROVE  worker.principal.tenant \in Tenants
  BY AuthenticateAdmits DEF Allowed, Admits

\* Where a worker is.
LEMMA WorkerAt ==
  ASSUME ServiceOK, NEW w \in Workers, NEW stage, NEW kinds,
         At(w, stage, kinds) \/ OnOpen(w, stage, kinds)
  PROVE  /\ Busy(w)
         /\ WorkerOK(workers[w])
         /\ IsWorker(workers[w])
         /\ workers[w].stage = stage
         /\ workers[w].request.operation.kind \in kinds
  BY DEF At, OnOpen, Busy, Operation, ServiceOK, WorkersOK, WorkerOK

\* A worker goes on, with a status and a result.
GoesOn(w, stage, status, result) ==
  workers' = [workers EXCEPT ![w].stage = stage, ![w].status = status,
                             ![w].result = result]

LEMMA Going ==
  ASSUME ServiceOK, NEW w \in Workers, IsWorker(workers[w]),
         NEW stage, NEW status, NEW result, GoesOn(w, stage, status, result)
  PROVE  /\ MovesOnly(w)
         /\ IsWorker(workers'[w])
         /\ SameRequest(workers'[w], workers[w])
         /\ workers'[w].stage = stage
         /\ workers'[w].status = status
         /\ workers'[w].result = result
         /\ workers'[w].joined = workers[w].joined
<1>1. workers'[w] = [workers[w] EXCEPT !.stage = stage, !.status = status,
                                       !.result = result]
  BY DEF GoesOn, ServiceOK, WorkersOK
<1>2. MovesOnly(w)
  BY DEF GoesOn, MovesOnly, ServiceOK, WorkersOK
<1>3. workers'[w] =
        [stage |-> stage, status |-> status, number |-> workers[w].number,
         request |-> workers[w].request, principal |-> workers[w].principal,
         store |-> workers[w].store, result |-> result,
         todo |-> workers[w].todo, joined |-> workers[w].joined]
  BY <1>1 DEF IsWorker
<1> QED
  BY <1>2, <1>3 DEF IsWorker, SameRequest

\* An answer that is not the content of evidence.
LEMMA Responding ==
  ASSUME ServiceOK, NEW w \in Workers, Busy(w), NEW status, NEW result,
         Respond(w, status, result),
         \/ status # 200
         \/ workers[w].request.operation.kind # "content",
         UNCHANGED <<stores, registry, closing, served>>
  PROVE  /\ Moves(w)
         /\ workers'[w].stage = "answered"
         /\ workers'[w].status = status
         /\ workers'[w].result = result
         /\ workers'[w].joined = workers[w].joined
<1>1. WorkerOK(workers[w]) /\ IsWorker(workers[w])
  BY DEF ServiceOK, WorkersOK, WorkerOK
<1>2. /\ MovesOnly(w)
      /\ IsWorker(workers'[w])
      /\ SameRequest(workers'[w], workers[w])
      /\ workers'[w].stage = "answered"
      /\ workers'[w].status = status
      /\ workers'[w].result = result
      /\ workers'[w].joined = workers[w].joined
  <2>1. GoesOn(w, "answered", status, result)
    BY DEF Respond, GoesOn
  <2> QED
    BY <2>1, <1>1, Going
<1>3. WorkerOK(workers'[w])
  BY <1>1, <1>2 DEF WorkerOK, HasContent, SameRequest
<1> QED
  BY <1>2, <1>3 DEF Moves

-----------------------------------------------------------------------------
(* How each step moves its worker.                                         *)

LEMMA StartAddMoves ==
  ASSUME ServiceOK, NEW w \in Workers, StartAdd(w)
  PROVE  /\ Moves(w)
         /\ workers[w].stage = "located"
         /\ workers[w].request.operation.kind = "add"
         /\ StoreOf(w).open
         /\ workers'[w].stage = "looking"
         /\ workers'[w].joined = Joined(w)
<1>1. /\ Busy(w) /\ WorkerOK(workers[w]) /\ IsWorker(workers[w])
      /\ workers[w].stage = "located"
      /\ workers[w].request.operation.kind = "add"
      /\ StoreOf(w).open
  BY WorkerAt DEF StartAdd, BeforeAdd, OnOpen
<1>2. workers'[w] = [workers[w] EXCEPT !.stage = "looking", !.joined = Joined(w)]
  BY DEF StartAdd, ServiceOK, WorkersOK
<1>3. MovesOnly(w) /\ UNCHANGED <<stores, registry, closing, served>>
  BY DEF StartAdd, MovesOnly, ServiceOK, WorkersOK, others
<1>4. /\ IsWorker(workers'[w])
      /\ SameRequest(workers'[w], workers[w])
      /\ workers'[w].stage = "looking"
      /\ workers'[w].joined = Joined(w)
  BY <1>1, <1>2 DEF IsWorker, SameRequest
<1>5. WorkerOK(workers'[w])
  BY <1>1, <1>4 DEF WorkerOK, HasContent, SameRequest, Allowed
<1> QED
  BY <1>1, <1>3, <1>4, <1>5 DEF Moves

LEMMA StartEventMoves ==
  ASSUME ServiceOK, NEW w \in Workers, StartEvent(w)
  PROVE  /\ Moves(w)
         /\ \/ workers[w].stage = "naming" /\ workers[w].todo = {}
            \/ /\ workers[w].stage = "read"
               /\ workers[w].request.operation.kind = "content"
         /\ StoreOf(w).open
         /\ workers'[w].stage = "appending"
         /\ workers'[w].joined = Joined(w)
<1>1. /\ Busy(w) /\ WorkerOK(workers[w]) /\ IsWorker(workers[w])
      /\ \/ /\ workers[w].stage = "naming" /\ workers[w].todo = {}
            /\ workers[w].request.operation.kind = "add"
         \/ /\ workers[w].stage = "read"
            /\ workers[w].request.operation.kind = "content"
      /\ StoreOf(w).open
  BY WorkerAt DEF StartEvent, BeforeEvent, OnOpen
<1>2. workers'[w] =
        [workers[w] EXCEPT !.stage = "appending", !.joined = Joined(w)]
  BY DEF StartEvent, ServiceOK, WorkersOK
<1>3. MovesOnly(w) /\ UNCHANGED <<stores, registry, closing, served>>
  BY DEF StartEvent, MovesOnly, ServiceOK, WorkersOK, others
<1>4. /\ IsWorker(workers'[w])
      /\ SameRequest(workers'[w], workers[w])
      /\ workers'[w].stage = "appending"
      /\ workers'[w].joined = Joined(w)
      /\ workers'[w].result = workers[w].result
  BY <1>1, <1>2 DEF IsWorker, SameRequest
<1>5. WorkerOK(workers'[w])
  BY <1>1, <1>4 DEF WorkerOK, HasContent, SameRequest, Allowed
<1> QED
  BY <1>1, <1>3, <1>4, <1>5 DEF Moves

\* The SELECT finds the instrument, or does not, or the call raises.
LEMMA LookUpMoves ==
  ASSUME ServiceOK, NEW w \in Workers, LookUp(w)
  PROVE  /\ workers[w].stage = "looking"
         /\ Moves(w)
         /\ \/ /\ workers'[w].stage = "checking"
               /\ workers'[w].joined = workers[w].joined
               /\ UNCHANGED <<database, joins>>
            \/ /\ workers'[w].stage = IF Owns(w) THEN "leaving" ELSE "executed"
               /\ workers'[w].result = [created |-> FALSE]
               /\ workers[w].request.operation.kind = "add"
               /\ workers'[w].joined = workers[w].joined
               /\ UNCHANGED <<database, joins>>
            \/ Raise(w, 409)
<1> DEFINE instrument == Operation(w).instrument
<1>1. /\ Busy(w) /\ WorkerOK(workers[w]) /\ IsWorker(workers[w])
      /\ workers[w].stage = "looking"
      /\ workers[w].request.operation.kind = "add"
  BY WorkerAt DEF LookUp
<1>2. UNCHANGED <<stores, registry, closing, served>>
  BY DEF LookUp, others
<1>3. CASE /\ workers' = [workers EXCEPT ![w].stage = "checking",
                                         ![w].todo = instrument.identifiers]
           /\ UNCHANGED <<database, joins>>
  <2>1. workers'[w] = [workers[w] EXCEPT !.stage = "checking",
                                         !.todo = instrument.identifiers]
    BY <1>3 DEF ServiceOK, WorkersOK
  <2>2. MovesOnly(w)
    BY <1>3 DEF MovesOnly, ServiceOK, WorkersOK
  <2>3. /\ IsWorker(workers'[w])
        /\ SameRequest(workers'[w], workers[w])
        /\ workers'[w].stage = "checking"
        /\ workers'[w].todo = instrument.identifiers
        /\ workers'[w].joined = workers[w].joined
    BY <1>1, <2>1 DEF IsWorker, SameRequest
  <2>4. WorkerOK(workers'[w])
    BY <1>1, <2>3 DEF WorkerOK, HasContent, SameRequest, Allowed, Operation
  <2> QED
    BY <1>1, <1>2, <1>3, <2>2, <2>3, <2>4 DEF Moves
<1>4. CASE /\ workers' = [workers EXCEPT
                ![w].stage = IF Owns(w) THEN "leaving" ELSE "executed",
                ![w].result = [created |-> FALSE]]
           /\ UNCHANGED <<database, joins>>
  <2>1. workers'[w] = [workers[w] EXCEPT
          !.stage = IF Owns(w) THEN "leaving" ELSE "executed",
          !.result = [created |-> FALSE]]
    BY <1>4 DEF ServiceOK, WorkersOK
  <2>2. MovesOnly(w)
    BY <1>4 DEF MovesOnly, ServiceOK, WorkersOK
  <2>3. /\ IsWorker(workers'[w])
        /\ SameRequest(workers'[w], workers[w])
        /\ workers'[w].stage = IF Owns(w) THEN "leaving" ELSE "executed"
        /\ workers'[w].result = [created |-> FALSE]
        /\ workers'[w].joined = workers[w].joined
    BY <1>1, <2>1 DEF IsWorker, SameRequest
  <2>4. WorkerOK(workers'[w])
    BY <1>1, <2>3 DEF WorkerOK, HasContent, SameRequest, Allowed
  <2> QED
    BY <1>1, <1>2, <1>4, <2>2, <2>3, <2>4 DEF Moves
<1>5. CASE Raise(w, 409)
  BY <1>1, <1>2, <1>5, Responding DEF Raise
<1> QED
  BY <1>3, <1>4, <1>5 DEF LookUp

LEMMA CheckIdentifierMoves ==
  ASSUME ServiceOK, NEW w \in Workers, CheckIdentifier(w)
  PROVE  /\ workers[w].stage = "checking"
         /\ Moves(w)
         /\ \/ /\ workers'[w].stage = "checking"
               /\ workers'[w].joined = workers[w].joined
               /\ UNCHANGED <<database, joins>>
            \/ Raise(w, 409)
<1>1. /\ Busy(w) /\ WorkerOK(workers[w]) /\ IsWorker(workers[w])
      /\ workers[w].stage = "checking"
      /\ workers[w].request.operation.kind = "add"
  BY WorkerAt DEF CheckIdentifier
<1>2. UNCHANGED <<stores, registry, closing, served>>
  BY DEF CheckIdentifier, others
<1>3. ASSUME NEW key, workers' = [workers EXCEPT ![w].todo = @ \ {key}],
             UNCHANGED <<database, joins>>
      PROVE  /\ Moves(w)
             /\ workers'[w].stage = "checking"
             /\ workers'[w].joined = workers[w].joined
  <2>1. workers'[w] = [workers[w] EXCEPT !.todo = @ \ {key}]
    BY <1>3 DEF ServiceOK, WorkersOK
  <2>2. MovesOnly(w)
    BY <1>3 DEF MovesOnly, ServiceOK, WorkersOK
  <2>3. /\ IsWorker(workers'[w])
        /\ SameRequest(workers'[w], workers[w])
        /\ workers'[w].stage = "checking"
        /\ workers'[w].todo = workers[w].todo \ {key}
        /\ workers'[w].joined = workers[w].joined
    BY <1>1, <2>1 DEF IsWorker, SameRequest
  <2>4. WorkerOK(workers'[w])
    BY <1>1, <2>3 DEF WorkerOK, HasContent, SameRequest, Allowed
  <2> QED
    BY <1>1, <1>2, <2>2, <2>3, <2>4 DEF Moves
<1>4. CASE Raise(w, 409)
  BY <1>1, <1>2, <1>4, Responding DEF Raise
<1> QED
  BY <1>1, <1>3, <1>4 DEF CheckIdentifier

\* A refused INSERT raises, or leaves a transaction of nobody's open.
LEMMA InsertRefusedMoves ==
  ASSUME ServiceOK, NEW w \in Workers, Busy(w), InsertRefused(w),
         UNCHANGED others
  PROVE  /\ Moves(w)
         /\ workers'[w].stage = "answered"
         /\ workers'[w].status = 500
<1>1. Respond(w, 500, None) /\ UNCHANGED <<stores, registry, closing, served>>
  BY DEF InsertRefused, Raise, others
<1> QED
  BY <1>1, Responding

LEMMA InsertInstrumentMoves ==
  ASSUME ServiceOK, NEW w \in Workers, InsertInstrument(w)
  PROVE  /\ Moves(w)
         /\ workers[w].stage = "checking"
         /\ workers[w].request.operation.kind = "add"
         /\ StoreOf(w).open
         /\ \/ /\ workers'[w].stage = "naming"
               /\ workers'[w].todo = Operation(w).instrument.identifiers
               /\ workers'[w].joined = workers[w].joined
               /\ MayWrite(w)
               /\ MayAddInstrument(Seen(w).master, Operation(w).instrument)
               /\ Insert(w, [Seen(w) EXCEPT !.master =
                    AddInstrument(Seen(w).master, Operation(w).instrument)])
            \/ InsertRefused(w) /\ UNCHANGED others
<1> DEFINE instrument == Operation(w).instrument
<1>1. /\ Busy(w) /\ WorkerOK(workers[w]) /\ IsWorker(workers[w])
      /\ workers[w].stage = "checking"
      /\ workers[w].request.operation.kind = "add"
      /\ StoreOf(w).open
  BY WorkerAt DEF InsertInstrument, OnOpen
<1>2. UNCHANGED others /\ UNCHANGED <<stores, registry, closing, served>>
  BY DEF InsertInstrument, others
<1>3. CASE /\ MayWrite(w) /\ MayAddInstrument(Seen(w).master, instrument)
           /\ Insert(w, [Seen(w) EXCEPT !.master =
                           AddInstrument(Seen(w).master, instrument)])
           /\ workers' = [workers EXCEPT ![w].stage = "naming",
                                         ![w].todo = instrument.identifiers]
  <2>1. workers'[w] = [workers[w] EXCEPT !.stage = "naming",
                                         !.todo = instrument.identifiers]
    BY <1>3 DEF ServiceOK, WorkersOK
  <2>2. MovesOnly(w)
    BY <1>3 DEF MovesOnly, ServiceOK, WorkersOK
  <2>3. /\ IsWorker(workers'[w])
        /\ SameRequest(workers'[w], workers[w])
        /\ workers'[w].stage = "naming"
        /\ workers'[w].todo = instrument.identifiers
        /\ workers'[w].joined = workers[w].joined
    BY <1>1, <2>1 DEF IsWorker, SameRequest
  <2>4. WorkerOK(workers'[w])
    BY <1>1, <2>3 DEF WorkerOK, HasContent, SameRequest, Allowed, Operation
  <2> QED
    BY <1>1, <1>2, <1>3, <2>2, <2>3, <2>4 DEF Moves
<1>4. CASE InsertRefused(w)
  BY <1>1, <1>2, <1>4, InsertRefusedMoves
<1> QED
  BY <1>3, <1>4 DEF InsertInstrument

LEMMA InsertIdentifierMoves ==
  ASSUME ServiceOK, NEW w \in Workers, InsertIdentifier(w)
  PROVE  /\ Moves(w)
         /\ workers[w].stage = "naming"
         /\ StoreOf(w).open
         /\ \/ \E key \in workers[w].todo :
                 /\ workers'[w].stage = "naming"
                 /\ workers'[w].todo = workers[w].todo \ {key}
                 /\ workers'[w].joined = workers[w].joined
                 /\ MayWrite(w)
                 /\ MayAddIdentifier(Seen(w).master, key,
                                     Operation(w).instrument.id)
                 /\ Insert(w, [Seen(w) EXCEPT !.master =
                      AddIdentifier(Seen(w).master, key,
                                    Operation(w).instrument.id)])
            \/ InsertRefused(w) /\ UNCHANGED others
<1> DEFINE id == Operation(w).instrument.id
<1>1. /\ Busy(w) /\ WorkerOK(workers[w]) /\ IsWorker(workers[w])
      /\ workers[w].stage = "naming"
      /\ StoreOf(w).open
  BY WorkerAt DEF InsertIdentifier, OnOpen
<1>2. UNCHANGED others /\ UNCHANGED <<stores, registry, closing, served>>
  BY DEF InsertIdentifier, others
<1>3. ASSUME NEW key \in workers[w].todo,
             MayWrite(w), MayAddIdentifier(Seen(w).master, key, id),
             Insert(w, [Seen(w) EXCEPT !.master =
                          AddIdentifier(Seen(w).master, key, id)]),
             workers' = [workers EXCEPT ![w].todo = @ \ {key}]
      PROVE  /\ Moves(w)
             /\ workers'[w].stage = "naming"
             /\ workers'[w].todo = workers[w].todo \ {key}
             /\ workers'[w].joined = workers[w].joined
  <2>1. workers'[w] = [workers[w] EXCEPT !.todo = @ \ {key}]
    BY <1>3 DEF ServiceOK, WorkersOK
  <2>2. MovesOnly(w)
    BY <1>3 DEF MovesOnly, ServiceOK, WorkersOK
  <2>3. /\ IsWorker(workers'[w])
        /\ SameRequest(workers'[w], workers[w])
        /\ workers'[w].stage = "naming"
        /\ workers'[w].todo = workers[w].todo \ {key}
        /\ workers'[w].joined = workers[w].joined
    BY <1>1, <2>1 DEF IsWorker, SameRequest
  <2>4. WorkerOK(workers'[w])
    BY <1>1, <2>3 DEF WorkerOK, HasContent, SameRequest, Allowed
  <2> QED
    BY <1>1, <1>2, <2>2, <2>3, <2>4 DEF Moves
<1>4. CASE InsertRefused(w)
  BY <1>1, <1>2, <1>4, InsertRefusedMoves
<1> QED
  BY <1>1, <1>2, <1>3, <1>4 DEF InsertIdentifier

LEMMA AppendEventMoves ==
  ASSUME ServiceOK, NEW w \in Workers, AppendEvent(w)
  PROVE  /\ Moves(w)
         /\ workers[w].stage = "appending"
         /\ workers[w].request.operation.kind \in {"add", "content"}
         /\ StoreOf(w).open
         /\ \/ /\ workers'[w].stage =
                    IF Owns(w) THEN "leaving"
                    ELSE IF workers[w].request.operation.kind = "add"
                      THEN "executed" ELSE "answered"
               /\ workers'[w].stage = "answered" => workers'[w].status = 200
               /\ workers[w].request.operation.kind = "add" =>
                    workers'[w].result = [created |-> TRUE]
               /\ workers'[w].joined = workers[w].joined
               /\ MayWrite(w)
               /\ Insert(w, [Seen(w) EXCEPT !.audit = @ \union {EventBy(w)}])
            \/ InsertRefused(w) /\ UNCHANGED others
<1> DEFINE kind == workers[w].request.operation.kind
           result == IF Operation(w).kind = "add" THEN [created |-> TRUE]
                     ELSE workers[w].result
<1>1. /\ Busy(w) /\ WorkerOK(workers[w]) /\ IsWorker(workers[w])
      /\ workers[w].stage = "appending"
      /\ kind \in {"add", "content"}
      /\ StoreOf(w).open
  BY WorkerAt DEF AppendEvent, OnOpen
<1>2. UNCHANGED others /\ UNCHANGED <<stores, registry, closing, served>>
  BY DEF AppendEvent, others
<1>3. CASE /\ MayWrite(w)
           /\ Insert(w, [Seen(w) EXCEPT !.audit = @ \union {EventBy(w)}])
           /\ Written(w, result)
  <2> PICK stage : stage = IF Owns(w) THEN "leaving"
                           ELSE IF kind = "add" THEN "executed" ELSE "answered"
    OBVIOUS
  <2> PICK status : status = IF Owns(w) \/ kind = "add" THEN None ELSE 200
    OBVIOUS
  <2> PICK answer : answer = result
    OBVIOUS
  <2>1. GoesOn(w, stage, status, answer)
    BY <1>3 DEF Written, Operation, GoesOn
  <2>2. /\ MovesOnly(w)
        /\ IsWorker(workers'[w])
        /\ SameRequest(workers'[w], workers[w])
        /\ workers'[w].stage = stage
        /\ workers'[w].status = status
        /\ workers'[w].result = answer
        /\ workers'[w].joined = workers[w].joined
    BY <1>1, <2>1, Going
  <2>3. /\ IsWorker(workers'[w])
        /\ SameRequest(workers'[w], workers[w])
        /\ workers'[w].stage =
             IF Owns(w) THEN "leaving"
             ELSE IF kind = "add" THEN "executed" ELSE "answered"
        /\ workers'[w].stage = "answered" => workers'[w].status = 200
        /\ workers'[w].result = IF kind = "add" THEN [created |-> TRUE]
                                ELSE workers[w].result
        /\ workers'[w].joined = workers[w].joined
    BY <1>1, <2>2 DEF Operation
  <2>4. WorkerOK(workers'[w])
    BY <1>1, <2>3 DEF WorkerOK, HasContent, SameRequest, Allowed
  <2> QED
    BY <1>1, <1>2, <1>3, <2>2, <2>3, <2>4 DEF Moves
<1>4. CASE InsertRefused(w)
  BY <1>1, <1>2, <1>4, InsertRefusedMoves
<1> QED
  BY <1>3, <1>4 DEF AppendEvent

LEMMA CommitMoves ==
  ASSUME ServiceOK, NEW w \in Workers, Commit(w)
  PROVE  /\ Moves(w)
         /\ workers[w].stage = "leaving"
         /\ \/ /\ workers'[w].stage = "executed"
               /\ workers[w].request.operation.kind = "add"
            \/ /\ workers'[w].stage = "answered"
               /\ workers'[w].status = 200
               /\ workers[w].request.operation.kind = "content"
         /\ workers'[w].joined = workers[w].joined
         /\ workers'[w].result = workers[w].result
<1>1. /\ Busy(w) /\ WorkerOK(workers[w]) /\ IsWorker(workers[w])
      /\ workers[w].stage = "leaving"
      /\ workers[w].request.operation.kind \in {"add", "content"}
  BY WorkerAt DEF Commit
<1> PICK stage : stage = IF Operation(w).kind = "add" THEN "executed"
                                                     ELSE "answered"
  OBVIOUS
<1> PICK status : status = IF Operation(w).kind = "add" THEN None ELSE 200
  OBVIOUS
<1>2. workers'[w] = [workers[w] EXCEPT !.stage = stage, !.status = status]
  BY DEF Commit, ServiceOK, WorkersOK
<1>3. MovesOnly(w) /\ UNCHANGED <<stores, registry, closing, served>>
  BY DEF Commit, MovesOnly, ServiceOK, WorkersOK, others
<1>9. /\ IsWorker(workers'[w])
      /\ SameRequest(workers'[w], workers[w])
      /\ workers'[w].stage = stage
      /\ workers'[w].status = status
      /\ workers'[w].joined = workers[w].joined
      /\ workers'[w].result = workers[w].result
  BY <1>1, <1>2 DEF IsWorker, SameRequest
<1>4. /\ IsWorker(workers'[w])
      /\ SameRequest(workers'[w], workers[w])
      /\ \/ /\ workers'[w].stage = "executed"
            /\ workers[w].request.operation.kind = "add"
         \/ /\ workers'[w].stage = "answered"
            /\ workers'[w].status = 200
            /\ workers[w].request.operation.kind = "content"
      /\ workers'[w].joined = workers[w].joined
      /\ workers'[w].result = workers[w].result
  BY <1>1, <1>9 DEF Operation
<1>5. WorkerOK(workers'[w])
  BY <1>1, <1>4 DEF WorkerOK, HasContent, SameRequest, Allowed
<1> QED
  BY <1>1, <1>3, <1>4, <1>5 DEF Moves

\* The content that is read is that of the tenant the store belongs to, which is
\* the principal's.
LEMMA ReadContentMoves ==
  ASSUME ServiceOK, NEW w \in Workers, ReadContent(w)
  PROVE  /\ Moves(w)
         /\ workers[w].stage = "located"
         /\ ~Running(workers[w].store)
         /\ UNCHANGED <<database, joins>>
         /\ workers'[w].joined = workers[w].joined
         /\ \/ /\ workers'[w].stage = "read"
            \/ workers'[w].stage = "answered" /\ workers'[w].status = 404
<1> DEFINE held == Evidence[stores[workers[w].store].tenant]
           id == workers[w].request.operation.evidence
<1>1. /\ Busy(w) /\ WorkerOK(workers[w]) /\ IsWorker(workers[w])
      /\ workers[w].stage = "located"
      /\ workers[w].request.operation.kind = "content"
  BY WorkerAt DEF ReadContent
<1>2. /\ UNCHANGED <<stores, registry, closing, served>>
      /\ UNCHANGED <<database, joins>>
      /\ ~Running(workers[w].store)
  BY DEF ReadContent, others
<1>3. CASE /\ id \in DOMAIN held
           /\ workers' = [workers EXCEPT ![w].stage = "read",
                                         ![w].result = held[id]]
  <2>1. workers'[w] = [workers[w] EXCEPT !.stage = "read", !.result = held[id]]
    BY <1>3 DEF ServiceOK, WorkersOK
  <2>2. MovesOnly(w)
    BY <1>3 DEF MovesOnly, ServiceOK, WorkersOK
  <2>3. /\ IsWorker(workers'[w])
        /\ SameRequest(workers'[w], workers[w])
        /\ workers'[w].stage = "read"
        /\ workers'[w].result = held[id]
        /\ workers'[w].joined = workers[w].joined
    BY <1>1, <2>1 DEF IsWorker, SameRequest
  <2>4. held[id] \in Contents(workers[w].principal.tenant)
    BY <1>1, <1>3 DEF Contents, WorkerOK
  <2>5. WorkerOK(workers'[w])
    BY <1>1, <2>3, <2>4 DEF WorkerOK, HasContent, SameRequest, Allowed
  <2> QED
    BY <1>1, <1>2, <2>2, <2>3, <2>5 DEF Moves
<1>4. CASE Respond(w, 404, None)
  BY <1>1, <1>2, <1>4, Responding
<1> QED
  BY <1>3, <1>4 DEF ReadContent, StoreOf, Operation

\* The steps that answer and touch no database.
LEMMA AnswerMoves ==
  ASSUME ServiceOK, NEW w \in Workers,
         FindClosed(w) \/ BeginRefused(w) \/ AnswerAdd(w) \/ Resolve(w)
  PROVE  /\ Moves(w)
         /\ UNCHANGED <<database, joins>>
         /\ workers'[w].stage = "answered"
         /\ workers'[w].joined = workers[w].joined
         /\ \/ workers'[w].status = 500
            \/ /\ workers[w].stage = "executed"
               /\ workers'[w].status = 200
               /\ workers'[w].result = workers[w].result
            \/ /\ workers[w].stage = "located"
               /\ workers[w].request.operation.kind = "resolve"
<1>1. Busy(w)
  BY WorkerAt DEF FindClosed, Busy, BeginRefused, BeforeAdd, BeforeEvent, AnswerAdd,
                  Resolve
<1>2. /\ UNCHANGED <<stores, registry, closing, served>>
      /\ UNCHANGED <<database, joins>>
  BY DEF FindClosed, BeginRefused, AnswerAdd, Resolve, others
<1>3. CASE FindClosed(w) \/ BeginRefused(w)
  <2>1. Respond(w, 500, None)
    BY <1>3 DEF FindClosed, BeginRefused
  <2> QED
    BY <2>1, <1>1, <1>2, Responding
<1>4. CASE AnswerAdd(w)
  <2>1. /\ workers[w].stage = "executed"
        /\ workers[w].request.operation.kind = "add"
        /\ Respond(w, 200, workers[w].result)
    BY <1>4, WorkerAt DEF AnswerAdd
  <2> QED
    BY <2>1, <1>1, <1>2, Responding
<1>5. CASE Resolve(w)
  <2>1. /\ workers[w].stage = "located"
        /\ workers[w].request.operation.kind = "resolve"
        /\ \E status, result : Respond(w, status, result)
    BY <1>5, WorkerAt DEF Resolve
  <2>2. \E status, result :
          /\ Respond(w, status, result)
          /\ workers[w].request.operation.kind # "content"
    BY <2>1
  <2> QED
    BY <2>1, <2>2, <1>1, <1>2, Responding
<1> QED
  BY <1>3, <1>4, <1>5

LEMMA FailsMoves ==
  ASSUME ServiceOK, NEW w \in Workers, Fails(w)
  PROVE  /\ Moves(w)
         /\ Owns(w)
         /\ workers[w].stage \in
              {"looking", "checking", "naming", "appending", "leaving"}
         /\ Raise(w, 500)
<1>1. Busy(w) /\ UNCHANGED <<stores, registry, closing, served>> /\ Raise(w, 500)
  BY DEF Fails, Busy, others
<1> QED
  BY <1>1, Responding DEF Raise, Fails

-----------------------------------------------------------------------------
(* ServiceOK is inductive.                                                 *)

LEMMA ServiceInit == Init => ServiceOK
<1> SUFFICES ASSUME Init PROVE ServiceOK
  OBVIOUS
<1>1. StoresOK /\ RegistryOK
  BY ServiceAssumption DEF ServiceAssumption, Init, StoresOK, RegistryOK
<1>2. WorkersOK
  BY DEF Init, WorkersOK, Busy
<1> QED
  BY <1>1, <1>2, ServiceAssumption DEF ServiceAssumption, Init, ServiceOK

LEMMA MovesKeepService ==
  ASSUME ServiceOK, NEW w \in Workers, Moves(w)
  PROVE  ServiceOK'
<1>1. /\ Busy(w)
      /\ \A v \in Workers : v # w => workers'[v] = workers[v]
      /\ workers' \in [Workers -> {workers'[v] : v \in Workers}]
      /\ WorkerOK(workers'[w])
      /\ workers'[w].number = workers[w].number
      /\ UNCHANGED <<stores, registry, closing, served>>
  BY DEF Moves, MovesOnly, SameRequest
<1>2. WorkersOK'
  <2>1. \A v \in Workers :
          Busy(v)' => WorkerOK(workers'[v]) /\ workers'[v].number = workers[v].number
    BY <1>1 DEF ServiceOK, WorkersOK, Busy
  <2>2. \A v \in Workers : Busy(v)' => Busy(v)
    BY <1>1 DEF Busy
  <2>3. \A v \in Workers : Busy(v)' => WorkerOK(workers[v])'
    BY <2>1, <1>1 DEF WorkerOK
  <2> QED
    BY <2>1, <2>2, <2>3, <1>1 DEF ServiceOK, WorkersOK
<1>3. StoresOK' /\ RegistryOK'
  BY <1>1 DEF ServiceOK, StoresOK, RegistryOK, Registered
<1> QED
  BY <1>1, <1>2, <1>3 DEF ServiceOK

\* A worker that takes up a request.
TakenUp(request, stage, status) ==
  [stage |-> stage, status |-> status, number |-> served + 1,
   request |-> request, principal |-> Authenticate(request), store |-> None,
   result |-> None, todo |-> {}, joined |-> FALSE]

LEMMA TakenUpFields ==
  ASSUME NEW request, NEW stage, NEW status
  PROVE  LET x == TakenUp(request, stage, status)
         IN  /\ IsWorker(x)
             /\ x.stage = stage
             /\ x.status = status
             /\ x.number = served + 1
             /\ x.request = request
             /\ x.principal = Authenticate(request)
  BY DEF TakenUp, IsWorker

LEMMA ArriveTakesUp ==
  ASSUME ServiceOK, NEW w \in Workers, NEW request, Arrive(w, request)
  PROVE  LET principal == Authenticate(request)
             x == workers'[w]
         IN  \/ x = TakenUp(request, "answered", 401)
             \/ x = TakenUp(request, "answered", 403)
             \/ /\ x = TakenUp(request, "admitted", None)
                /\ principal # Denied
                /\ Authorized(principal, Scope(request.operation))
<1> PICK x : x = workers'[w]
  OBVIOUS
<1>1. workers'[w] = x /\ w \in DOMAIN workers
  BY DEF ServiceOK, WorkersOK
<1>2. CASE Authenticate(request) = Denied
  BY <1>1, <1>2 DEF Arrive, TakenUp
<1>3. CASE /\ Authenticate(request) # Denied
           /\ ~Authorized(Authenticate(request), Scope(request.operation))
  BY <1>1, <1>3 DEF Arrive, TakenUp
<1>4. CASE /\ Authenticate(request) # Denied
           /\ Authorized(Authenticate(request), Scope(request.operation))
  BY <1>1, <1>4 DEF Arrive, TakenUp
<1> QED
  BY <1>2, <1>3, <1>4

LEMMA ArriveKeepsService ==
  ASSUME ServiceOK, NEW w \in Workers, NEW request \in Requests, Arrive(w, request)
  PROVE  ServiceOK'
<1> PICK x : x = workers'[w]
  OBVIOUS
<1>1. /\ served \in Nat
      /\ served' = served + 1
      /\ served' \in 0..MaxRequests
      /\ served' \in Stores
  BY ServiceAssumption DEF ServiceAssumption, ServiceOK, Arrive, Stores
<1>2. /\ \A v \in Workers : v # w => workers'[v] = workers[v]
      /\ workers' \in [Workers -> {workers'[v] : v \in Workers}]
  BY DEF ServiceOK, WorkersOK, Arrive
<1>3. /\ IsWorker(x)
      /\ x.number = served'
      /\ x.request = request
      /\ x.principal = Authenticate(request)
      /\ \/ x.stage = "answered" /\ x.status \in {401, 403}
         \/ /\ x.stage = "admitted"
            /\ x.principal # Denied
            /\ Authorized(x.principal, Scope(request.operation))
  BY <1>1, ArriveTakesUp, TakenUpFields
<1>4. stores[served'] = Absent
  BY <1>1 DEF ServiceOK, StoresOK
<1>5. WorkerOK(x)'
  BY <1>1, <1>3, <1>4 DEF WorkerOK, Allowed, HasContent, Arrive
<1>6. ASSUME NEW v \in Workers, v # w, Busy(v)'
      PROVE  Busy(v) /\ WorkerOK(workers[v])' /\ workers'[v].number \in 1..served
  BY <1>1, <1>2, <1>6 DEF ServiceOK, WorkersOK, WorkerOK, Busy, Arrive
<1>7. WorkersOK'
  <2>1. \A v \in Workers : Busy(v)' => WorkerOK(workers[v])'
    BY <1>5, <1>6
  <2>2. \A v, u \in Workers :
          (Busy(v) /\ Busy(u) /\ v # u => workers[v].number # workers[u].number)'
    <3>1. \A v, u \in Workers : v # w /\ u # w =>
            (Busy(v) /\ Busy(u) /\ v # u => workers[v].number # workers[u].number)'
      BY <1>2, <1>6 DEF ServiceOK, WorkersOK, Busy
    <3>2. \A v \in Workers : v # w /\ Busy(v)' =>
            workers'[v].number # workers'[w].number
      BY <1>1, <1>3, <1>6
    <3> QED
      BY <3>1, <3>2
  <2> QED
    BY <2>1, <2>2, <1>2 DEF WorkersOK
<1>8. StoresOK' /\ RegistryOK'
  BY <1>1 DEF ServiceOK, StoresOK, RegistryOK, Registered, Arrive, Stores
<1> QED
  BY <1>1, <1>7, <1>8 DEF ServiceOK, Arrive

\* for_tenant: the store that is found is the tenant's, and a new one is not
\* known to anybody else.
LEMMA LocateKeepsService ==
  ASSUME ServiceOK, NEW w \in Workers, Locate(w)
  PROVE  ServiceOK'
<1> PICK new : new = workers[w].number
  OBVIOUS
<1> PICK tenant : tenant = workers[w].principal.tenant
  OBVIOUS
<1> PICK found : found = IF registry[tenant] # Absent THEN registry[tenant] ELSE new
  OBVIOUS
<1> PICK store : store = [tenant |-> tenant, open |-> TRUE]
  OBVIOUS
<1>1. /\ Busy(w)
      /\ workers[w].stage = "admitted"
      /\ WorkerOK(workers[w])
      /\ Allowed(workers[w])
      /\ tenant \in Tenants
      /\ new \in Stores
      /\ new <= served
      /\ stores[new] = Absent
  <2>1. Busy(w) /\ workers[w].stage = "admitted"
    BY DEF Locate, At, Busy
  <2>2. WorkerOK(workers[w])
    BY <2>1 DEF ServiceOK, WorkersOK
  <2>3. Allowed(workers[w]) /\ stores[new] = Absent /\ new \in 1..served
    BY <2>1, <2>2 DEF WorkerOK
  <2>4. new \in Stores /\ new <= served
    BY <2>3, ServiceAssumption DEF ServiceAssumption, ServiceOK, Stores
  <2> QED
    BY <2>1, <2>2, <2>3, <2>4, AllowedTenant DEF WorkerOK
<1>2. store # Absent /\ store \in [tenant : Tenants, open : BOOLEAN]
  <2>1. store \in [tenant : Tenants, open : BOOLEAN]
    BY <1>1
  <2> QED
    BY <2>1, ServiceAssumption DEF ServiceAssumption
<1>3. /\ stores' = IF registry[tenant] # Absent THEN stores
                   ELSE [stores EXCEPT ![new] = store]
      /\ registry' = [registry EXCEPT ![tenant] = found]
      /\ workers' = [workers EXCEPT ![w].stage = "located", ![w].store = found]
      /\ UNCHANGED <<closing, served>>
  BY DEF Locate
<1>4. /\ found \in Stores
      /\ stores'[found] = store
      /\ found \notin closing
  BY <1>1, <1>2, <1>3 DEF ServiceOK, StoresOK, RegistryOK
<1>5. ASSUME NEW s \in Stores, stores[s] # Absent
      PROVE  stores'[s] = stores[s]
  BY <1>1, <1>3, <1>5 DEF ServiceOK, StoresOK
<1>6. ASSUME NEW s \in Stores
      PROVE  stores'[s] = stores[s] \/ (s = found /\ s = new)
  <2>1. CASE registry[tenant] # Absent
    BY <2>1, <1>3
  <2>2. CASE registry[tenant] = Absent
    BY <2>2, <1>1, <1>3 DEF ServiceOK, StoresOK
  <2> QED
    BY <2>1, <2>2
<1>7. RegistryOK'
  <2>1. registry' \in [Tenants -> Stores \union {Absent}]
    BY <1>1, <1>3, <1>4 DEF ServiceOK, RegistryOK
  <2>2. ASSUME NEW t \in Tenants, registry'[t] # Absent
        PROVE  /\ stores'[registry'[t]] = [tenant |-> t, open |-> TRUE]
               /\ registry'[t] \notin closing'
    <3>1. CASE t = tenant
      BY <3>1, <1>1, <1>3, <1>4 DEF ServiceOK, RegistryOK
    <3>2. CASE t # tenant
      <4>1. registry'[t] = registry[t]
        BY <3>2, <1>3 DEF ServiceOK, RegistryOK
      <4>2. registry[t] \in Stores
        BY <4>1, <2>2 DEF ServiceOK, RegistryOK
      <4>3. /\ stores[registry[t]] = [tenant |-> t, open |-> TRUE]
            /\ registry[t] \notin closing
        BY <4>1, <2>2 DEF ServiceOK, RegistryOK
      <4>4. [tenant |-> t, open |-> TRUE] \in [tenant : Tenants, open : BOOLEAN]
        OBVIOUS
      <4>5. stores[registry[t]] # Absent
        BY <4>3, <4>4, ServiceAssumption DEF ServiceAssumption
      <4>6. stores'[registry[t]] = stores[registry[t]] /\ closing' = closing
        BY <4>2, <4>5, <1>3, <1>5
      <4> QED
        BY <4>1, <4>3, <4>6
    <3> QED
      BY <3>1, <3>2
  <2> QED
    BY <2>1, <2>2 DEF RegistryOK
<1>8. StoresOK'
  <2>1. stores' \in [Stores -> [tenant : Tenants, open : BOOLEAN] \union {Absent}]
    BY <1>1, <1>2, <1>3 DEF ServiceOK, StoresOK
  <2>2. \A s \in Registered \union {found} : s \in Registered'
    BY <1>1, <1>2, <1>3, <1>4, ServiceAssumption
    DEF ServiceAssumption, ServiceOK, RegistryOK, Registered
  <2>3. \A s \in Stores : stores'[s] # Absent => s <= served'
    BY <1>1, <1>3, <1>6 DEF ServiceOK, StoresOK
  <2>4. closing' \subseteq Stores /\ \A s \in closing' : stores'[s] # Absent
    BY <1>3, <1>5 DEF ServiceOK, StoresOK
  <2>5. ASSUME NEW s \in Stores, stores'[s] # Absent, stores'[s].open
        PROVE  s \in closing' \/ s \in Registered'
    BY <2>2, <2>5, <1>3, <1>6 DEF ServiceOK, StoresOK
  <2> QED
    BY <2>1, <2>2, <2>3, <2>4, <2>5 DEF StoresOK
<1>9. /\ IsWorker(workers'[w])
      /\ workers'[w].stage = "located"
      /\ workers'[w].store = found
      /\ workers'[w].number = workers[w].number
      /\ workers'[w].request = workers[w].request
      /\ workers'[w].principal = workers[w].principal
  <2>1. workers'[w] = [workers[w] EXCEPT !.stage = "located", !.store = found]
    BY <1>3 DEF ServiceOK, WorkersOK
  <2>2. workers[w] = [stage |-> workers[w].stage, status |-> workers[w].status,
          number |-> workers[w].number, request |-> workers[w].request,
          principal |-> workers[w].principal, store |-> workers[w].store,
          result |-> workers[w].result, todo |-> workers[w].todo,
          joined |-> workers[w].joined]
    BY <1>1 DEF WorkerOK, IsWorker
  <2> QED
    BY <2>1, <2>2 DEF IsWorker
<1>10. ASSUME NEW v \in Workers, Busy(v)'
       PROVE  /\ Busy(v)
              /\ workers'[v].number = workers[v].number
              /\ workers'[v].request = workers[v].request
              /\ workers'[v].principal = workers[v].principal
  <2>1. v # w => workers'[v] = workers[v]
    BY <1>3 DEF ServiceOK, WorkersOK
  <2> QED
    BY <2>1, <1>1, <1>9, <1>10 DEF Busy
<1>11. WorkersOK'
  <2>1. /\ \A v \in Workers : v # w => workers'[v] = workers[v]
        /\ workers' \in [Workers -> {workers'[v] : v \in Workers}]
    BY <1>3 DEF ServiceOK, WorkersOK
  <2>2. WorkerOK(workers[w])'
    <3>1. stores'[found] # Absent /\ stores'[found].tenant = tenant
      BY <1>2, <1>4
    <3>2. Allowed(workers'[w])
      BY <1>9, <1>1 DEF Allowed
    <3>3. ~HasContent(workers'[w])
      BY <1>9 DEF HasContent
    <3> QED
      BY <3>1, <3>2, <3>3, <1>1, <1>3, <1>4, <1>9 DEF WorkerOK
  <2>3. ASSUME NEW v \in Workers, v # w, Busy(v)'
        PROVE  WorkerOK(workers[v])'
    <3>1. Busy(v) /\ WorkerOK(workers[v]) /\ workers[v].number # new
      BY <2>1, <2>3, <1>1 DEF ServiceOK, WorkersOK, Busy
    <3>2. workers[v].number \in Stores
      BY <3>1, ServiceAssumption DEF ServiceAssumption, ServiceOK, WorkerOK, Stores
    <3>3. stores'[workers[v].number] = stores[workers[v].number]
      BY <3>1, <3>2, <1>3 DEF ServiceOK, StoresOK
    <3> QED
      BY <3>1, <3>3, <2>1, <2>3, <1>3, <1>5 DEF WorkerOK
  <2>4. \A v, u \in Workers :
          (Busy(v) /\ Busy(u) /\ v # u => workers[v].number # workers[u].number)'
    BY <1>10 DEF ServiceOK, WorkersOK
  <2> QED
    BY <2>1, <2>2, <2>3, <2>4 DEF WorkersOK
<1> QED
  BY <1>3, <1>7, <1>8, <1>11 DEF ServiceOK

LEMMA CloseAllKeepsService ==
  ASSUME ServiceOK, CloseAll
  PROVE  ServiceOK'
<1>1. /\ registry' = [tenant \in Tenants |-> Absent]
      /\ closing' = closing \union Registered
      /\ UNCHANGED <<stores, workers, served>>
  BY DEF CloseAll
<1>2. ASSUME NEW s \in Registered
      PROVE  s \in Stores /\ stores[s] # Absent
  <2>1. PICK tenant \in Tenants : s = registry[tenant] /\ s # Absent
    BY DEF Registered
  <2>2. s \in Stores /\ stores[s] = [tenant |-> tenant, open |-> TRUE]
    BY <2>1 DEF ServiceOK, RegistryOK
  <2>3. [tenant |-> tenant, open |-> TRUE] \in [tenant : Tenants, open : BOOLEAN]
    OBVIOUS
  <2> QED
    BY <2>2, <2>3, ServiceAssumption DEF ServiceAssumption
<1>3. StoresOK'
  BY <1>1, <1>2 DEF ServiceOK, StoresOK
<1>4. RegistryOK'
  BY <1>1 DEF RegistryOK
<1>5. WorkersOK'
  BY <1>1 DEF ServiceOK, WorkersOK, WorkerOK, Busy, Allowed
<1> QED
  BY <1>1, <1>3, <1>4, <1>5 DEF ServiceOK

\* A store that is being closed is nobody's in the registry, and stays a store of
\* its tenant for the workers that hold it.
LEMMA CloseStoreKeepsService ==
  ASSUME ServiceOK, NEW s \in Stores, CloseStore(s)
  PROVE  ServiceOK'
<1>1. /\ s \in closing
      /\ stores[s] \in [tenant : Tenants, open : BOOLEAN]
      /\ stores' = [stores EXCEPT ![s].open = FALSE]
      /\ closing' = closing \ {s}
      /\ UNCHANGED <<registry, workers, served>>
  BY DEF CloseStore, ServiceOK, StoresOK
<1>2. /\ stores'[s] \in [tenant : Tenants, open : BOOLEAN]
      /\ stores'[s] # Absent
      /\ stores'[s].open = FALSE
      /\ stores'[s].tenant = stores[s].tenant
      /\ stores[s] # Absent
  <2>1. stores'[s] = [stores[s] EXCEPT !.open = FALSE]
    BY <1>1 DEF ServiceOK, StoresOK
  <2>2. /\ stores'[s] \in [tenant : Tenants, open : BOOLEAN]
        /\ stores'[s].open = FALSE
        /\ stores'[s].tenant = stores[s].tenant
    BY <2>1, <1>1
  <2> QED
    BY <2>2, <1>1, ServiceAssumption DEF ServiceAssumption
<1>3. \A r \in Stores : r # s => stores'[r] = stores[r]
  BY <1>1 DEF ServiceOK, StoresOK
<1>4. StoresOK'
  <2>1. stores' \in [Stores -> [tenant : Tenants, open : BOOLEAN] \union {Absent}]
    BY <1>1, <1>2 DEF ServiceOK, StoresOK
  <2>2. Registered' = Registered
    BY <1>1 DEF Registered
  <2> QED
    BY <1>1, <1>2, <1>3, <2>1, <2>2 DEF ServiceOK, StoresOK
<1>5. RegistryOK'
  BY <1>1, <1>3 DEF ServiceOK, RegistryOK
<1>6. WorkersOK'
  <2>1. ASSUME NEW w \in Workers, Busy(w)
        PROVE  WorkerOK(workers[w])'
    <3>1. WorkerOK(workers[w])
      BY <2>1 DEF ServiceOK, WorkersOK
    <3>2. workers[w].number \in Stores
      BY <3>1, ServiceAssumption DEF ServiceAssumption, ServiceOK, WorkerOK, Stores
    <3>3. /\ stores'[workers[w].number] = Absent <=>
               stores[workers[w].number] = Absent
          /\ workers[w].store \in Stores /\ stores[workers[w].store] # Absent =>
               /\ stores'[workers[w].store] # Absent
               /\ stores'[workers[w].store].tenant = stores[workers[w].store].tenant
      BY <3>2, <1>2, <1>3
    <3> QED
      BY <3>1, <3>3, <1>1 DEF WorkerOK
  <2> QED
    BY <2>1, <1>1 DEF ServiceOK, WorkersOK, Busy
<1> QED
  BY <1>1, <1>4, <1>5, <1>6 DEF ServiceOK

LEMMA CrashKeepsService ==
  ASSUME ServiceOK, Crash
  PROVE  ServiceOK'
<1>1. StoresOK' /\ RegistryOK'
  BY DEF Crash, StoresOK, RegistryOK
<1>2. WorkersOK'
  BY DEF Crash, WorkersOK, Busy
<1> QED
  BY <1>1, <1>2 DEF Crash, ServiceOK

LEMMA StepKeepsService ==
  ASSUME ServiceOK, NEW w \in Workers, Step(w)
  PROVE  ServiceOK'
<1>1. CASE Locate(w)
  BY <1>1, LocateKeepsService
<1>2. CASE FindClosed(w) \/ BeginRefused(w) \/ AnswerAdd(w) \/ Resolve(w)
  BY <1>2, AnswerMoves, MovesKeepService
<1>3. CASE StartAdd(w) \/ StartEvent(w)
  BY <1>3, StartAddMoves, StartEventMoves, MovesKeepService
<1>4. CASE LookUp(w) \/ CheckIdentifier(w)
  BY <1>4, LookUpMoves, CheckIdentifierMoves, MovesKeepService
<1>5. CASE InsertInstrument(w) \/ InsertIdentifier(w)
  BY <1>5, InsertInstrumentMoves, InsertIdentifierMoves, MovesKeepService
<1>6. CASE AppendEvent(w) \/ Commit(w)
  BY <1>6, AppendEventMoves, CommitMoves, MovesKeepService
<1>7. CASE Fails(w) \/ ReadContent(w)
  BY <1>7, FailsMoves, ReadContentMoves, MovesKeepService
<1> QED
  BY <1>1, <1>2, <1>3, <1>4, <1>5, <1>6, <1>7 DEF Step

LEMMA ServiceNext == ServiceOK /\ [Next]_vars => ServiceOK'
<1> SUFFICES ASSUME ServiceOK, [Next]_vars PROVE ServiceOK'
  OBVIOUS
<1>1. CASE Next
  BY <1>1, StepKeepsService, ArriveKeepsService, CloseAllKeepsService,
     CloseStoreKeepsService, CrashKeepsService DEF Next
<1>2. CASE UNCHANGED vars
  BY <1>2 DEF vars, ServiceOK, StoresOK, RegistryOK, Registered, WorkersOK,
              WorkerOK, Busy, Allowed
<1> QED
  BY <1>1, <1>2

-----------------------------------------------------------------------------
(* The instrument master.                                                  *)

Instruments ==
  {request.operation.instrument :
     request \in {r \in Requests : r.operation.kind = "add"}}

\* What the keys of the two tables guarantee: an identifier leads to an instrument.
SoundMaster(m) ==
  /\ m \in [instruments : [InstrumentIds -> Instruments \union {Absent}],
            identifiers : [IdentifierKeys -> InstrumentIds \union {Absent}]]
  /\ \A i \in InstrumentIds :
       m.instruments[i] # Absent => m.instruments[i].id = i
  /\ \A k \in IdentifierKeys :
       m.identifiers[k] # Absent => m.instruments[m.identifiers[k]] # Absent

\* The tables agree, but for the identifiers of an instrument that are still to
\* be inserted.
MasterBut(m, id, todo) ==
  /\ SoundMaster(m)
  /\ \A i \in InstrumentIds :
       m.instruments[i] # Absent =>
         \A k \in m.instruments[i].identifiers :
           m.identifiers[k] = i \/ (i = id /\ k \in todo)
  /\ \A k \in IdentifierKeys :
       m.identifiers[k] # Absent =>
         k \in m.instruments[m.identifiers[k]].identifiers

\* The two tables agree with each other.
MasterOK(m) == MasterBut(m, Absent, {})

\* What can be added is an instrument with an id and identifiers.
LEMMA InstrumentFields ==
  ASSUME NEW x \in Instruments
  PROVE  /\ x # Absent
         /\ x.id \in InstrumentIds
         /\ x.identifiers \subseteq IdentifierKeys
  BY ServiceAssumption DEF ServiceAssumption, Instruments

\* A new database has no instruments.
LEMMA NoInstrumentsOK == MasterOK(NoInstruments)
  BY ServiceAssumption
  DEF ServiceAssumption, MasterOK, MasterBut, SoundMaster, NoInstruments

LEMMA NothingToDo ==
  ASSUME NEW m, NEW id, MasterBut(m, id, {})
  PROVE  MasterOK(m)
  BY DEF MasterOK, MasterBut

\* The tables after the INSERT of an instrument.
LEMMA AddInstrumentFields ==
  ASSUME NEW m, SoundMaster(m), NEW x \in Instruments
  PROVE  LET n == AddInstrument(m, x)
         IN  /\ n \in [instruments : [InstrumentIds -> Instruments \union {Absent}],
                       identifiers : [IdentifierKeys -> InstrumentIds \union {Absent}]]
             /\ n.instruments[x.id] = x
             /\ \A i \in InstrumentIds \ {x.id} : n.instruments[i] = m.instruments[i]
             /\ n.identifiers = m.identifiers
<1>1. x.id \in InstrumentIds
  BY InstrumentFields
<1>2. AddInstrument(m, x) =
        [instruments |-> [m.instruments EXCEPT ![x.id] = x],
         identifiers |-> m.identifiers]
  BY DEF AddInstrument, SoundMaster
<1> QED
  BY <1>1, <1>2 DEF SoundMaster

\* The tables after the INSERT of an identifier.
LEMMA AddIdentifierFields ==
  ASSUME NEW m, SoundMaster(m), NEW k \in IdentifierKeys, NEW id \in InstrumentIds
  PROVE  LET n == AddIdentifier(m, k, id)
         IN  /\ n \in [instruments : [InstrumentIds -> Instruments \union {Absent}],
                       identifiers : [IdentifierKeys -> InstrumentIds \union {Absent}]]
             /\ n.instruments = m.instruments
             /\ n.identifiers[k] = id
             /\ \A j \in IdentifierKeys \ {k} : n.identifiers[j] = m.identifiers[j]
<1>1. AddIdentifier(m, k, id) =
        [instruments |-> m.instruments,
         identifiers |-> [m.identifiers EXCEPT ![k] = id]]
  BY DEF AddIdentifier, SoundMaster
<1> QED
  BY <1>1 DEF SoundMaster

\* The INSERT of an instrument leaves its identifiers to be inserted.
LEMMA AddInstrumentKeeps ==
  ASSUME NEW m, SoundMaster(m), NEW x \in Instruments, MayAddInstrument(m, x)
  PROVE  /\ SoundMaster(AddInstrument(m, x))
         /\ MasterOK(m) => MasterBut(AddInstrument(m, x), x.id, x.identifiers)
<1> DEFINE n == AddInstrument(m, x)
<1>1. /\ x # Absent
      /\ x.id \in InstrumentIds
      /\ x.identifiers \subseteq IdentifierKeys
  BY InstrumentFields
<1>2. m.instruments[x.id] = Absent
  BY DEF MayAddInstrument
<1>3. /\ n \in [instruments : [InstrumentIds -> Instruments \union {Absent}],
                identifiers : [IdentifierKeys -> InstrumentIds \union {Absent}]]
      /\ n.instruments[x.id] = x
      /\ \A i \in InstrumentIds \ {x.id} : n.instruments[i] = m.instruments[i]
      /\ n.identifiers = m.identifiers
  BY AddInstrumentFields
<1>4. \A k \in IdentifierKeys :
        n.identifiers[k] # Absent =>
          /\ n.identifiers[k] \in InstrumentIds \ {x.id}
          /\ n.instruments[n.identifiers[k]] = m.instruments[m.identifiers[k]]
  BY <1>2, <1>3 DEF SoundMaster
<1>5. SoundMaster(n)
  <2> HIDE DEF n
  <2> QED
    BY <1>1, <1>3, <1>4 DEF SoundMaster
<1>6. ASSUME MasterOK(m)
      PROVE  MasterBut(n, x.id, x.identifiers)
  <2> HIDE DEF n
  <2>1. ASSUME NEW i \in InstrumentIds, n.instruments[i] # Absent,
               NEW k \in n.instruments[i].identifiers
        PROVE  n.identifiers[k] = i \/ (i = x.id /\ k \in x.identifiers)
    <3>1. CASE i = x.id
      BY <3>1, <2>1, <1>3
    <3>2. CASE i # x.id
      BY <3>2, <2>1, <1>3, <1>6 DEF MasterOK, MasterBut
    <3> QED
      BY <3>1, <3>2
  <2>2. ASSUME NEW k \in IdentifierKeys, n.identifiers[k] # Absent
        PROVE  k \in n.instruments[n.identifiers[k]].identifiers
    BY <2>2, <1>3, <1>4, <1>6 DEF MasterOK, MasterBut
  <2> QED
    BY <2>1, <2>2, <1>5 DEF MasterBut
<1> QED
  BY <1>5, <1>6

\* The INSERT of one of the identifiers that are to be inserted.
LEMMA AddIdentifierKeeps ==
  ASSUME NEW m, SoundMaster(m), NEW x \in Instruments, NEW todo,
         todo \subseteq x.identifiers, NEW k \in todo,
         MayAddIdentifier(m, k, x.id)
  PROVE  /\ SoundMaster(AddIdentifier(m, k, x.id))
         /\ m.instruments[x.id] = x /\ MasterBut(m, x.id, todo) =>
              MasterBut(AddIdentifier(m, k, x.id), x.id, todo \ {k})
<1> DEFINE n == AddIdentifier(m, k, x.id)
<1>1. /\ x # Absent
      /\ x.id \in InstrumentIds
      /\ k \in IdentifierKeys
  BY InstrumentFields
<1>2. /\ m.identifiers[k] = Absent
      /\ m.instruments[x.id] # Absent
  BY DEF MayAddIdentifier
<1>3. /\ n \in [instruments : [InstrumentIds -> Instruments \union {Absent}],
                identifiers : [IdentifierKeys -> InstrumentIds \union {Absent}]]
      /\ n.instruments = m.instruments
      /\ n.identifiers[k] = x.id
      /\ \A j \in IdentifierKeys \ {k} : n.identifiers[j] = m.identifiers[j]
  BY <1>1, AddIdentifierFields
<1>4. SoundMaster(n)
  <2> HIDE DEF n
  <2> QED
    BY <1>1, <1>2, <1>3 DEF SoundMaster
<1>5. ASSUME m.instruments[x.id] = x, MasterBut(m, x.id, todo)
      PROVE  MasterBut(n, x.id, todo \ {k})
  <2> HIDE DEF n
  <2>1. ASSUME NEW i \in InstrumentIds, n.instruments[i] # Absent,
               NEW j \in n.instruments[i].identifiers
        PROVE  n.identifiers[j] = i \/ (i = x.id /\ j \in todo \ {k})
    <3>1. m.identifiers[j] = i \/ (i = x.id /\ j \in todo)
      BY <2>1, <1>3, <1>5 DEF MasterBut
    <3>2. j \in IdentifierKeys
      BY <2>1, <1>3, InstrumentFields DEF SoundMaster
    <3>3. CASE j = k
      BY <3>1, <3>3, <1>2, <1>3, ServiceAssumption DEF ServiceAssumption
    <3>4. CASE j # k
      BY <3>1, <3>2, <3>4, <1>3
    <3> QED
      BY <3>3, <3>4
  <2>2. ASSUME NEW j \in IdentifierKeys, n.identifiers[j] # Absent
        PROVE  j \in n.instruments[n.identifiers[j]].identifiers
    <3>1. CASE j = k
      BY <3>1, <1>3, <1>5
    <3>2. CASE j # k
      BY <3>2, <2>2, <1>3, <1>5 DEF MasterBut
    <3> QED
      BY <3>1, <3>2
  <2> QED
    BY <2>1, <2>2, <1>4 DEF MasterBut
<1> QED
  BY <1>4, <1>5

\* In tables that agree every identifier of an instrument resolves to it.
LEMMA MasterConsistent ==
  ASSUME NEW m, MasterOK(m)
  PROVE  Consistent(m)
<1>1. ASSUME NEW i \in InstrumentIds, m.instruments[i] # Absent,
             NEW k \in m.instruments[i].identifiers
      PROVE  ResolveInstrument(m, k) = m.instruments[i]
  BY <1>1, ServiceAssumption
  DEF ServiceAssumption, MasterOK, MasterBut, SoundMaster, ResolveInstrument
<1>2. ASSUME NEW k \in IdentifierKeys, m.identifiers[k] # Absent
      PROVE  k \in ResolveInstrument(m, k).identifiers
  BY <1>2 DEF MasterOK, MasterBut, ResolveInstrument
<1> QED
  BY <1>1, <1>2 DEF Consistent

-----------------------------------------------------------------------------
(* Transactions, files and audit trails.                                   *)

Inside == {"looking", "checking", "naming", "appending", "leaving"}

\* The file of the tenant a worker acts for.
WorkerPath(worker) == PathForTenant(worker.principal.tenant)

\* A worker at work on the database that has joined nobody is in a transaction of
\* its own.
MustOwn(worker) ==
  \/ worker.stage = "leaving"
  \/ /\ worker.stage \in {"looking", "checking", "naming", "appending"}
     /\ ~worker.joined

\* An add that has joined another's transaction.
SharesAdd(worker) ==
  worker.stage \in {"looking", "checking", "naming"} /\ worker.joined

\* The part of a worker in the transactions.
PartOK(w) ==
  LET x == workers[w]
  IN  /\ MustOwn(x) => owner[x.store] = w
      /\ SharesAdd(x) => AddsShared(WorkerPath(x))
      /\ x.joined => \E join \in joins : join.path = WorkerPath(x)
      /\ x.stage \in {"admitted", "located"} => ~x.joined

\* Who is in a transaction on a store, and what it holds.
OwnerOK(s) ==
  /\ owner[s] # None => stores[s] # Absent /\ stores[s].open
  /\ owner[s] \in Workers =>
       /\ Busy(owner[s])
       /\ workers[owner[s]].store = s
       /\ workers[owner[s]].stage \in Inside
       /\ writer[PathOf(s)] = s
  /\ owner[s] = Nobody => \E join \in joins : join.path = PathOf(s)

\* The write lock of a file is held by a store of it that is in a transaction.
WriterOK(path) ==
  writer[path] # Absent =>
    /\ owner[writer[path]] # None
    /\ PathOf(writer[path]) = path

TransactionsOK ==
  /\ writer \in [Paths -> Stores \union {Absent}]
  /\ owner \in [Stores -> Workers \union {None, Nobody}]
  /\ \A path \in Paths : WriterOK(path)
  /\ \A s \in Stores : OwnerOK(s)
  /\ \A w \in Workers : Busy(w) => PartOK(w)

IsImage(f) == f = [master |-> f.master, audit |-> f.audit]

\* The worker is inserting identifiers in a transaction of its own.
Naming(w, path) ==
  /\ Busy(w)
  /\ workers[w].stage = "naming"
  /\ owner[workers[w].store] = w
  /\ WorkerPath(workers[w]) = path

\* What is pending lacks but the identifiers the worker is to insert.
NamesLeft(master, worker) ==
  LET instrument == worker.request.operation.instrument
  IN  /\ master.instruments[instrument.id] = instrument
      /\ MasterBut(master, instrument.id, worker.todo)

ImageOK(path) ==
  /\ IsImage(files[path]) /\ IsImage(pending[path])
  /\ writer[path] = Absent => pending[path] = files[path]
  /\ SoundMaster(files[path].master) /\ SoundMaster(pending[path].master)
  /\ files[path].audit \subseteq pending[path].audit
  /\ ~AddsShared(path) =>
       /\ MasterOK(files[path].master)
       /\ \A w \in Workers :
            Naming(w, path) => NamesLeft(pending[path].master, workers[w])
       /\ (\A w \in Workers : ~Naming(w, path)) => MasterOK(pending[path].master)

ImagesOK ==
  /\ files \in [Paths -> {files[path] : path \in Paths}]
  /\ pending \in [Paths -> {pending[path] : path \in Paths}]
  /\ \A path \in Paths : ImageOK(path)

\* The event of a worker's request.
EventOf(worker) ==
  LET operation == worker.request.operation IN
  [tenant |-> worker.principal.tenant, actor |-> worker.principal.actor,
   request |-> worker.number,
   action |-> IF operation.kind = "add" THEN "instrument.created"
                                        ELSE "evidence.content_read",
   resource |-> IF operation.kind = "add" THEN operation.instrument.id
                                          ELSE operation.evidence]

\* A request of this kind, with this result, has an event.
Writes(worker) ==
  \/ worker.request.operation.kind = "content"
  \/ /\ worker.request.operation.kind = "add"
     /\ worker.result = [created |-> TRUE]

\* The worker has inserted its event, and no error has come after.
Told(worker) ==
  /\ Writes(worker)
  /\ \/ worker.stage \in {"leaving", "executed"}
     \/ worker.stage = "answered" /\ worker.status = 200

\* There may be an event of the worker's request.
MayTell(worker) ==
  \/ Told(worker)
  \/ /\ worker.stage = "answered" /\ worker.status = 500
     /\ worker.request.operation.kind \in {"add", "content"}

\* An event in the file of the tenant.
EventOK(tenant, e) ==
  /\ e.tenant = tenant
  /\ e.request \in 1..served
  /\ \A w \in Workers :
       Busy(w) /\ workers[w].number = e.request =>
         /\ Allowed(workers[w])
         /\ workers[w].principal.tenant = tenant
         /\ e = EventOf(workers[w])
         /\ MayTell(workers[w])

EventsOK ==
  \A tenant \in Tenants :
    LET path == PathForTenant(tenant)
    IN  \A e \in files[path].audit \union pending[path].audit :
          EventOK(tenant, e)

\* The event of a worker that has joined nobody is pending, and then committed.
TellsOK(w) ==
  LET x == workers[w]
      path == WorkerPath(x)
  IN  Told(x) /\ ~x.joined =>
        /\ Allowed(x)
        /\ x.stage = "leaving" => EventOf(x) \in pending[path].audit
        /\ x.stage # "leaving" => EventOf(x) \in files[path].audit

DatabaseOK ==
  /\ TransactionsOK
  /\ ImagesOK
  /\ EventsOK
  /\ \A w \in Workers : Busy(w) => TellsOK(w)

Inv == ServiceOK /\ DatabaseOK

LEMMA DatabaseInit == Init => DatabaseOK
<1> SUFFICES ASSUME Init PROVE DatabaseOK
  OBVIOUS
<1>1. TransactionsOK
  BY ServiceAssumption
  DEF ServiceAssumption, Init, TransactionsOK, WriterOK, OwnerOK, Busy
<1>2. \A path \in Paths :
        /\ files[path] = [master |-> NoInstruments, audit |-> {}]
        /\ pending[path] = [master |-> NoInstruments, audit |-> {}]
  BY DEF Init, NewFile
<1>3. ImagesOK
  <2>1. \A path \in Paths :
          /\ IsImage(files[path]) /\ IsImage(pending[path])
          /\ files[path].master = NoInstruments
          /\ pending[path].master = NoInstruments
          /\ files[path].audit = {} /\ pending[path].audit = {}
    BY <1>2 DEF IsImage
  <2>2. \A path \in Paths : ImageOK(path)
    BY <1>2, <2>1, NoInstrumentsOK
    DEF Init, ImageOK, Naming, Busy, MasterOK, MasterBut
  <2> QED
    BY <2>2 DEF Init, ImagesOK
<1>4. EventsOK
  BY <1>2 DEF EventsOK, Paths
<1> QED
  BY <1>1, <1>3, <1>4 DEF Init, DatabaseOK, Busy

\* Each tenant's file is a path, and the store of a worker at work is on it.
LEMMA PathOfWorker ==
  ASSUME ServiceOK, NEW w \in Workers, Busy(w),
         workers[w].stage \notin {"admitted", "answered"}
  PROVE  /\ workers[w].store \in Stores
         /\ stores[workers[w].store] # Absent
         /\ OwnPath(w) = WorkerPath(workers[w])
         /\ PathOf(workers[w].store) = WorkerPath(workers[w])
         /\ workers[w].principal.tenant \in Tenants
         /\ WorkerPath(workers[w]) \in Paths
         /\ Allowed(workers[w])
<1>1. WorkerOK(workers[w])
  BY DEF ServiceOK, WorkersOK
<1>2. /\ workers[w].store \in Stores
      /\ stores[workers[w].store] # Absent
      /\ stores[workers[w].store].tenant = workers[w].principal.tenant
      /\ Allowed(workers[w])
      /\ workers[w].principal.tenant \in Tenants
  BY <1>1, AllowedTenant DEF WorkerOK
<1> QED
  BY <1>2 DEF OwnPath, PathOf, WorkerPath, Paths

\* What a worker sees of its file when it may write.
LEMMA SeenIsPending ==
  ASSUME ServiceOK, DatabaseOK, NEW w \in Workers, Busy(w),
         workers[w].stage \notin {"admitted", "answered"}, MayWrite(w)
  PROVE  Seen(w) = pending[WorkerPath(workers[w])]
<1>1. OwnPath(w) = WorkerPath(workers[w]) /\ WorkerPath(workers[w]) \in Paths
  BY PathOfWorker
<1> QED
  BY <1>1 DEF Seen, MayWrite, HoldsWriteLock, DatabaseOK, ImagesOK, ImageOK

-----------------------------------------------------------------------------
(* Steps that change nothing in the database.                              *)

\* No event is of the request with this number.
Untold(number) ==
  \A tenant \in Tenants :
    LET path == PathForTenant(tenant)
    IN  \A e \in files[path].audit \union pending[path].audit :
          e.request # number

\* What is there may be told of a worker after its step.
StaysTold(w) ==
  \/ Untold(workers'[w].number)
  \/ /\ Busy(w)
     /\ workers'[w].number = workers[w].number
     /\ workers'[w].request = workers[w].request
     /\ workers'[w].principal = workers[w].principal
     /\ MayTell(workers[w]) => MayTell(workers'[w])

\* The stores there are stay as they are.
StoresStay ==
  \A s \in Stores : stores[s] # Absent => stores'[s] = stores[s]

LEMMA PathsStay ==
  ASSUME StoresStay, NEW s \in Stores, stores[s] # Absent
  PROVE  PathOf(s)' = PathOf(s)
  BY DEF StoresStay, PathOf

\* An event that is there stays right.
LEMMA EventStays ==
  ASSUME ServiceOK, ServiceOK', NEW w \in Workers, MovesOnly(w), StaysTold(w),
         served <= served',
         NEW tenant \in Tenants, NEW e, EventOK(tenant, e),
         e \in files[PathForTenant(tenant)].audit
                 \union pending[PathForTenant(tenant)].audit
  PROVE  EventOK(tenant, e)'
<1>1. e.request \in 1..served'
  BY DEF EventOK, ServiceOK
<1>2. ASSUME NEW v \in Workers, Busy(v)', workers'[v].number = e.request
      PROVE  /\ Allowed(workers'[v])
             /\ workers'[v].principal.tenant = tenant
             /\ e = EventOf(workers'[v])
             /\ MayTell(workers'[v])
  <2>1. CASE v # w
    BY <2>1, <1>2 DEF MovesOnly, Busy, EventOK
  <2>2. CASE v = w
    <3>1. /\ Busy(w)
          /\ workers'[w].number = workers[w].number
          /\ workers'[w].request = workers[w].request
          /\ workers'[w].principal = workers[w].principal
          /\ MayTell(workers[w]) => MayTell(workers'[w])
      BY <2>2, <1>2 DEF StaysTold, Untold
    <3> QED
      BY <3>1, <2>2, <1>2 DEF EventOK, Allowed, EventOf
  <2> QED
    BY <2>1, <2>2
<1> QED
  BY <1>1, <1>2 DEF EventOK

\* Nothing changes in the transactions.
LEMMA QuietTransactions ==
  ASSUME ServiceOK, TransactionsOK, NEW w \in Workers, MovesOnly(w), StoresStay,
         UNCHANGED database, joins \subseteq joins',
         Busy(w)' => PartOK(w)',
         \A s \in Stores :
           owner[s] = w => /\ Busy(w)'
                           /\ workers'[w].store = s
                           /\ workers'[w].stage \in Inside
  PROVE  TransactionsOK'
<1>1. owner' = owner /\ writer' = writer
  BY DEF database
<1>2. ASSUME NEW path \in Paths
      PROVE  WriterOK(path)'
  <2>1. CASE writer[path] = Absent
    BY <2>1, <1>1 DEF WriterOK
  <2>2. CASE writer[path] # Absent
    <3>1. /\ writer[path] \in Stores
          /\ owner[writer[path]] # None
          /\ PathOf(writer[path]) = path
      BY <2>2 DEF TransactionsOK, WriterOK
    <3>2. PathOf(writer[path])' = PathOf(writer[path])
      BY <3>1, <1>1, PathsStay DEF TransactionsOK, OwnerOK, PathOf
    <3> QED
      BY <3>1, <3>2, <1>1 DEF WriterOK
  <2> QED
    BY <2>1, <2>2
<1>3. ASSUME NEW s \in Stores
      PROVE  OwnerOK(s)'
  <2>1. CASE owner[s] = None
    BY <2>1, <1>1, ServiceAssumption DEF ServiceAssumption, OwnerOK
  <2>2. CASE owner[s] # None
    <3>1. OwnerOK(s)
      BY DEF TransactionsOK
    <3>2. stores'[s] = stores[s] /\ PathOf(s)' = PathOf(s)
      BY <2>2, <3>1, PathsStay DEF OwnerOK, StoresStay
    <3>3. owner[s] \in Workers =>
            /\ workers'[owner[s]] # Idle
            /\ workers'[owner[s]].store = s
            /\ workers'[owner[s]].stage \in Inside
      <4>1. CASE owner[s] = w
        BY <4>1 DEF Busy
      <4>2. CASE owner[s] # w
        BY <4>2, <3>1 DEF OwnerOK, MovesOnly, Busy
      <4> QED
        BY <4>1, <4>2
    <3> QED
      BY <3>1, <3>2, <3>3, <1>1 DEF OwnerOK, Busy
  <2> QED
    BY <2>1, <2>2
<1>4. ASSUME NEW v \in Workers, Busy(v)'
      PROVE  PartOK(v)'
  <2>1. CASE v = w
    BY <2>1, <1>4
  <2>2. CASE v # w
    <3>1. workers'[v] = workers[v] /\ PartOK(v)
      BY <2>2, <1>4 DEF MovesOnly, Busy, TransactionsOK
    <3> QED
      BY <3>1, <1>1 DEF PartOK, AddsShared
  <2> QED
    BY <2>1, <2>2
<1> QED
  BY <1>1, <1>2, <1>3, <1>4 DEF TransactionsOK

\* Nothing changes in the files.
LEMMA QuietImages ==
  ASSUME ImagesOK, NEW w \in Workers, MovesOnly(w),
         UNCHANGED database, joins \subseteq joins',
         \A path \in Paths : ~Naming(w, path)',
         \A path \in Paths : Naming(w, path) => workers[w].todo = {}
  PROVE  ImagesOK'
<1>1. owner' = owner /\ writer' = writer /\ files' = files /\ pending' = pending
  BY DEF database
<1>2. ASSUME NEW path \in Paths
      PROVE  ImageOK(path)'
  <2>1. \A v \in Workers \ {w} : Naming(v, path)' <=> Naming(v, path)
    BY <1>1 DEF Naming, Busy, MovesOnly
  <2>2. ASSUME ~AddsShared(path)
        PROVE  /\ \A v \in Workers :
                    Naming(v, path)' => NamesLeft(pending[path].master, workers'[v])
               /\ (\A v \in Workers : ~Naming(v, path)') =>
                    MasterOK(pending[path].master)
    <3>1. CASE Naming(w, path)
      <4>1. MasterOK(pending[path].master)
        BY <2>2, <3>1, NothingToDo DEF ImagesOK, ImageOK, NamesLeft
      <4>2. \A v \in Workers :
              Naming(v, path)' => NamesLeft(pending[path].master, workers'[v])
        BY <2>1, <2>2 DEF ImagesOK, ImageOK, MovesOnly
      <4> QED
        BY <4>1, <4>2
    <3>2. CASE ~Naming(w, path)
      BY <2>1, <2>2, <3>2 DEF ImagesOK, ImageOK, MovesOnly
    <3> QED
      BY <3>1, <3>2
  <2>3. ~AddsShared(path)' => ~AddsShared(path)
    BY DEF AddsShared
  <2> QED
    BY <2>2, <2>3, <1>1 DEF ImagesOK, ImageOK
<1> QED
  BY <1>1, <1>2 DEF ImagesOK

LEMMA QuietKeeps ==
  ASSUME ServiceOK, ServiceOK', DatabaseOK, NEW w \in Workers, MovesOnly(w),
         StoresStay, UNCHANGED database, joins \subseteq joins',
         served <= served', StaysTold(w),
         Busy(w)' => PartOK(w)' /\ TellsOK(w)',
         \A s \in Stores :
           owner[s] = w => /\ Busy(w)'
                           /\ workers'[w].store = s
                           /\ workers'[w].stage \in Inside,
         \A path \in Paths : ~Naming(w, path)',
         \A path \in Paths : Naming(w, path) => workers[w].todo = {}
  PROVE  DatabaseOK'
<1>1. TransactionsOK'
  BY QuietTransactions DEF DatabaseOK
<1>2. ImagesOK'
  BY QuietImages DEF DatabaseOK
<1>3. EventsOK'
  BY EventStays DEF DatabaseOK, EventsOK, database
<1>4. ASSUME NEW v \in Workers, Busy(v)'
      PROVE  TellsOK(v)'
  <2>1. CASE v = w
    BY <2>1, <1>4
  <2>2. CASE v # w
    BY <2>2, <1>4 DEF MovesOnly, Busy, DatabaseOK, TellsOK, database
  <2> QED
    BY <2>1, <2>2
<1> QED
  BY <1>1, <1>2, <1>3, <1>4 DEF DatabaseOK

\* What a step that moves a worker leaves alone.
LEMMA MovesFacts ==
  ASSUME ServiceOK, NEW w \in Workers, Moves(w)
  PROVE  /\ ServiceOK'
         /\ MovesOnly(w)
         /\ StoresStay
         /\ served' = served /\ served <= served'
         /\ Busy(w) /\ Busy(w)'
         /\ workers'[w].number = workers[w].number
         /\ workers'[w].request = workers[w].request
         /\ workers'[w].principal = workers[w].principal
         /\ workers'[w].store = workers[w].store
         /\ WorkerPath(workers'[w]) = WorkerPath(workers[w])
         /\ EventOf(workers'[w]) = EventOf(workers[w])
         /\ Allowed(workers'[w]) <=> Allowed(workers[w])
<1>1. ServiceOK'
  BY MovesKeepService
<1>2. /\ MovesOnly(w)
      /\ Busy(w)
      /\ workers'[w].number = workers[w].number
      /\ workers'[w].request = workers[w].request
      /\ workers'[w].principal = workers[w].principal
      /\ workers'[w].store = workers[w].store
      /\ served' = served /\ stores' = stores
      /\ workers'[w].stage # "idle"
  BY DEF Moves, SameRequest, WorkerOK
<1>3. served <= served'
  BY <1>2, ServiceAssumption DEF ServiceAssumption, ServiceOK
<1>4. Busy(w)'
  BY <1>2 DEF Busy, Idle
<1> QED
  BY <1>1, <1>2, <1>3, <1>4 DEF StoresStay, WorkerPath, EventOf, Allowed

\* Where the worker is whose transaction it is.
LEMMA OwnerAt ==
  ASSUME ServiceOK, DatabaseOK, NEW w \in Workers, NEW s \in Stores, owner[s] = w
  PROVE  /\ Busy(w)
         /\ workers[w].store = s
         /\ workers[w].stage \in Inside
         /\ stores[s].open
         /\ writer[PathOf(s)] = s
  BY ServiceAssumption
  DEF ServiceAssumption, DatabaseOK, TransactionsOK, OwnerOK

\* A worker in no transaction of its own answers.
LEMMA AnsweringKeeps ==
  ASSUME ServiceOK, DatabaseOK, NEW w \in Workers, Moves(w),
         UNCHANGED <<database, joins>>,
         workers'[w].stage = "answered",
         workers'[w].joined = workers[w].joined,
         \A s \in Stores : owner[s] # w,
         \/ workers'[w].status = 500
         \/ /\ workers[w].stage = "executed"
            /\ workers'[w].status = 200
            /\ workers'[w].result = workers[w].result
         \/ ~MayTell(workers[w]) /\ ~Told(workers'[w])
  PROVE  DatabaseOK'
<1> USE MovesFacts
<1>1. PartOK(w) /\ TellsOK(w)
  BY DEF DatabaseOK, TransactionsOK
<1>2. PartOK(w)'
  BY <1>1 DEF PartOK, MustOwn, SharesAdd
<1>3. StaysTold(w)
  BY DEF StaysTold, MayTell, Told, Writes
<1>4. TellsOK(w)'
  BY <1>1 DEF TellsOK, Told, Writes, database
<1>5. /\ \A path \in Paths : ~Naming(w, path)'
      /\ \A path \in Paths : ~Naming(w, path)
  <2>1. ASSUME NEW path \in Paths, Naming(w, path)
        PROVE  FALSE
    BY <2>1, PathOfWorker DEF Naming
  <2> QED
    BY <2>1 DEF Naming
<1> QED
  BY <1>2, <1>3, <1>4, <1>5, QuietKeeps DEF database

LEMMA AnswerKeeps ==
  ASSUME ServiceOK, DatabaseOK, NEW w \in Workers,
         FindClosed(w) \/ BeginRefused(w) \/ AnswerAdd(w) \/ Resolve(w)
  PROVE  DatabaseOK'
<1>1. /\ Moves(w)
      /\ UNCHANGED <<database, joins>>
      /\ workers'[w].stage = "answered"
      /\ workers'[w].joined = workers[w].joined
      /\ \/ workers'[w].status = 500
         \/ /\ workers[w].stage = "executed"
            /\ workers'[w].status = 200
            /\ workers'[w].result = workers[w].result
         \/ /\ workers[w].stage = "located"
            /\ workers[w].request.operation.kind = "resolve"
  BY AnswerMoves
<1>2. ASSUME NEW s \in Stores, owner[s] = w
      PROVE  FALSE
  <2>1. /\ workers[w].store = s
        /\ workers[w].stage \in Inside
        /\ stores[s].open
    BY <1>2, OwnerAt
  <2>2. CASE FindClosed(w)
    BY <2>1, <2>2 DEF FindClosed, StoreOf
  <2>3. CASE BeginRefused(w)
    BY <2>1, <2>3, <1>2, ServiceAssumption DEF BeginRefused, ServiceAssumption
  <2>4. CASE AnswerAdd(w) \/ Resolve(w)
    BY <2>1, <2>4 DEF AnswerAdd, Resolve, OnOpen, At, Inside
  <2> QED
    BY <2>2, <2>3, <2>4
<1>3. workers[w].stage = "located" /\ workers[w].request.operation.kind = "resolve"
        => ~MayTell(workers[w]) /\ ~Told(workers'[w])
  BY <1>1, MovesFacts DEF MayTell, Told, Writes
<1> QED
  BY <1>1, <1>2, <1>3, AnsweringKeeps

\* A worker that is not in a transaction of its own raises.
LEMMA RaiseOutside ==
  ASSUME ServiceOK, DatabaseOK, NEW w \in Workers, Moves(w),
         NEW status, status \in {409, 500}, Raise(w, status),
         workers[w].stage \in Inside, ~Owns(w),
         status = 409 => workers[w].stage # "leaving"
  PROVE  DatabaseOK'
<1>1. UNCHANGED <<database, joins>> /\ Respond(w, status, None)
  BY DEF Raise
<1>2. /\ workers'[w].stage = "answered"
      /\ workers'[w].joined = workers[w].joined
      /\ workers'[w].status = status
  BY <1>1, Responding DEF Moves
<1>3. \A s \in Stores : owner[s] # w
  BY OwnerAt DEF Owns
<1>4. status = 409 => ~MayTell(workers[w]) /\ ~Told(workers'[w])
  BY <1>2 DEF MayTell, Told, Inside
<1> QED
  BY <1>1, <1>2, <1>3, <1>4, AnsweringKeeps

LEMMA ArriveKeeps ==
  ASSUME ServiceOK, DatabaseOK, NEW w \in Workers, NEW request \in Requests,
         Arrive(w, request)
  PROVE  DatabaseOK'
<1> PICK x : x = workers'[w]
  OBVIOUS
<1>1. /\ served \in Nat /\ served' = served + 1 /\ served <= served'
      /\ StoresStay
      /\ UNCHANGED <<database, joins>>
      /\ MovesOnly(w)
  BY ServiceAssumption
  DEF ServiceAssumption, ServiceOK, WorkersOK, Arrive, StoresStay, MovesOnly
<1>2. ServiceOK'
  BY ArriveKeepsService
<1>3. /\ x.number = served'
      /\ ~x.joined
      /\ \/ x.stage = "answered" /\ x.status \in {401, 403}
         \/ x.stage = "admitted"
  <2>1. \/ x = TakenUp(request, "answered", 401)
        \/ x = TakenUp(request, "answered", 403)
        \/ x = TakenUp(request, "admitted", None)
    BY ArriveTakesUp
  <2>2. ASSUME NEW stage, NEW status
        PROVE  ~TakenUp(request, stage, status).joined
    BY DEF TakenUp
  <2> QED
    BY <2>1, <2>2, <1>1, TakenUpFields
<1>4. Untold(x.number)
  BY <1>1, <1>3 DEF DatabaseOK, EventsOK, EventOK, Untold
<1>5. PartOK(w)' /\ TellsOK(w)'
  BY <1>3 DEF PartOK, TellsOK, MustOwn, SharesAdd, Told
<1>6. ASSUME NEW s \in Stores, owner[s] = w
      PROVE  FALSE
  <2>1. Busy(w) /\ workers[w].stage \in Inside
    BY <1>6, OwnerAt
  <2> QED
    BY <2>1 DEF Arrive, Busy, Inside
<1>7. /\ \A path \in Paths : ~Naming(w, path)'
      /\ \A path \in Paths : ~Naming(w, path)
  BY <1>3 DEF Naming, Arrive, Busy
<1> QED
  BY <1>1, <1>2, <1>4, <1>5, <1>6, <1>7, QuietKeeps DEF StaysTold

LEMMA LocateKeeps ==
  ASSUME ServiceOK, DatabaseOK, NEW w \in Workers, Locate(w)
  PROVE  DatabaseOK'
<1>1. /\ Busy(w) /\ WorkerOK(workers[w]) /\ IsWorker(workers[w])
      /\ workers[w].stage = "admitted"
      /\ UNCHANGED <<database, joins>> /\ served' = served
      /\ MovesOnly(w)
  BY WorkerAt DEF Locate, ServiceOK, WorkersOK, MovesOnly
<1>2. ServiceOK' /\ served <= served'
  BY <1>1, LocateKeepsService, ServiceAssumption DEF ServiceAssumption, ServiceOK
<1>3. StoresStay
  BY <1>1 DEF StoresStay, Locate, WorkerOK, ServiceOK, StoresOK
<1>4. ASSUME NEW found, workers' =
               [workers EXCEPT ![w].stage = "located", ![w].store = found]
      PROVE  /\ workers'[w].stage = "located"
             /\ workers'[w].joined = workers[w].joined
             /\ workers'[w].number = workers[w].number
             /\ workers'[w].request = workers[w].request
             /\ workers'[w].principal = workers[w].principal
  <2>1. workers'[w] = [workers[w] EXCEPT !.stage = "located", !.store = found]
    BY <1>4 DEF ServiceOK, WorkersOK
  <2>2. workers[w] = [stage |-> workers[w].stage, status |-> workers[w].status,
          number |-> workers[w].number, request |-> workers[w].request,
          principal |-> workers[w].principal, store |-> workers[w].store,
          result |-> workers[w].result, todo |-> workers[w].todo,
          joined |-> workers[w].joined]
    BY <1>1 DEF IsWorker
  <2> QED
    BY <2>1, <2>2
<1>5. /\ workers'[w].stage = "located"
      /\ workers'[w].joined = workers[w].joined
      /\ workers'[w].number = workers[w].number
      /\ workers'[w].request = workers[w].request
      /\ workers'[w].principal = workers[w].principal
  BY <1>4 DEF Locate
<1>6. PartOK(w)
  BY <1>1 DEF DatabaseOK, TransactionsOK
<1>7. PartOK(w)' /\ TellsOK(w)'
  BY <1>1, <1>5, <1>6 DEF PartOK, TellsOK, MustOwn, SharesAdd, Told, WorkerPath
<1>8. StaysTold(w)
  BY <1>1, <1>5 DEF StaysTold, MayTell, Told
<1>9. \A s \in Stores : owner[s] # w
  BY <1>1, OwnerAt DEF Inside
<1>10. /\ \A path \in Paths : ~Naming(w, path)'
       /\ \A path \in Paths : ~Naming(w, path)
  BY <1>1, <1>5 DEF Naming
<1> QED
  BY <1>1, <1>2, <1>3, <1>7, <1>8, <1>9, <1>10, QuietKeeps

LEMMA ReadContentKeeps ==
  ASSUME ServiceOK, DatabaseOK, NEW w \in Workers, ReadContent(w)
  PROVE  DatabaseOK'
<1>1. /\ Moves(w)
      /\ workers[w].stage = "located"
      /\ UNCHANGED <<database, joins>>
      /\ workers'[w].joined = workers[w].joined
      /\ \/ /\ workers'[w].stage = "read"
         \/ workers'[w].stage = "answered" /\ workers'[w].status = 404
  BY ReadContentMoves
<1> USE MovesFacts, <1>1
<1>2. PartOK(w)
  BY DEF DatabaseOK, TransactionsOK
<1>3. PartOK(w)' /\ TellsOK(w)'
  BY <1>2 DEF PartOK, TellsOK, MustOwn, SharesAdd, Told
<1>4. StaysTold(w)
  BY DEF StaysTold, MayTell, Told
<1>5. \A s \in Stores : owner[s] # w
  BY OwnerAt DEF Inside
<1>6. /\ \A path \in Paths : ~Naming(w, path)'
      /\ \A path \in Paths : ~Naming(w, path)
  BY DEF Naming
<1> QED
  BY <1>3, <1>4, <1>5, <1>6, QuietKeeps

\* The SELECTs of an add.
LEMMA SelectKeeps ==
  ASSUME ServiceOK, DatabaseOK, NEW w \in Workers, Moves(w),
         UNCHANGED <<database, joins>>,
         workers'[w].joined = workers[w].joined,
         \/ /\ workers[w].stage \in {"looking", "checking"}
            /\ workers'[w].stage = "checking"
         \/ /\ workers[w].stage = "looking"
            /\ workers[w].request.operation.kind = "add"
            /\ workers'[w].stage = IF Owns(w) THEN "leaving" ELSE "executed"
            /\ workers'[w].result = [created |-> FALSE]
  PROVE  DatabaseOK'
<1> USE MovesFacts
<1>1. PartOK(w)
  BY DEF DatabaseOK, TransactionsOK
<1>2. PartOK(w)'
  <2>1. MustOwn(workers'[w]) => owner[workers'[w].store] = w
    BY <1>1 DEF PartOK, MustOwn, Owns
  <2>2. SharesAdd(workers'[w]) => SharesAdd(workers[w])
    BY DEF SharesAdd
  <2> QED
    BY <2>1, <2>2, <1>1 DEF PartOK, AddsShared, database
<1>3. StaysTold(w)
  BY DEF StaysTold, MayTell, Told
<1>4. ~Told(workers'[w])
  <2>1. [created |-> FALSE] # [created |-> TRUE]
    <3>1. [created |-> FALSE].created # [created |-> TRUE].created
      OBVIOUS
    <3> QED
      BY <3>1
  <2> QED
    BY <2>1 DEF Told, Writes
<1>5. ASSUME NEW s \in Stores, owner[s] = w
      PROVE  /\ Busy(w)'
             /\ workers'[w].store = s
             /\ workers'[w].stage \in Inside
  BY <1>5, OwnerAt DEF Inside, Owns
<1>6. /\ \A path \in Paths : ~Naming(w, path)'
      /\ \A path \in Paths : ~Naming(w, path)
  BY DEF Naming
<1> QED
  BY <1>2, <1>3, <1>4, <1>5, <1>6, QuietKeeps DEF TellsOK

\* The worker joins a transaction, another's or its own.
LEMMA JoinKeeps ==
  ASSUME ServiceOK, DatabaseOK, NEW w \in Workers, Moves(w),
         NEW what, Join(w, what),
         workers'[w].joined = Joined(w),
         \/ /\ workers[w].stage = "located" /\ workers'[w].stage = "looking"
            /\ what = "add"
         \/ /\ workers[w].stage = "naming" /\ workers[w].todo = {}
            /\ workers'[w].stage = "appending"
         \/ workers[w].stage = "read" /\ workers'[w].stage = "appending"
  PROVE  DatabaseOK'
<1> USE MovesFacts
<1> DEFINE path == WorkerPath(workers[w])
<1>1. PartOK(w)
  BY DEF DatabaseOK, TransactionsOK
<1>2. OwnPath(w) = path
  BY PathOfWorker
<1>3. UNCHANGED database /\ joins \subseteq joins'
  BY DEF Join
<1>4. ASSUME workers'[w].joined, ~workers[w].joined
      PROVE  [path |-> path, what |-> what] \in joins'
  BY <1>2, <1>4 DEF Join, Joined
<1>5. PartOK(w)'
  <2>1. MustOwn(workers'[w]) => owner[workers'[w].store] = w
    BY DEF MustOwn, Join, Joined, Owns, Running
  <2>2. SharesAdd(workers'[w]) => AddsShared(path)'
    BY <1>1, <1>4 DEF SharesAdd, AddsShared, PartOK
  <2>3. workers'[w].joined => \E join \in joins' : join.path = path
    BY <1>1, <1>3, <1>4 DEF PartOK
  <2> QED
    BY <2>1, <2>2, <2>3, <1>3 DEF PartOK, database
<1>6. StaysTold(w) /\ ~Told(workers'[w])
  BY DEF StaysTold, MayTell, Told
<1>7. ASSUME NEW s \in Stores, owner[s] = w
      PROVE  /\ Busy(w)'
             /\ workers'[w].store = s
             /\ workers'[w].stage \in Inside
  BY <1>7, OwnerAt DEF Inside
<1>8. /\ \A p \in Paths : ~Naming(w, p)'
      /\ \A p \in Paths : Naming(w, p) => workers[w].todo = {}
  BY DEF Naming
<1> QED
  BY <1>3, <1>5, <1>6, <1>7, <1>8, QuietKeeps DEF TellsOK

\* The images, when transactions begin and files stay.
LEMMA SameImages ==
  ASSUME ImagesOK, UNCHANGED <<files, pending, joins>>,
         \A path \in Paths : writer'[path] = Absent => writer[path] = Absent,
         \A v \in Workers, path \in Paths : Naming(v, path)' <=> Naming(v, path),
         \A v \in Workers, path \in Paths :
           Naming(v, path)' => workers'[v] = workers[v]
  PROVE  ImagesOK'
<1>1. ASSUME NEW path \in Paths
      PROVE  ImageOK(path)'
  <2>1. ImageOK(path)
    BY DEF ImagesOK
  <2>2. \A v \in Workers :
          ~AddsShared(path) /\ Naming(v, path)' =>
            NamesLeft(pending[path].master, workers'[v])
    BY <2>1 DEF ImageOK
  <2> QED
    BY <2>1, <2>2 DEF ImageOK, AddsShared
<1> QED
  BY <1>1 DEF ImagesOK

LEMMA BeginKeeps ==
  ASSUME ServiceOK, DatabaseOK, NEW w \in Workers, Moves(w), Begin(w),
         StoreOf(w).open,
         workers'[w].joined = Joined(w),
         \/ workers[w].stage = "located" /\ workers'[w].stage = "looking"
         \/ /\ workers[w].stage \in {"naming", "read"}
            /\ workers'[w].stage = "appending"
  PROVE  DatabaseOK'
<1> USE MovesFacts
<1> PICK s : s = workers[w].store
  OBVIOUS
<1>1. /\ s \in Stores
      /\ stores[s] # Absent
      /\ PathOf(s) = WorkerPath(workers[w])
      /\ PathOf(s) \in Paths
  BY PathOfWorker
<1>2. /\ owner[s] = None
      /\ writer[PathOf(s)] = Absent
      /\ owner' = [owner EXCEPT ![s] = w]
      /\ writer' = [writer EXCEPT ![PathOf(s)] = s]
      /\ UNCHANGED <<files, pending, joins>>
  BY DEF Begin
<1>3. /\ owner' \in [Stores -> Workers \union {None, Nobody}]
      /\ writer' \in [Paths -> Stores \union {Absent}]
      /\ owner'[s] = w
      /\ \A r \in Stores \ {s} : owner'[r] = owner[r]
      /\ writer'[PathOf(s)] = s
      /\ \A path \in Paths \ {PathOf(s)} : writer'[path] = writer[path]
  BY <1>1, <1>2 DEF DatabaseOK, TransactionsOK
<1>4. \A r \in Stores : PathOf(r)' = PathOf(r)
  BY DEF Moves, PathOf
<1>5. w \notin {None, Nobody} /\ s # Absent
  BY <1>1, ServiceAssumption DEF ServiceAssumption
<1>6. \A v \in Workers : v # w => workers'[v] = workers[v] /\ owner[s] # v
  BY <1>2, ServiceAssumption DEF ServiceAssumption, MovesOnly
<1>7. workers'[w].joined <=> workers[w].joined
  BY <1>2, ServiceAssumption DEF ServiceAssumption, Joined, Running
<1>8. TransactionsOK'
  <2>1. ASSUME NEW path \in Paths
        PROVE  WriterOK(path)'
    <3>1. CASE path = PathOf(s)
      BY <3>1, <1>3, <1>4, <1>5 DEF WriterOK
    <3>2. CASE path # PathOf(s)
      <4>1. writer'[path] = writer[path] /\ WriterOK(path)
        BY <3>2, <1>3 DEF DatabaseOK, TransactionsOK
      <4>2. CASE writer[path] = Absent
        BY <4>1, <4>2 DEF WriterOK
      <4>3. CASE writer[path] # Absent
        <5>1. writer[path] \in Stores \ {s}
          BY <4>1, <4>3, <1>2 DEF DatabaseOK, TransactionsOK, WriterOK
        <5> QED
          BY <5>1, <4>1, <4>3, <1>3, <1>4 DEF WriterOK
      <4> QED
        BY <4>2, <4>3
    <3> QED
      BY <3>1, <3>2
  <2>2. ASSUME NEW r \in Stores
        PROVE  OwnerOK(r)'
    <3>1. CASE r = s
      <4>1. stores'[s] = stores[s] /\ stores[s].open
        BY DEF Moves, StoreOf
      <4> QED
        BY <3>1, <4>1, <1>1, <1>3, <1>4, <1>5 DEF OwnerOK, Busy, Inside
    <3>2. CASE r # s
      <4>1. OwnerOK(r) /\ owner'[r] = owner[r] /\ owner[r] # w
        BY <3>2, <1>3, OwnerAt DEF DatabaseOK, TransactionsOK
      <4>2. CASE owner[r] \in Workers
        <5>1. writer[PathOf(r)] = r
          BY <4>1, <4>2 DEF OwnerOK
        <5>2. r # Absent /\ stores[r] # Absent /\ PathOf(r) \in Paths
          BY <4>1, <4>2, ServiceAssumption
          DEF ServiceAssumption, OwnerOK, ServiceOK, StoresOK, PathOf, Paths
        <5>3. writer'[PathOf(r)] = r
          BY <5>1, <5>2, <1>2, <1>3
        <5>4. workers'[owner[r]] = workers[owner[r]]
          BY <4>1, <4>2, <1>6
        <5> QED
          BY <4>1, <4>2, <5>3, <5>4, <1>4, ServiceAssumption
          DEF ServiceAssumption, OwnerOK, Busy, Moves
      <4>3. CASE owner[r] \notin Workers
        BY <4>1, <4>3, <1>2, <1>4 DEF OwnerOK, Moves
      <4> QED
        BY <4>2, <4>3
    <3> QED
      BY <3>1, <3>2
  <2>3. ASSUME NEW v \in Workers, Busy(v)'
        PROVE  PartOK(v)'
    <3>1. CASE v = w
      <4>1. PartOK(w)
        BY DEF DatabaseOK, TransactionsOK
      <4>2. ~SharesAdd(workers'[w])
        BY <4>1, <1>7 DEF PartOK, SharesAdd
      <4> QED
        BY <3>1, <4>1, <4>2, <1>2, <1>3, <1>7 DEF PartOK
    <3>2. CASE v # w
      <4>1. workers'[v] = workers[v] /\ PartOK(v)
        BY <3>2, <2>3, <1>6 DEF Busy, DatabaseOK, TransactionsOK
      <4>2. MustOwn(workers[v]) => owner'[workers[v].store] = v
        <5>1. ASSUME MustOwn(workers[v])
              PROVE  workers[v].store \in Stores \ {s}
          <6>1. owner[workers[v].store] = v
            BY <4>1, <5>1 DEF PartOK
          <6>2. workers[v].store \in Stores
            BY <5>1, <4>1, <2>3, PathOfWorker DEF MustOwn, Busy
          <6> QED
            BY <6>1, <6>2, <3>2, <1>6
        <5> QED
          BY <5>1, <4>1, <1>3 DEF PartOK
      <4> QED
        BY <4>1, <4>2, <1>2 DEF PartOK, AddsShared
    <3> QED
      BY <3>1, <3>2
  <2> QED
    BY <2>1, <2>2, <2>3, <1>3 DEF TransactionsOK
<1>9. ImagesOK'
  <2>1. ASSUME NEW v \in Workers, NEW path \in Paths
        PROVE  /\ Naming(v, path)' <=> Naming(v, path)
               /\ Naming(v, path)' => workers'[v] = workers[v]
    <3>1. CASE v = w
      BY <3>1, <1>2, <1>5 DEF Naming
    <3>2. CASE v # w
      <4>1. workers'[v] = workers[v]
        BY <3>2, <1>6
      <4>2. Busy(v) /\ workers[v].stage = "naming" => workers[v].store \in Stores
        BY PathOfWorker
      <4> QED
        BY <3>2, <4>1, <4>2, <1>3, <1>6 DEF Naming, Busy
    <3> QED
      BY <3>1, <3>2
  <2>2. \A path \in Paths : writer'[path] = Absent => writer[path] = Absent
    BY <1>3, <1>5
  <2> QED
    BY <2>1, <2>2, <1>2, SameImages DEF DatabaseOK
<1>10. EventsOK'
  <2>1. StaysTold(w)
    BY DEF StaysTold, MayTell, Told
  <2> QED
    BY <2>1, <1>2, EventStays DEF DatabaseOK, EventsOK
<1>11. ASSUME NEW v \in Workers, Busy(v)'
       PROVE  TellsOK(v)'
  <2>1. CASE v = w
    BY <2>1 DEF TellsOK, Told
  <2>2. CASE v # w
    BY <2>2, <1>2, <1>6, <1>11 DEF Busy, DatabaseOK, TellsOK
  <2> QED
    BY <2>1, <2>2
<1> QED
  BY <1>8, <1>9, <1>10, <1>11 DEF DatabaseOK

LEMMA StartKeeps ==
  ASSUME ServiceOK, DatabaseOK, NEW w \in Workers, StartAdd(w) \/ StartEvent(w)
  PROVE  DatabaseOK'
<1>1. CASE StartAdd(w)
  <2>1. Begin(w) \/ Join(w, "add")
    BY <1>1 DEF StartAdd
  <2> QED
    BY <2>1, <1>1, StartAddMoves, BeginKeeps, JoinKeeps
<1>2. CASE StartEvent(w)
  <2>1. Begin(w) \/ Join(w, "event")
    BY <1>2 DEF StartEvent
  <2> QED
    BY <2>1, <1>2, StartEventMoves, BeginKeeps, JoinKeeps
<1> QED
  BY <1>1, <1>2

-----------------------------------------------------------------------------
(* Transactions that end.                                                  *)

LEMMA EndedFacts ==
  ASSUME TransactionsOK, NEW s \in Stores, EndTransaction(s)
  PROVE  /\ owner' \in [Stores -> Workers \union {None, Nobody}]
         /\ writer' \in [Paths -> Stores \union {Absent}]
         /\ owner'[s] = None
         /\ \A r \in Stores \ {s} : owner'[r] = owner[r]
         /\ \A path \in Paths :
              writer'[path] = IF writer[path] = s THEN Absent ELSE writer[path]
  BY DEF TransactionsOK, EndTransaction

\* The transaction of a store ends; its owner, if it is a worker's, goes on.
LEMMA EndedTransactions ==
  ASSUME ServiceOK, TransactionsOK, NEW s \in Stores, EndTransaction(s),
         joins' = joins,
         \A r \in Stores : r # s => stores'[r] = stores[r],
         \A v \in Workers : owner[s] # v => workers'[v] = workers[v],
         \A v \in Workers : owner[s] = v /\ Busy(v)' => PartOK(v)'
  PROVE  TransactionsOK'
<1>1. /\ owner' \in [Stores -> Workers \union {None, Nobody}]
      /\ writer' \in [Paths -> Stores \union {Absent}]
      /\ owner'[s] = None
      /\ \A r \in Stores \ {s} : owner'[r] = owner[r]
      /\ \A path \in Paths :
           writer'[path] = IF writer[path] = s THEN Absent ELSE writer[path]
  BY EndedFacts
<1>2. ASSUME NEW path \in Paths
      PROVE  WriterOK(path)'
  <2>1. CASE writer'[path] = Absent
    BY <2>1 DEF WriterOK
  <2>2. CASE writer'[path] # Absent
    <3>1. /\ writer'[path] = writer[path]
          /\ writer[path] \in Stores \ {s}
          /\ WriterOK(path)
      BY <2>2, <1>1 DEF TransactionsOK
    <3> QED
      BY <2>2, <3>1, <1>1 DEF WriterOK, PathOf
  <2> QED
    BY <2>1, <2>2
<1>3. ASSUME NEW r \in Stores
      PROVE  OwnerOK(r)'
  <2>1. CASE r = s
    BY <2>1, <1>1, ServiceAssumption DEF ServiceAssumption, OwnerOK
  <2>2. CASE r # s
    <3>1. /\ OwnerOK(r)
          /\ owner'[r] = owner[r]
          /\ stores'[r] = stores[r]
          /\ PathOf(r)' = PathOf(r)
      BY <2>2, <1>1 DEF TransactionsOK, PathOf
    <3>2. CASE owner[r] \in Workers
      <4>1. /\ workers[owner[r]].store = r
            /\ writer[PathOf(r)] = r
            /\ stores[r] # Absent
        BY <3>1, <3>2, ServiceAssumption DEF ServiceAssumption, OwnerOK
      <4>2. workers'[owner[r]] = workers[owner[r]]
        <5>1. ASSUME owner[s] = owner[r]
              PROVE  FALSE
          BY <2>2, <3>2, <4>1, <5>1 DEF TransactionsOK, OwnerOK
        <5> QED
          BY <5>1, <3>2
      <4>3. PathOf(r) \in Paths
        BY <4>1 DEF ServiceOK, StoresOK, PathOf, Paths
      <4>4. writer'[PathOf(r)] = r
        BY <2>2, <4>1, <4>3, <1>1
      <4> QED
        BY <3>1, <3>2, <4>2, <4>4, ServiceAssumption
        DEF ServiceAssumption, OwnerOK, Busy
    <3>3. CASE owner[r] \notin Workers
      BY <3>1, <3>3 DEF OwnerOK
    <3> QED
      BY <3>2, <3>3
  <2> QED
    BY <2>1, <2>2
<1>4. ASSUME NEW v \in Workers, Busy(v)'
      PROVE  PartOK(v)'
  <2>1. CASE owner[s] = v
    BY <2>1, <1>4
  <2>2. CASE owner[s] # v
    <3>1. workers'[v] = workers[v] /\ Busy(v) /\ PartOK(v)
      BY <2>2, <1>4 DEF Busy, TransactionsOK
    <3>2. MustOwn(workers[v]) => workers[v].store \in Stores \ {s}
      BY <2>2, <3>1, PathOfWorker DEF PartOK, MustOwn
    <3> QED
      BY <3>1, <3>2, <1>1 DEF PartOK, AddsShared
  <2> QED
    BY <2>1, <2>2
<1> QED
  BY <1>1, <1>2, <1>3, <1>4 DEF TransactionsOK

\* Who is naming the identifiers of an instrument goes on with it, unless the
\* transaction that ends is its own.
LEMMA EndedNaming ==
  ASSUME ServiceOK, DatabaseOK, NEW s \in Stores, EndTransaction(s),
         \A u \in Workers : owner[s] # u => workers'[u] = workers[u],
         \A u \in Workers : owner[s] = u => workers'[u].store = s,
         NEW v \in Workers, NEW path \in Paths
  PROVE  /\ Naming(v, path) => writer[path] = workers[v].store
         /\ Naming(v, path) /\ writer[path] = s => owner[s] = v
         /\ Naming(v, path)' <=> Naming(v, path) /\ writer[path] # s
         /\ Naming(v, path)' => workers'[v] = workers[v]
<1>1. /\ owner'[s] = None
      /\ \A r \in Stores \ {s} : owner'[r] = owner[r]
  BY EndedFacts DEF DatabaseOK
<1>2. v # None
  BY ServiceAssumption DEF ServiceAssumption
<1>3. ASSUME Naming(v, path)
      PROVE  /\ workers[v].store \in Stores
             /\ writer[path] = workers[v].store
             /\ owner[workers[v].store] = v
  <2>1. /\ workers[v].store \in Stores
        /\ PathOf(workers[v].store) = path
        /\ owner[workers[v].store] = v
    BY <1>3, PathOfWorker DEF Naming
  <2> QED
    BY <2>1, OwnerAt
<1>4. CASE owner[s] = v
  <2>1. workers[v].store = s /\ workers'[v].store = s
    BY <1>4, OwnerAt
  <2> QED
    BY <2>1, <1>1, <1>2, <1>3, <1>4 DEF Naming
<1>5. CASE owner[s] # v
  <2>1. workers'[v] = workers[v]
    BY <1>5
  <2>2. Busy(v) /\ workers[v].stage = "naming" => workers[v].store \in Stores
    BY PathOfWorker
  <2>3. Naming(v, path)' <=> Naming(v, path)
    BY <2>1, <2>2, <1>1, <1>2, <1>5 DEF Naming, Busy
  <2> QED
    BY <2>1, <2>3, <1>3, <1>5
<1> QED
  BY <1>4, <1>5

\* What is pending is lost, or is committed.
LEMMA EndedImages ==
  ASSUME ServiceOK, DatabaseOK, NEW s \in Stores, EndTransaction(s),
         joins' = joins,
         \A u \in Workers : owner[s] # u => workers'[u] = workers[u],
         \A u \in Workers : owner[s] = u => workers'[u].store = s,
         NEW ends,
         \/ ends = files
         \/ /\ ends = pending
            /\ \A v \in Workers : workers[v].stage = "naming" => owner[s] # v,
         files' \in [Paths -> {files'[path] : path \in Paths}],
         pending' \in [Paths -> {pending'[path] : path \in Paths}],
         \A path \in Paths :
           /\ writer[path] = s =>
                files'[path] = ends[path] /\ pending'[path] = ends[path]
           /\ writer[path] # s =>
                files'[path] = files[path] /\ pending'[path] = pending[path]
  PROVE  ImagesOK'
<1>1. \A path \in Paths :
        writer'[path] = IF writer[path] = s THEN Absent ELSE writer[path]
  BY EndedFacts DEF DatabaseOK
<1>2. ASSUME NEW path \in Paths
      PROVE  ImageOK(path)'
  <2>1. ImageOK(path)
    BY DEF DatabaseOK, ImagesOK
  <2>2. AddsShared(path)' <=> AddsShared(path)
    BY DEF AddsShared
  <2>3. \A v \in Workers :
          /\ Naming(v, path) /\ writer[path] = s => owner[s] = v
          /\ Naming(v, path)' <=> Naming(v, path) /\ writer[path] # s
          /\ Naming(v, path)' => workers'[v] = workers[v]
    BY EndedNaming
  <2>4. CASE writer[path] = s
    <3>1. /\ files'[path] = ends[path] /\ pending'[path] = ends[path]
          /\ \A v \in Workers : ~Naming(v, path)'
      BY <2>3, <2>4
    <3>2. CASE ends = files
      BY <2>1, <2>2, <3>1, <3>2 DEF ImageOK
    <3>3. CASE /\ ends = pending
               /\ \A v \in Workers : workers[v].stage = "naming" => owner[s] # v
      <4>1. \A v \in Workers : ~Naming(v, path)
        BY <2>3, <2>4, <3>3 DEF Naming
      <4>2. ~AddsShared(path) => MasterOK(pending[path].master)
        BY <2>1, <4>1 DEF ImageOK
      <4> QED
        BY <2>1, <2>2, <3>1, <3>3, <4>2 DEF ImageOK
    <3> QED
      BY <3>2, <3>3
  <2>5. CASE writer[path] # s
    <3>1. /\ files'[path] = files[path] /\ pending'[path] = pending[path]
          /\ writer'[path] = writer[path]
          /\ \A v \in Workers : Naming(v, path)' <=> Naming(v, path)
          /\ \A v \in Workers : Naming(v, path)' => workers'[v] = workers[v]
      BY <2>3, <2>5, <1>1
    <3>2. \A v \in Workers :
            ~AddsShared(path) /\ Naming(v, path)' =>
              NamesLeft(pending[path].master, workers'[v])
      BY <2>1, <3>1 DEF ImageOK
    <3> QED
      BY <2>1, <2>2, <3>1, <3>2 DEF ImageOK
  <2> QED
    BY <2>4, <2>5
<1> QED
  BY <1>2 DEF ImagesOK

\* After a ROLLBACK the events are those of the files.
LEMMA RolledBack ==
  ASSUME ServiceOK, DatabaseOK, NEW s \in Stores, RollBack(s)
  PROVE  /\ EndTransaction(s)
         /\ files' = files /\ joins' = joins
         /\ pending' \in [Paths -> {pending'[path] : path \in Paths}]
         /\ \A path \in Paths :
              /\ writer[path] = s => pending'[path] = files[path]
              /\ writer[path] # s => pending'[path] = pending[path]
         /\ \A path \in Paths :
              files'[path].audit \union pending'[path].audit \subseteq
                files[path].audit \union pending[path].audit
  BY DEF RollBack

\* What another worker has told stays when the transaction ends.
LEMMA OthersTell ==
  ASSUME ServiceOK, DatabaseOK, NEW s \in Stores,
         NEW v \in Workers, owner[s] # v, workers'[v] = workers[v], Busy(v)',
         \A path \in Paths : files[path].audit \subseteq files'[path].audit,
         \A path \in Paths : writer[path] # s => pending'[path] = pending[path]
  PROVE  TellsOK(v)'
<1>1. Busy(v) /\ TellsOK(v) /\ PartOK(v)
  BY DEF Busy, DatabaseOK, TransactionsOK
<1>2. ASSUME Told(workers[v]), ~workers[v].joined
      PROVE  /\ Allowed(workers[v])
             /\ WorkerPath(workers[v]) \in Paths
  <2>1. Allowed(workers[v])
    BY <1>1, <1>2 DEF TellsOK
  <2>2. workers[v].principal.tenant \in Tenants
    BY <1>1, <2>1, AllowedTenant DEF ServiceOK, WorkersOK, WorkerOK
  <2> QED
    BY <2>1, <2>2 DEF WorkerPath, Paths
<1>3. ASSUME Told(workers[v]), ~workers[v].joined, workers[v].stage = "leaving"
      PROVE  writer[WorkerPath(workers[v])] # s
  <2>1. owner[workers[v].store] = v
    BY <1>1, <1>3 DEF PartOK, MustOwn
  <2>2. /\ workers[v].store \in Stores
        /\ PathOf(workers[v].store) = WorkerPath(workers[v])
    BY <1>1, <1>3, PathOfWorker
  <2>3. writer[WorkerPath(workers[v])] = workers[v].store
    BY <2>1, <2>2, OwnerAt
  <2> QED
    BY <2>1, <2>2, <2>3
<1> QED
  BY <1>1, <1>2, <1>3 DEF TellsOK

\* A worker in a transaction of its own raises.
LEMMA RaiseOwnKeeps ==
  ASSUME ServiceOK, DatabaseOK, NEW w \in Workers, Moves(w),
         NEW status, status \in {409, 500}, Raise(w, status),
         workers[w].stage \in Inside, Owns(w),
         status = 409 => workers[w].stage # "leaving"
  PROVE  DatabaseOK'
<1> USE MovesFacts
<1> PICK s : s = workers[w].store
  OBVIOUS
<1>1. s \in Stores /\ owner[s] = w
  BY PathOfWorker DEF Inside, Owns
<1>2. RollBack(s) /\ Respond(w, status, None)
  BY DEF Raise
<1>3. /\ workers'[w].stage = "answered"
      /\ workers'[w].joined = workers[w].joined
      /\ workers'[w].status = status
  BY <1>2, Responding DEF Moves
<1>4. /\ EndTransaction(s)
      /\ files' = files /\ joins' = joins
      /\ pending' \in [Paths -> {pending'[path] : path \in Paths}]
      /\ \A path \in Paths :
           /\ writer[path] = s => pending'[path] = files[path]
           /\ writer[path] # s => pending'[path] = pending[path]
      /\ \A path \in Paths :
           files'[path].audit \union pending'[path].audit \subseteq
             files[path].audit \union pending[path].audit
  BY <1>1, <1>2, RolledBack
<1>5. /\ \A v \in Workers : owner[s] # v => workers'[v] = workers[v]
      /\ \A v \in Workers : owner[s] = v => workers'[v].store = s
  BY <1>1 DEF MovesOnly
<1>6. TransactionsOK'
  <2>1. PartOK(w)
    BY DEF DatabaseOK, TransactionsOK
  <2>2. PartOK(w)'
    BY <2>1, <1>3, <1>4 DEF PartOK, MustOwn, SharesAdd
  <2> QED
    BY <2>2, <1>1, <1>4, <1>5, EndedTransactions DEF DatabaseOK, Moves
<1>7. ImagesOK'
  <2>1. files' \in [Paths -> {files'[path] : path \in Paths}]
    BY <1>4 DEF DatabaseOK, ImagesOK
  <2>2. \A path \in Paths :
          /\ writer[path] = s =>
               files'[path] = files[path] /\ pending'[path] = files[path]
          /\ writer[path] # s =>
               files'[path] = files[path] /\ pending'[path] = pending[path]
    BY <1>4
  <2> QED
    BY <2>1, <2>2, <1>1, <1>4, <1>5, EndedImages
<1>8. EventsOK'
  <2>1. StaysTold(w)
    BY <1>3 DEF StaysTold, MayTell, Told, Writes, Inside
  <2> QED
    BY <2>1, <1>4, EventStays DEF DatabaseOK, EventsOK, Paths
<1>9. ASSUME NEW v \in Workers, Busy(v)'
      PROVE  TellsOK(v)'
  <2>1. CASE v = w
    BY <2>1, <1>3 DEF TellsOK, Told
  <2>2. CASE v # w
    BY <2>2, <1>1, <1>4, <1>5, <1>9, OthersTell
  <2> QED
    BY <2>1, <2>2
<1> QED
  BY <1>6, <1>7, <1>8, <1>9 DEF DatabaseOK
\* A call that raises.
LEMMA RaiseKeeps ==
  ASSUME ServiceOK, DatabaseOK, NEW w \in Workers, Moves(w),
         NEW status, status \in {409, 500}, Raise(w, status),
         workers[w].stage \in Inside,
         status = 409 => workers[w].stage # "leaving"
  PROVE  DatabaseOK'
  BY RaiseOwnKeeps, RaiseOutside

LEMMA SelectsKeep ==
  ASSUME ServiceOK, DatabaseOK, NEW w \in Workers,
         LookUp(w) \/ CheckIdentifier(w) \/ Fails(w)
  PROVE  DatabaseOK'
<1>1. CASE LookUp(w)
  <2>1. /\ workers[w].stage = "looking" /\ workers[w].stage \in Inside
        /\ Moves(w)
        /\ \/ /\ workers'[w].stage = "checking"
              /\ workers'[w].joined = workers[w].joined
              /\ UNCHANGED <<database, joins>>
           \/ /\ workers'[w].stage = IF Owns(w) THEN "leaving" ELSE "executed"
              /\ workers'[w].result = [created |-> FALSE]
              /\ workers[w].request.operation.kind = "add"
              /\ workers'[w].joined = workers[w].joined
              /\ UNCHANGED <<database, joins>>
           \/ Raise(w, 409)
    BY <1>1, LookUpMoves DEF Inside
  <2>2. CASE Raise(w, 409)
    BY <2>1, <2>2, RaiseKeeps
  <2>3. CASE ~Raise(w, 409)
    BY <2>1, <2>3, SelectKeeps
  <2> QED
    BY <2>2, <2>3
<1>2. CASE CheckIdentifier(w)
  <2>1. /\ workers[w].stage = "checking" /\ workers[w].stage \in Inside
        /\ Moves(w)
        /\ \/ /\ workers'[w].stage = "checking"
              /\ workers'[w].joined = workers[w].joined
              /\ UNCHANGED <<database, joins>>
           \/ Raise(w, 409)
    BY <1>2, CheckIdentifierMoves DEF Inside
  <2>2. CASE Raise(w, 409)
    BY <2>1, <2>2, RaiseKeeps
  <2>3. CASE ~Raise(w, 409)
    BY <2>1, <2>3, SelectKeeps
  <2> QED
    BY <2>2, <2>3
<1>3. CASE Fails(w)
  BY <1>3, FailsMoves, RaiseKeeps DEF Inside
<1> QED
  BY <1>1, <1>2, <1>3

-----------------------------------------------------------------------------
(* INSERTs.                                                                *)

\* An INSERT leaves the connection in a transaction, which is nobody's if the
\* one the worker has joined is over.
LEMMA TakenTransactions ==
  ASSUME ServiceOK, DatabaseOK, NEW w \in Workers, Moves(w),
         workers[w].stage \in {"checking", "naming", "appending"},
         StoreOf(w).open,
         owner' = [owner EXCEPT ![workers[w].store] = IF @ = None THEN Nobody ELSE @],
         \/ writer' = writer
         \/ /\ MayWrite(w)
            /\ writer' = [writer EXCEPT
                 ![PathOf(workers[w].store)] = workers[w].store],
         joins' = joins,
         workers'[w].joined = workers[w].joined,
         workers'[w].stage \in Inside \/ ~Owns(w),
         workers'[w].stage \notin {"admitted", "located"},
         MustOwn(workers'[w]) => Owns(w),
         SharesAdd(workers'[w]) => SharesAdd(workers[w])
  PROVE  /\ TransactionsOK'
         /\ \A r \in Stores, v \in Workers : owner'[r] = v <=> owner[r] = v
<1> USE MovesFacts
<1> PICK s : s = workers[w].store
  OBVIOUS
<1>1. /\ s \in Stores
      /\ stores[s] # Absent
      /\ stores[s].open
      /\ PathOf(s) = WorkerPath(workers[w])
      /\ PathOf(s) \in Paths
  BY PathOfWorker DEF StoreOf
<1>2. /\ owner' \in [Stores -> Workers \union {None, Nobody}]
      /\ owner'[s] = IF owner[s] = None THEN Nobody ELSE owner[s]
      /\ \A r \in Stores \ {s} : owner'[r] = owner[r]
  BY <1>1 DEF DatabaseOK, TransactionsOK
<1>3. \A r \in Stores, v \in Workers : owner'[r] = v <=> owner[r] = v
  BY <1>2, ServiceAssumption DEF ServiceAssumption
<1>4. /\ writer' \in [Paths -> Stores \union {Absent}]
      /\ \A path \in Paths \ {PathOf(s)} : writer'[path] = writer[path]
      /\ \/ writer'[PathOf(s)] = writer[PathOf(s)]
         \/ writer[PathOf(s)] \in {Absent, s} /\ writer'[PathOf(s)] = s
  BY <1>1 DEF DatabaseOK, TransactionsOK, MayWrite, OwnPath
<1>5. \A r \in Stores : PathOf(r)' = PathOf(r)
  BY DEF Moves, PathOf
<1>6. PartOK(w) /\ s # Absent /\ None # Nobody
  BY <1>1, ServiceAssumption DEF ServiceAssumption, DatabaseOK, TransactionsOK
<1>7. ASSUME NEW path \in Paths
      PROVE  WriterOK(path)'
  <2>1. CASE writer'[path] = writer[path]
    <3>1. CASE writer[path] = Absent
      BY <2>1, <3>1 DEF WriterOK
    <3>2. CASE writer[path] # Absent
      <4>1. WriterOK(path) /\ writer[path] \in Stores
        BY <3>2 DEF DatabaseOK, TransactionsOK
      <4>2. owner'[writer[path]] # None
        BY <4>1, <3>2, <1>2, <1>6 DEF WriterOK
      <4> QED
        BY <2>1, <3>2, <4>1, <4>2, <1>5 DEF WriterOK
    <3> QED
      BY <3>1, <3>2
  <2>2. CASE writer'[path] # writer[path]
    <3>1. path = PathOf(s) /\ writer'[path] = s
      BY <2>2, <1>4
    <3>2. owner'[s] # None
      BY <1>2, <1>6
    <3> QED
      BY <3>1, <3>2, <1>1, <1>5 DEF WriterOK
  <2> QED
    BY <2>1, <2>2
<1>8. ASSUME NEW r \in Stores
      PROVE  OwnerOK(r)'
  <2>1. OwnerOK(r) /\ stores'[r] = stores[r] /\ PathOf(r)' = PathOf(r)
    BY <1>5 DEF Moves, DatabaseOK, TransactionsOK
  <2>2. CASE owner[r] \in Workers
    <3>1. owner'[r] = owner[r]
      BY <2>2, <1>3
    <3>2. /\ Busy(owner[r])
          /\ workers[owner[r]].store = r
          /\ workers[owner[r]].stage \in Inside
          /\ writer[PathOf(r)] = r
          /\ stores[r] # Absent /\ stores[r].open
      BY <2>1, <2>2, ServiceAssumption DEF ServiceAssumption, OwnerOK
    <3>3. /\ workers'[owner[r]] # Idle
          /\ workers'[owner[r]].store = r
          /\ workers'[owner[r]].stage \in Inside
      <4>1. CASE owner[r] = w
        BY <4>1, <3>2 DEF Owns, Busy
      <4>2. CASE owner[r] # w
        BY <4>2, <3>2, <2>2 DEF MovesOnly, Busy
      <4> QED
        BY <4>1, <4>2
    <3>4. writer'[PathOf(r)] = r
      <4>1. PathOf(r) \in Paths /\ r # Absent
        BY <3>2, ServiceAssumption
        DEF ServiceAssumption, ServiceOK, StoresOK, PathOf, Paths
      <4> QED
        BY <4>1, <3>2, <1>4
    <3> QED
      BY <2>1, <2>2, <3>1, <3>2, <3>3, <3>4, ServiceAssumption
      DEF ServiceAssumption, OwnerOK, Busy
  <2>3. CASE owner[r] \notin Workers
    <3>1. CASE owner'[r] = owner[r]
      BY <2>1, <2>3, <3>1 DEF OwnerOK
    <3>2. CASE owner'[r] # owner[r]
      <4>1. r = s /\ owner[s] = None /\ owner'[s] = Nobody
        BY <3>2, <1>2
      <4>2. workers[w].joined
        BY <4>1, <1>6, ServiceAssumption
        DEF ServiceAssumption, PartOK, MustOwn
      <4>3. \E join \in joins : join.path = PathOf(s)
        BY <4>2, <1>1, <1>6 DEF PartOK
      <4> QED
        BY <4>1, <4>3, <2>1, <1>1, ServiceAssumption
        DEF ServiceAssumption, OwnerOK
    <3> QED
      BY <3>1, <3>2
  <2> QED
    BY <2>2, <2>3
<1>9. ASSUME NEW v \in Workers, Busy(v)'
      PROVE  PartOK(v)'
  <2>1. CASE v = w
    <3>1. MustOwn(workers'[w]) => owner'[workers'[w].store] = w
      BY <1>1, <1>3 DEF Owns
    <3> QED
      BY <2>1, <3>1, <1>6 DEF PartOK, AddsShared
  <2>2. CASE v # w
    <3>1. workers'[v] = workers[v] /\ Busy(v) /\ PartOK(v)
      BY <2>2, <1>9 DEF MovesOnly, Busy, DatabaseOK, TransactionsOK
    <3>2. MustOwn(workers[v]) => workers[v].store \in Stores
      BY <3>1, PathOfWorker DEF MustOwn
    <3> QED
      BY <3>1, <3>2, <1>3 DEF PartOK, AddsShared
  <2> QED
    BY <2>1, <2>2
<1> QED
  BY <1>2, <1>3, <1>4, <1>7, <1>8, <1>9 DEF TransactionsOK

\* Who else is naming identifiers goes on.
LEMMA TakenNaming ==
  ASSUME ServiceOK, DatabaseOK, NEW w \in Workers, Moves(w),
         \A r \in Stores, v \in Workers : owner'[r] = v <=> owner[r] = v,
         NEW v \in Workers, v # w, NEW path \in Paths
  PROVE  /\ Naming(v, path)' <=> Naming(v, path)
         /\ workers'[v] = workers[v]
<1>1. workers'[v] = workers[v]
  BY DEF Moves, MovesOnly
<1>2. Busy(v) /\ workers[v].stage = "naming" => workers[v].store \in Stores
  BY PathOfWorker
<1> QED
  BY <1>1, <1>2 DEF Naming, Busy

LEMMA InsertRefusedKeeps ==
  ASSUME ServiceOK, DatabaseOK, NEW w \in Workers, Busy(w),
         workers[w].stage \in {"checking", "naming", "appending"},
         StoreOf(w).open, InsertRefused(w), UNCHANGED others
  PROVE  DatabaseOK'
<1>1. /\ Moves(w)
      /\ workers'[w].stage = "answered"
      /\ workers'[w].status = 500
  BY InsertRefusedMoves
<1>2. CASE owner[workers[w].store] # None
  BY <1>1, <1>2, RaiseKeeps DEF InsertRefused, Inside
<1>3. CASE owner[workers[w].store] = None
  <2> USE MovesFacts, <1>1
  <2>1. /\ Respond(w, 500, None)
        /\ owner' = [owner EXCEPT ![workers[w].store] = Nobody]
        /\ \/ writer' = writer
           \/ /\ MayWrite(w)
              /\ writer' = [writer EXCEPT
                   ![PathOf(workers[w].store)] = workers[w].store]
        /\ UNCHANGED <<files, pending, joins>>
    BY <1>3 DEF InsertRefused
  <2>2. workers'[w].joined = workers[w].joined
    BY <2>1, Responding DEF Moves
  <2>3. workers[w].store \in Stores /\ PathOf(workers[w].store) \in Paths
    BY PathOfWorker
  <2>4. owner' = [owner EXCEPT
          ![workers[w].store] = IF @ = None THEN Nobody ELSE @]
    BY <2>1, <2>3, <1>3 DEF DatabaseOK, TransactionsOK
  <2>5. /\ TransactionsOK'
        /\ \A r \in Stores, v \in Workers : owner'[r] = v <=> owner[r] = v
    <3>1. ~Owns(w) /\ ~MustOwn(workers'[w]) /\ ~SharesAdd(workers'[w])
      BY <1>3, ServiceAssumption DEF ServiceAssumption, Owns, MustOwn, SharesAdd
    <3> QED
      BY <2>1, <2>2, <2>4, <3>1, TakenTransactions
  <2>6. ImagesOK'
    <3>1. ASSUME NEW v \in Workers, NEW path \in Paths
          PROVE  /\ Naming(v, path)' <=> Naming(v, path)
                 /\ Naming(v, path)' => workers'[v] = workers[v]
      <4>1. CASE v = w
        BY <4>1, <1>3, ServiceAssumption DEF ServiceAssumption, Naming
      <4>2. CASE v # w
        BY <4>2, <2>5, TakenNaming
      <4> QED
        BY <4>1, <4>2
    <3>2. \A path \in Paths : writer'[path] = Absent => writer[path] = Absent
      BY <2>1, <2>3, ServiceAssumption
      DEF ServiceAssumption, DatabaseOK, TransactionsOK
    <3> QED
      BY <2>1, <3>1, <3>2, SameImages DEF DatabaseOK
  <2>7. EventsOK'
    <3>1. StaysTold(w)
      BY DEF StaysTold, MayTell, Told
    <3> QED
      BY <2>1, <3>1, EventStays DEF DatabaseOK, EventsOK
  <2>8. ASSUME NEW v \in Workers, Busy(v)'
        PROVE  TellsOK(v)'
    <3>1. CASE v = w
      BY <3>1 DEF TellsOK, Told
    <3>2. CASE v # w
      BY <3>2, <2>1, <2>8 DEF MovesOnly, Busy, DatabaseOK, TellsOK
    <3> QED
      BY <3>1, <3>2
  <2> QED
    BY <2>5, <2>6, <2>7, <2>8 DEF DatabaseOK
<1> QED
  BY <1>2, <1>3

\* What an INSERT puts in the place of what was pending.
LEMMA InsertedImages ==
  ASSUME ServiceOK, DatabaseOK, NEW w \in Workers, Moves(w),
         workers[w].stage \in {"checking", "naming", "appending"},
         MayWrite(w), NEW image, Insert(w, image),
         \A r \in Stores, v \in Workers : owner'[r] = v <=> owner[r] = v,
         IsImage(image), SoundMaster(image.master),
         pending[WorkerPath(workers[w])].audit \subseteq image.audit,
         \/ /\ image.master = pending[WorkerPath(workers[w])].master
            /\ workers[w].stage # "naming"
            /\ workers'[w].stage # "naming"
         \/ /\ workers'[w].stage = "naming"
            /\ ~AddsShared(WorkerPath(workers[w])) =>
                 Owns(w) /\ NamesLeft(image.master, workers'[w])
  PROVE  /\ ImagesOK'
         /\ files' = files
         /\ pending'[WorkerPath(workers[w])] = image
         /\ \A path \in Paths :
              path # WorkerPath(workers[w]) => pending'[path] = pending[path]
<1> USE MovesFacts
<1> PICK own : own = WorkerPath(workers[w])
  OBVIOUS
<1> PICK s : s = workers[w].store
  OBVIOUS
<1>1. /\ s \in Stores
      /\ PathOf(s) = own
      /\ own \in Paths
  BY PathOfWorker
<1>2. /\ files' = files /\ joins' = joins
      /\ pending' \in [Paths -> {pending'[path] : path \in Paths}]
      /\ pending'[own] = image
      /\ \A path \in Paths \ {own} : pending'[path] = pending[path]
      /\ writer'[own] = s
      /\ \A path \in Paths \ {own} : writer'[path] = writer[path]
  BY <1>1 DEF Insert, DatabaseOK, TransactionsOK, ImagesOK
<1>3. \A v \in Workers \ {w}, path \in Paths :
        /\ Naming(v, path)' <=> Naming(v, path)
        /\ workers'[v] = workers[v]
  BY TakenNaming
<1>4. ASSUME NEW path \in Paths
      PROVE  ImageOK(path)'
  <2>1. ImageOK(path)
    BY DEF DatabaseOK, ImagesOK
  <2>2. AddsShared(path)' <=> AddsShared(path)
    BY <1>2 DEF AddsShared
  <2>3. CASE path # own
    <3>1. ~Naming(w, path) /\ ~Naming(w, path)'
      BY <2>3 DEF Naming
    <3>2. \A v \in Workers :
            /\ Naming(v, path)' <=> Naming(v, path)
            /\ Naming(v, path)' => workers'[v] = workers[v]
      BY <3>1, <1>3
    <3>3. /\ pending'[path] = pending[path]
          /\ writer'[path] = writer[path]
      BY <2>3, <1>2
    <3>4. \A v \in Workers :
            ~AddsShared(path) /\ Naming(v, path)' =>
              NamesLeft(pending[path].master, workers'[v])
      BY <2>1, <3>2 DEF ImageOK
    <3> QED
      BY <2>1, <2>2, <3>2, <3>3, <3>4, <1>2 DEF ImageOK
  <2>4. CASE path = own
    <3>1. /\ files'[path] = files[path]
          /\ pending'[path] = image
          /\ writer'[path] # Absent
          /\ files[path].audit \subseteq image.audit
      BY <2>1, <2>4, <1>1, <1>2, ServiceAssumption DEF ServiceAssumption, ImageOK
    <3>2. ASSUME ~AddsShared(path)
          PROVE  /\ \A v \in Workers :
                      Naming(v, path)' => NamesLeft(image.master, workers'[v])
                 /\ (\A v \in Workers : ~Naming(v, path)') =>
                      MasterOK(image.master)
      <4>1. CASE /\ image.master = pending[path].master
                 /\ workers[w].stage # "naming"
                 /\ workers'[w].stage # "naming"
        <5>1. ~Naming(w, path) /\ ~Naming(w, path)'
          BY <4>1 DEF Naming
        <5> QED
          BY <3>2, <4>1, <5>1, <1>3, <2>1 DEF ImageOK
      <4>2. CASE /\ workers'[w].stage = "naming"
                 /\ Owns(w)
                 /\ NamesLeft(image.master, workers'[w])
        <5>1. owner[s] = w /\ writer[own] = s
          BY <4>2, <1>1, OwnerAt DEF Owns
        <5>2. owner'[workers'[w].store] = w
          BY <5>1, <1>1
        <5>3. Naming(w, path)'
          BY <4>2, <5>2, <2>4 DEF Naming
        <5>4. ASSUME NEW v \in Workers \ {w}
              PROVE  ~Naming(v, path)
          <6>1. SUFFICES ASSUME Naming(v, path)
                         PROVE  FALSE
            OBVIOUS
          <6>2. /\ workers[v].store \in Stores
                /\ PathOf(workers[v].store) = own
                /\ owner[workers[v].store] = v
            BY <6>1, <2>4, PathOfWorker DEF Naming
          <6>3. writer[own] = workers[v].store
            BY <6>2, OwnerAt
          <6> QED
            BY <6>2, <6>3, <5>1
        <5> QED
          BY <4>2, <5>3, <5>4, <1>3
      <4> QED
        BY <3>2, <4>1, <4>2, <2>4
    <3> QED
      BY <2>1, <2>2, <3>1, <3>2, <1>2 DEF ImageOK
  <2> QED
    BY <2>3, <2>4
<1> QED
  BY <1>2, <1>4 DEF DatabaseOK, ImagesOK

\* The other workers' events stay told when one is inserted.
LEMMA InsertedTells ==
  ASSUME ServiceOK, DatabaseOK, NEW w \in Workers, Moves(w),
         files' = files, NEW image,
         pending[WorkerPath(workers[w])].audit \subseteq image.audit,
         pending'[WorkerPath(workers[w])] = image,
         \A path \in Paths :
           path # WorkerPath(workers[w]) => pending'[path] = pending[path],
         NEW v \in Workers, v # w, Busy(v)'
  PROVE  TellsOK(v)'
<1>1. workers'[v] = workers[v] /\ Busy(v) /\ TellsOK(v)
  BY DEF Moves, MovesOnly, Busy, DatabaseOK
<1>2. Told(workers[v]) /\ ~workers[v].joined => WorkerPath(workers[v]) \in Paths
  <2>1. Allowed(workers[v]) => workers[v].principal.tenant \in Tenants
    BY <1>1, AllowedTenant DEF ServiceOK, WorkersOK, WorkerOK
  <2> QED
    BY <1>1, <2>1 DEF TellsOK, WorkerPath, Paths
<1> QED
  BY <1>1, <1>2 DEF TellsOK

\* A worker that adds to the instrument master.
LEMMA NamedKeeps ==
  ASSUME ServiceOK, DatabaseOK, NEW w \in Workers, Moves(w),
         workers[w].stage \in {"checking", "naming"}, StoreOf(w).open,
         workers'[w].stage = "naming",
         workers'[w].joined = workers[w].joined,
         MayWrite(w), NEW master,
         Insert(w, [Seen(w) EXCEPT !.master = master]),
         SoundMaster(master),
         ~AddsShared(WorkerPath(workers[w])) /\ Owns(w) =>
           NamesLeft(master, workers'[w])
  PROVE  DatabaseOK'
<1> USE MovesFacts
<1> PICK own : own = WorkerPath(workers[w])
  OBVIOUS
<1> PICK image : image = [Seen(w) EXCEPT !.master = master]
  OBVIOUS
<1>1. /\ own \in Paths
      /\ OwnPath(w) = own
      /\ Seen(w) = pending[own]
  BY PathOfWorker, SeenIsPending
<1>2. /\ IsImage(image)
      /\ image.master = master
      /\ image.audit = pending[own].audit
  <2>1. IsImage(pending[own])
    BY <1>1 DEF DatabaseOK, ImagesOK, ImageOK
  <2> QED
    BY <1>1, <2>1 DEF IsImage
<1>3. Insert(w, image)
  OBVIOUS
<1>4. ~workers[w].joined => Owns(w)
  BY DEF DatabaseOK, TransactionsOK, PartOK, MustOwn, Owns
<1>5. ~AddsShared(own) => ~workers[w].joined
  BY DEF DatabaseOK, TransactionsOK, PartOK, SharesAdd
<1>6. /\ TransactionsOK'
      /\ \A r \in Stores, v \in Workers : owner'[r] = v <=> owner[r] = v
  <2>1. MustOwn(workers'[w]) => Owns(w)
    BY <1>4 DEF MustOwn
  <2>2. SharesAdd(workers'[w]) => SharesAdd(workers[w])
    BY DEF SharesAdd
  <2> QED
    BY <2>1, <2>2, <1>3, TakenTransactions DEF Insert, Inside
<1>7. /\ ImagesOK'
      /\ files' = files
      /\ pending'[own] = image
      /\ \A path \in Paths : path # own => pending'[path] = pending[path]
  <2>1. ~AddsShared(own) => Owns(w) /\ NamesLeft(image.master, workers'[w])
    BY <1>2, <1>4, <1>5
  <2>2. /\ pending[own].audit \subseteq image.audit
        /\ SoundMaster(image.master)
    BY <1>2
  <2> QED
    BY <2>1, <2>2, <1>2, <1>3, <1>6, InsertedImages
<1>8. EventsOK'
  <2>1. StaysTold(w)
    BY DEF StaysTold, MayTell, Told
  <2>2. \A path \in Paths : pending'[path].audit = pending[path].audit
    BY <1>2, <1>7
  <2> QED
    BY <2>1, <2>2, <1>7, EventStays DEF DatabaseOK, EventsOK, Paths
<1>9. ASSUME NEW v \in Workers, Busy(v)'
      PROVE  TellsOK(v)'
  <2>1. CASE v = w
    BY <2>1 DEF TellsOK, Told
  <2>2. CASE v # w
    BY <2>2, <1>2, <1>7, <1>9, InsertedTells
  <2> QED
    BY <2>1, <2>2
<1> QED
  BY <1>6, <1>7, <1>8, <1>9 DEF DatabaseOK

\* Where no add has joined another's transaction, nobody is naming identifiers but
\* the worker whose transaction it is.
LEMMA MasterOfOwner ==
  ASSUME ServiceOK, DatabaseOK, NEW w \in Workers, Busy(w), Owns(w),
         workers[w].stage = "checking",
         ~AddsShared(WorkerPath(workers[w]))
  PROVE  MasterOK(pending[WorkerPath(workers[w])].master)
<1> PICK own : own = WorkerPath(workers[w])
  OBVIOUS
<1>1. own \in Paths /\ writer[own] = workers[w].store /\ ImageOK(own)
  BY PathOfWorker, OwnerAt DEF Owns, DatabaseOK, ImagesOK
<1>2. ASSUME NEW v \in Workers, Naming(v, own)
      PROVE  FALSE
  <2>1. writer[own] = workers[v].store /\ owner[workers[v].store] = v
    BY <1>2, PathOfWorker, OwnerAt DEF Naming
  <2> QED
    BY <2>1, <1>1, <1>2 DEF Owns, Naming
<1> QED
  BY <1>1, <1>2 DEF ImageOK

LEMMA InsertInstrumentKeeps ==
  ASSUME ServiceOK, DatabaseOK, NEW w \in Workers, InsertInstrument(w)
  PROVE  DatabaseOK'
<1> DEFINE x == Operation(w).instrument
           m == Seen(w).master
<1>1. /\ Moves(w)
      /\ workers[w].stage = "checking"
      /\ workers[w].request.operation.kind = "add"
      /\ StoreOf(w).open
      /\ \/ /\ workers'[w].stage = "naming"
            /\ workers'[w].todo = x.identifiers
            /\ workers'[w].joined = workers[w].joined
            /\ MayWrite(w)
            /\ MayAddInstrument(m, x)
            /\ Insert(w, [Seen(w) EXCEPT !.master = AddInstrument(m, x)])
         \/ InsertRefused(w) /\ UNCHANGED others
  BY InsertInstrumentMoves
<1> USE MovesFacts, <1>1
<1>2. CASE InsertRefused(w) /\ UNCHANGED others
  BY <1>2, InsertRefusedKeeps
<1>3. CASE /\ workers'[w].stage = "naming"
           /\ workers'[w].todo = x.identifiers
           /\ workers'[w].joined = workers[w].joined
           /\ MayWrite(w)
           /\ MayAddInstrument(m, x)
           /\ Insert(w, [Seen(w) EXCEPT !.master = AddInstrument(m, x)])
  <2>1. x \in Instruments
    BY DEF ServiceOK, WorkersOK, WorkerOK, Instruments, Operation
  <2>2. /\ WorkerPath(workers[w]) \in Paths
        /\ Seen(w) = pending[WorkerPath(workers[w])]
    BY <1>3, PathOfWorker, SeenIsPending
  <2>3. SoundMaster(m)
    BY <2>2 DEF DatabaseOK, ImagesOK, ImageOK
  <2>4. SoundMaster(AddInstrument(m, x))
    BY <2>1, <2>3, <1>3, AddInstrumentKeeps
  <2>5. ASSUME ~AddsShared(WorkerPath(workers[w])), Owns(w)
        PROVE  NamesLeft(AddInstrument(m, x), workers'[w])
    <3>1. MasterOK(m)
      BY <2>2, <2>5, MasterOfOwner
    <3>2. /\ MasterBut(AddInstrument(m, x), x.id, x.identifiers)
          /\ AddInstrument(m, x).instruments[x.id] = x
      BY <3>1, <2>1, <2>3, <1>3, AddInstrumentKeeps, AddInstrumentFields
    <3> QED
      BY <3>2, <1>3 DEF NamesLeft, Operation
  <2> QED
    BY <2>4, <2>5, <1>3, NamedKeeps
<1> QED
  BY <1>2, <1>3

LEMMA InsertIdentifierKeeps ==
  ASSUME ServiceOK, DatabaseOK, NEW w \in Workers, InsertIdentifier(w)
  PROVE  DatabaseOK'
<1> DEFINE x == Operation(w).instrument
           m == Seen(w).master
<1>1. /\ Moves(w)
      /\ workers[w].stage = "naming"
      /\ StoreOf(w).open
      /\ \/ \E key \in workers[w].todo :
              /\ workers'[w].stage = "naming"
              /\ workers'[w].todo = workers[w].todo \ {key}
              /\ workers'[w].joined = workers[w].joined
              /\ MayWrite(w)
              /\ MayAddIdentifier(m, key, x.id)
              /\ Insert(w, [Seen(w) EXCEPT !.master = AddIdentifier(m, key, x.id)])
         \/ InsertRefused(w) /\ UNCHANGED others
  BY InsertIdentifierMoves
<1> USE MovesFacts, <1>1
<1>2. CASE InsertRefused(w) /\ UNCHANGED others
  BY <1>2, InsertRefusedKeeps
<1>3. ASSUME NEW key \in workers[w].todo,
             workers'[w].stage = "naming",
             workers'[w].todo = workers[w].todo \ {key},
             workers'[w].joined = workers[w].joined,
             MayWrite(w),
             MayAddIdentifier(m, key, x.id),
             Insert(w, [Seen(w) EXCEPT !.master = AddIdentifier(m, key, x.id)])
      PROVE  DatabaseOK'
  <2>1. /\ x \in Instruments
        /\ workers[w].todo \subseteq x.identifiers
    BY DEF ServiceOK, WorkersOK, WorkerOK, Instruments, Operation
  <2>2. /\ WorkerPath(workers[w]) \in Paths
        /\ Seen(w) = pending[WorkerPath(workers[w])]
    BY <1>3, PathOfWorker, SeenIsPending
  <2>3. SoundMaster(m)
    BY <2>2 DEF DatabaseOK, ImagesOK, ImageOK
  <2>4. SoundMaster(AddIdentifier(m, key, x.id))
    BY <2>1, <2>3, <1>3, AddIdentifierKeeps
  <2>5. ASSUME ~AddsShared(WorkerPath(workers[w])), Owns(w)
        PROVE  NamesLeft(AddIdentifier(m, key, x.id), workers'[w])
    <3>1. NamesLeft(m, workers[w])
      BY <2>2, <2>5 DEF DatabaseOK, ImagesOK, ImageOK, Naming, Owns
    <3>2. m.instruments[x.id] = x /\ MasterBut(m, x.id, workers[w].todo)
      BY <3>1 DEF NamesLeft, Operation
    <3>3. MasterBut(AddIdentifier(m, key, x.id), x.id, workers[w].todo \ {key})
      BY <3>2, <2>1, <2>3, <1>3, AddIdentifierKeeps
    <3>4. AddIdentifier(m, key, x.id).instruments[x.id] = x
      <4>1. key \in IdentifierKeys /\ x.id \in InstrumentIds
        BY <2>1, <1>3, InstrumentFields
      <4> QED
        BY <4>1, <3>2, <2>3, AddIdentifierFields
    <3> QED
      BY <3>3, <3>4, <1>3 DEF NamesLeft, Operation
  <2> QED
    BY <2>4, <2>5, <1>3, NamedKeeps
<1> QED
  BY <1>2, <1>3

\* The event is the worker's, and the worker's request has no other.
LEMMA AppendEventKeeps ==
  ASSUME ServiceOK, DatabaseOK, NEW w \in Workers, AppendEvent(w)
  PROVE  DatabaseOK'
<1> PICK own : own = WorkerPath(workers[w])
  OBVIOUS
<1> PICK image : image = [Seen(w) EXCEPT !.audit = @ \union {EventBy(w)}]
  OBVIOUS
<1>1. /\ Moves(w)
      /\ workers[w].stage = "appending"
      /\ workers[w].request.operation.kind \in {"add", "content"}
      /\ StoreOf(w).open
      /\ \/ /\ workers'[w].stage =
                 IF Owns(w) THEN "leaving"
                 ELSE IF workers[w].request.operation.kind = "add"
                   THEN "executed" ELSE "answered"
            /\ workers'[w].stage = "answered" => workers'[w].status = 200
            /\ workers[w].request.operation.kind = "add" =>
                 workers'[w].result = [created |-> TRUE]
            /\ workers'[w].joined = workers[w].joined
            /\ MayWrite(w)
            /\ Insert(w, image)
         \/ InsertRefused(w) /\ UNCHANGED others
  BY AppendEventMoves
<1> USE MovesFacts, <1>1
<1>2. CASE InsertRefused(w) /\ UNCHANGED others
  BY <1>2, InsertRefusedKeeps
<1>3. CASE /\ workers'[w].stage =
                IF Owns(w) THEN "leaving"
                ELSE IF workers[w].request.operation.kind = "add"
                  THEN "executed" ELSE "answered"
           /\ workers'[w].stage = "answered" => workers'[w].status = 200
           /\ workers[w].request.operation.kind = "add" =>
                workers'[w].result = [created |-> TRUE]
           /\ workers'[w].joined = workers[w].joined
           /\ MayWrite(w)
           /\ Insert(w, image)
  <2>1. /\ own \in Paths
        /\ Seen(w) = pending[own]
        /\ Allowed(workers[w])
        /\ workers[w].principal.tenant \in Tenants
    BY <1>3, PathOfWorker, SeenIsPending
  <2>2. EventBy(w) = EventOf(workers[w])
    BY DEF EventBy, EventOf, Operation, StoreOf, ServiceOK, WorkersOK, WorkerOK
  <2>3. /\ IsImage(image)
        /\ image.master = pending[own].master
        /\ image.audit = pending[own].audit \union {EventOf(workers[w])}
        /\ SoundMaster(image.master)
    <3>1. IsImage(pending[own]) /\ SoundMaster(pending[own].master)
      BY <2>1 DEF DatabaseOK, ImagesOK, ImageOK
    <3>2. image = [pending[own] EXCEPT
                     !.audit = pending[own].audit \union {EventOf(workers[w])}]
      BY <2>1, <2>2
    <3>3. image = [master |-> pending[own].master,
                   audit |-> pending[own].audit \union {EventOf(workers[w])}]
      BY <3>1, <3>2 DEF IsImage
    <3>4. /\ image.master = pending[own].master
          /\ image.audit = pending[own].audit \union {EventOf(workers[w])}
      BY <3>3
    <3>5. IsImage(image)
      BY <3>3, <3>4 DEF IsImage
    <3> QED
      BY <3>1, <3>4, <3>5
  <2>4. ~workers[w].joined => Owns(w)
    BY DEF DatabaseOK, TransactionsOK, PartOK, MustOwn, Owns
  <2>5. /\ TransactionsOK'
        /\ \A r \in Stores, v \in Workers : owner'[r] = v <=> owner[r] = v
    <3>1. MustOwn(workers'[w]) => Owns(w)
      BY <1>3 DEF MustOwn
    <3>2. ~SharesAdd(workers'[w])
      BY <1>3 DEF SharesAdd
    <3>3. /\ workers'[w].stage \in Inside \/ ~Owns(w)
          /\ workers'[w].stage \notin {"admitted", "located"}
      BY <1>3 DEF Inside
    <3> QED
      BY <3>1, <3>2, <3>3, <1>3, TakenTransactions DEF Insert
  <2>6. /\ ImagesOK'
        /\ files' = files
        /\ pending'[own] = image
        /\ \A path \in Paths : path # own => pending'[path] = pending[path]
    <3>1. workers'[w].stage # "naming"
      BY <1>3
    <3>2. pending[own].audit \subseteq image.audit
      BY <2>3
    <3>3. /\ image.master = pending[own].master
          /\ workers[w].stage # "naming"
          /\ IsImage(image) /\ SoundMaster(image.master)
          /\ MayWrite(w) /\ Insert(w, image)
      BY <2>3, <1>3
    <3> QED
      BY <3>1, <3>2, <3>3, <2>5, InsertedImages
  <2>7. MayTell(workers'[w])
    BY <1>3 DEF MayTell, Told, Writes
  <2>8. EventsOK'
    <3>1. StaysTold(w)
      BY <2>7 DEF StaysTold
    <3>2. ASSUME NEW tenant \in Tenants,
                 NEW e \in files'[PathForTenant(tenant)].audit
                             \union pending'[PathForTenant(tenant)].audit
          PROVE  EventOK(tenant, e)'
      <4>1. CASE e \in files[PathForTenant(tenant)].audit
                         \union pending[PathForTenant(tenant)].audit
        BY <3>1, <4>1, EventStays DEF DatabaseOK, EventsOK
      <4>2. CASE e \notin files[PathForTenant(tenant)].audit
                            \union pending[PathForTenant(tenant)].audit
        <5>1. PathForTenant(tenant) \in Paths
          BY DEF Paths
        <5>7. e \in pending'[PathForTenant(tenant)].audit
          BY <3>2, <4>2, <2>6
        <5>8. PathForTenant(tenant) = own
          BY <5>7, <4>2, <5>1, <2>6
        <5>2. PathForTenant(tenant) = own /\ e = EventOf(workers[w])
          BY <5>7, <5>8, <4>2, <2>3, <2>6
        <5>3. tenant = workers[w].principal.tenant
          BY <5>2, <2>1, PathsApart DEF WorkerPath
        <5>4. e.tenant = tenant /\ e.request = workers[w].number
          BY <5>2, <5>3 DEF EventOf
        <5>5. workers[w].number \in 1..served
          BY DEF ServiceOK, WorkersOK, WorkerOK
        <5>6. \A v \in Workers : Busy(v)' /\ workers'[v].number = e.request => v = w
          BY <5>4 DEF ServiceOK, WorkersOK, Busy, MovesOnly
        <5> QED
          BY <5>2, <5>3, <5>4, <5>5, <5>6, <2>1, <2>7 DEF EventOK
      <4> QED
        BY <4>1, <4>2
    <3> QED
      BY <3>2 DEF EventsOK
  <2>9. ASSUME NEW v \in Workers, Busy(v)'
        PROVE  TellsOK(v)'
    <3>1. CASE v = w
      <4>1. ~workers'[w].joined => workers'[w].stage = "leaving"
        BY <1>3, <2>4
      <4>2. EventOf(workers'[w]) \in pending'[WorkerPath(workers'[w])].audit
        BY <2>3, <2>6
      <4> QED
        BY <3>1, <4>1, <4>2, <2>1 DEF TellsOK
    <3>2. CASE v # w
      BY <3>2, <2>3, <2>6, <2>9, InsertedTells
    <3> QED
      BY <3>1, <3>2
  <2> QED
    BY <2>5, <2>6, <2>8, <2>9 DEF DatabaseOK
<1> QED
  BY <1>2, <1>3

-----------------------------------------------------------------------------
(* Commits, shutdown and crash.                                            *)

LEMMA CommitKeeps ==
  ASSUME ServiceOK, DatabaseOK, NEW w \in Workers, Commit(w)
  PROVE  DatabaseOK'
<1>1. /\ Moves(w)
      /\ workers[w].stage = "leaving"
      /\ \/ /\ workers'[w].stage = "executed"
            /\ workers[w].request.operation.kind = "add"
         \/ /\ workers'[w].stage = "answered"
            /\ workers'[w].status = 200
            /\ workers[w].request.operation.kind = "content"
      /\ workers'[w].joined = workers[w].joined
      /\ workers'[w].result = workers[w].result
  BY CommitMoves
<1> USE MovesFacts, <1>1
<1> PICK s : s = workers[w].store
  OBVIOUS
<1>2. /\ s \in Stores
      /\ owner[s] = w
      /\ PathOf(s) = WorkerPath(workers[w])
      /\ WorkerPath(workers[w]) \in Paths
  BY PathOfWorker DEF DatabaseOK, TransactionsOK, PartOK, MustOwn
<1>3. /\ EndTransaction(s)
      /\ pending' = pending /\ joins' = joins
      /\ files' \in [Paths -> {files'[path] : path \in Paths}]
      /\ \A path \in Paths :
           files'[path] = IF writer[path] = s THEN pending[path] ELSE files[path]
  BY DEF Commit
<1>4. /\ \A v \in Workers : owner[s] # v => workers'[v] = workers[v]
      /\ \A v \in Workers : owner[s] = v => workers'[v].store = s
  BY <1>2 DEF MovesOnly
<1>5. \A path \in Paths : files[path].audit \subseteq pending[path].audit
  BY DEF DatabaseOK, ImagesOK, ImageOK
<1>6. TransactionsOK'
  <2>1. PartOK(w)
    BY DEF DatabaseOK, TransactionsOK
  <2>2. PartOK(w)'
    BY <2>1, <1>3 DEF PartOK, MustOwn, SharesAdd
  <2> QED
    BY <2>2, <1>2, <1>3, <1>4, EndedTransactions DEF DatabaseOK, Moves
<1>7. ImagesOK'
  <2>1. pending' \in [Paths -> {pending'[path] : path \in Paths}]
    BY <1>3 DEF DatabaseOK, ImagesOK
  <2>2. \A path \in Paths :
          /\ writer[path] = s =>
               files'[path] = pending[path] /\ pending'[path] = pending[path]
          /\ writer[path] # s =>
               files'[path] = files[path] /\ pending'[path] = pending[path]
    BY <1>3
  <2>3. \A v \in Workers : workers[v].stage = "naming" => owner[s] # v
    BY <1>2
  <2> QED
    BY <2>1, <2>2, <2>3, <1>2, <1>3, <1>4, EndedImages
<1>8. EventsOK'
  <2>1. StaysTold(w)
    BY DEF StaysTold, MayTell, Told, Writes
  <2>2. \A path \in Paths :
          files'[path].audit \union pending'[path].audit \subseteq
            files[path].audit \union pending[path].audit
    BY <1>3
  <2> QED
    BY <2>1, <2>2, EventStays DEF DatabaseOK, EventsOK, Paths
<1>9. ASSUME NEW v \in Workers, Busy(v)'
      PROVE  TellsOK(v)'
  <2>1. CASE v = w
    <3>1. TellsOK(w) /\ Allowed(workers[w])
      BY PathOfWorker DEF DatabaseOK
    <3>2. files'[WorkerPath(workers[w])] = pending[WorkerPath(workers[w])]
      <4>1. writer[WorkerPath(workers[w])] = s
        BY <1>2, OwnerAt
      <4> QED
        BY <4>1, <1>2, <1>3
    <3> QED
      BY <2>1, <3>1, <3>2 DEF TellsOK, Told, Writes
  <2>2. CASE v # w
    <3>1. \A path \in Paths : files[path].audit \subseteq files'[path].audit
      BY <1>3, <1>5
    <3> QED
      BY <2>2, <3>1, <1>2, <1>3, <1>4, <1>9, OthersTell
  <2> QED
    BY <2>1, <2>2
<1> QED
  BY <1>6, <1>7, <1>8, <1>9 DEF DatabaseOK

\* close_all closes no store in which a transaction() is under way; what nobody has
\* committed is lost.
LEMMA CloseStoreKeeps ==
  ASSUME ServiceOK, DatabaseOK, NEW s \in Stores, CloseStore(s)
  PROVE  DatabaseOK'
<1>1. /\ EndTransaction(s)
      /\ files' = files /\ joins' = joins
      /\ pending' \in [Paths -> {pending'[path] : path \in Paths}]
      /\ \A path \in Paths :
           /\ writer[path] = s => pending'[path] = files[path]
           /\ writer[path] # s => pending'[path] = pending[path]
      /\ \A path \in Paths :
           files'[path].audit \union pending'[path].audit \subseteq
             files[path].audit \union pending[path].audit
  BY RolledBack DEF CloseStore
<1>2. /\ workers' = workers /\ served' = served
      /\ \A r \in Stores : r # s => stores'[r] = stores[r]
      /\ \A v \in Workers : owner[s] # v
  BY DEF CloseStore, ServiceOK, StoresOK, Running
<1>3. TransactionsOK'
  BY <1>1, <1>2, EndedTransactions DEF DatabaseOK
<1>4. ImagesOK'
  <2>1. files' \in [Paths -> {files'[path] : path \in Paths}]
    BY <1>1 DEF DatabaseOK, ImagesOK
  <2> QED
    BY <2>1, <1>1, <1>2, EndedImages
<1>5. EventsOK'
  <2>1. \A tenant \in Tenants : \A e : EventOK(tenant, e) => EventOK(tenant, e)'
    BY <1>2 DEF EventOK, Busy
  <2> QED
    BY <2>1, <1>1 DEF DatabaseOK, EventsOK, Paths
<1>6. \A v \in Workers : Busy(v)' => TellsOK(v)'
  BY <1>1, <1>2, OthersTell DEF DatabaseOK
<1> QED
  BY <1>3, <1>4, <1>5, <1>6 DEF DatabaseOK

LEMMA CrashKeeps ==
  ASSUME ServiceOK, DatabaseOK, Crash
  PROVE  DatabaseOK'
<1>1. /\ \A w \in Workers : ~Busy(w)'
      /\ \A path \in Paths : writer'[path] = Absent
      /\ \A s \in Stores : owner'[s] = None
      /\ files' = files /\ pending' = files /\ served' = served
      /\ joins' = joins
  BY DEF Crash, Busy
<1>2. TransactionsOK'
  BY <1>1, ServiceAssumption
  DEF ServiceAssumption, Crash, TransactionsOK, WriterOK, OwnerOK
<1>3. ImagesOK'
  <2>1. ASSUME NEW path \in Paths
        PROVE  ImageOK(path)'
    <3>1. ImageOK(path) /\ pending'[path] = files[path]
      BY <1>1 DEF DatabaseOK, ImagesOK
    <3> QED
      BY <3>1, <1>1 DEF ImageOK, AddsShared, Naming
  <2> QED
    BY <2>1, <1>1 DEF DatabaseOK, ImagesOK
<1>4. EventsOK'
  <2>1. ASSUME NEW tenant \in Tenants, NEW e, EventOK(tenant, e)
        PROVE  EventOK(tenant, e)'
    BY <2>1, <1>1 DEF EventOK
  <2> QED
    BY <2>1, <1>1 DEF DatabaseOK, EventsOK
<1> QED
  BY <1>1, <1>2, <1>3, <1>4 DEF DatabaseOK

LEMMA NothingKeeps ==
  ASSUME DatabaseOK, UNCHANGED <<database, stores, workers, served, joins>>
  PROVE  DatabaseOK'
<1> USE DEF database
<1>1. TransactionsOK'
  BY DEF DatabaseOK, TransactionsOK, WriterOK, OwnerOK, PartOK, PathOf, Busy,
         AddsShared
<1>2. ImagesOK'
  BY DEF DatabaseOK, ImagesOK, ImageOK, Naming, Busy, AddsShared
<1>3. EventsOK'
  BY DEF DatabaseOK, EventsOK, EventOK, Busy
<1> QED
  BY <1>1, <1>2, <1>3 DEF DatabaseOK, TellsOK, Busy

LEMMA StepKeeps ==
  ASSUME ServiceOK, DatabaseOK, NEW w \in Workers, Step(w)
  PROVE  DatabaseOK'
<1>1. CASE FindClosed(w) \/ BeginRefused(w) \/ AnswerAdd(w) \/ Resolve(w)
  BY <1>1, AnswerKeeps
<1>2. CASE Locate(w) \/ ReadContent(w)
  BY <1>2, LocateKeeps, ReadContentKeeps
<1>3. CASE StartAdd(w) \/ StartEvent(w)
  BY <1>3, StartKeeps
<1>4. CASE LookUp(w) \/ CheckIdentifier(w) \/ Fails(w)
  BY <1>4, SelectsKeep
<1>5. CASE InsertInstrument(w) \/ InsertIdentifier(w) \/ AppendEvent(w)
  BY <1>5, InsertInstrumentKeeps, InsertIdentifierKeeps, AppendEventKeeps
<1>6. CASE Commit(w)
  BY <1>6, CommitKeeps
<1> QED
  BY <1>1, <1>2, <1>3, <1>4, <1>5, <1>6 DEF Step

LEMMA DatabaseNext == ServiceOK /\ DatabaseOK /\ [Next]_vars => DatabaseOK'
<1> SUFFICES ASSUME ServiceOK, DatabaseOK, [Next]_vars PROVE DatabaseOK'
  OBVIOUS
<1>1. CASE \E w \in Workers, request \in Requests : Arrive(w, request)
  BY <1>1, ArriveKeeps
<1>2. CASE \E w \in Workers : Step(w)
  BY <1>2, StepKeeps
<1>3. CASE CloseAll
  BY <1>3, NothingKeeps DEF CloseAll
<1>4. CASE \E s \in Stores : CloseStore(s)
  BY <1>4, CloseStoreKeeps
<1>5. CASE Crash
  BY <1>5, CrashKeeps
<1>6. CASE UNCHANGED vars
  BY <1>6, NothingKeeps DEF vars, database
<1> QED
  BY <1>1, <1>2, <1>3, <1>4, <1>5, <1>6 DEF Next

LEMMA Invariance == Spec => []Inv
<1>1. Init => Inv
  BY ServiceInit, DatabaseInit DEF Inv
<1>2. Inv /\ [Next]_vars => Inv'
  BY ServiceNext, DatabaseNext DEF Inv
<1> QED
  BY <1>1, <1>2, PTL DEF Spec

-----------------------------------------------------------------------------
(* What follows.                                                           *)

\* Whoever is allowed a request has a key for it.
LEMMA AllowedEntitled ==
  ASSUME NEW worker, worker.principal = Authenticate(worker.request),
         Allowed(worker)
  PROVE  LET tenant == worker.principal.tenant
             kind == worker.request.operation.kind
         IN  /\ tenant \in Tenants
             /\ kind = "add" => Entitled(worker.request, tenant, "data_ingestor")
             /\ kind = "content" => Entitled(worker.request, tenant, "reviewer")
<1>1. Admits(worker.request, worker.principal)
  BY AuthenticateAdmits DEF Allowed
<1>2. /\ worker.request.operation.kind = "add" =>
           worker.principal.role \in {"data_ingestor", "tenant_admin", "platform_admin"}
      /\ worker.request.operation.kind = "content" =>
           worker.principal.role \in {"reviewer", "tenant_admin", "platform_admin"}
  BY <1>1, RolesOfScopes DEF Admits, Allowed, Scope
<1> QED
  BY <1>1, <1>2 DEF Admits, Entitled

LEMMA InvTenantsApart == Inv => TenantsApart
<1> SUFFICES ASSUME Inv PROVE TenantsApart
  OBVIOUS
<1> USE DEF Inv
<1>1. ASSUME NEW tenant \in Tenants, NEW e \in files[PathForTenant(tenant)].audit
      PROVE  EventOK(tenant, e)
  BY <1>1 DEF DatabaseOK, EventsOK
<1>2. ASSUME NEW tenant \in Tenants, NEW e \in files[PathForTenant(tenant)].audit,
             NEW w \in Workers, workers[w] # Idle, workers[w].number = e.request
      PROVE  Entitled(workers[w].request, tenant, RoleFor(e))
  <2>1. /\ Allowed(workers[w])
        /\ workers[w].principal.tenant = tenant
        /\ e = EventOf(workers[w])
        /\ workers[w].request.operation.kind \in {"add", "content"}
    BY <1>1, <1>2 DEF EventOK, Busy, MayTell, Told, Writes
  <2>2. /\ workers[w].principal = Authenticate(workers[w].request)
        /\ workers[w].request \in Requests
    BY <1>2 DEF ServiceOK, WorkersOK, WorkerOK, Busy
  <2>3. e.action = IF workers[w].request.operation.kind = "add"
                   THEN "instrument.created" ELSE "evidence.content_read"
    BY <2>1 DEF EventOf
  <2> QED
    BY <2>1, <2>2, <2>3, AllowedEntitled DEF RoleFor
<1>3. ASSUME NEW w \in Workers, At(w, "answered", {"content"}),
             workers[w].status = 200
      PROVE  \E tenant \in Tenants :
               /\ Entitled(workers[w].request, tenant, "reviewer")
               /\ workers[w].result \in
                    {Evidence[tenant][id] : id \in DOMAIN Evidence[tenant]}
  <2>1. /\ WorkerOK(workers[w])
        /\ workers[w].stage = "answered"
        /\ workers[w].request.operation.kind = "content"
    BY <1>3, WorkerAt
  <2>2. /\ Allowed(workers[w])
        /\ workers[w].result \in Contents(workers[w].principal.tenant)
        /\ workers[w].principal = Authenticate(workers[w].request)
    BY <2>1, <1>3 DEF WorkerOK, HasContent
  <2> QED
    BY <2>1, <2>2, AllowedEntitled DEF Contents
<1> QED
  BY <1>1, <1>2, <1>3 DEF TenantsApart, EventOK

LEMMA InvIdentifiersConsistent == Inv => IdentifiersConsistent
<1> SUFFICES ASSUME Inv, NEW path \in Paths
             PROVE  /\ \A k \in IdentifierKeys :
                         files[path].master.identifiers[k] # Absent =>
                           ResolveInstrument(files[path].master, k) # Absent
                    /\ AddsShared(path) \/ Consistent(files[path].master)
  BY DEF IdentifiersConsistent
<1>1. ImageOK(path)
  BY DEF Inv, DatabaseOK, ImagesOK
<1>2. AddsShared(path) \/ Consistent(files[path].master)
  BY <1>1, MasterConsistent DEF ImageOK
<1>3. ASSUME NEW k \in IdentifierKeys,
             files[path].master.identifiers[k] # Absent
      PROVE  ResolveInstrument(files[path].master, k) # Absent
  BY <1>1, <1>3 DEF ImageOK, SoundMaster, ResolveInstrument
<1> QED
  BY <1>2, <1>3

LEMMA InvStoresAccounted == Inv => StoresAccounted
<1> SUFFICES ASSUME Inv PROVE StoresAccounted
  OBVIOUS
<1> USE DEF Inv
<1>1. ASSUME NEW s \in Stores
      PROVE  /\ owner[s] \in Workers =>
                  /\ workers[owner[s]] # Idle
                  /\ workers[owner[s]].stage # "answered"
                  /\ workers[owner[s]].store = s
             /\ owner[s] = Nobody => \E join \in joins : join.path = PathOf(s)
  BY DEF DatabaseOK, TransactionsOK, OwnerOK, Busy, Inside
<1> QED
  BY <1>1 DEF StoresAccounted, ServiceOK, StoresOK, RegistryOK

\* Every event of a worker's request is its one event, in its tenant's file.
LEMMA EventsOfWorker ==
  ASSUME Inv, NEW w \in Workers, Busy(w), NEW path \in Paths,
         NEW e \in files[path].audit, e.request = workers[w].number
  PROVE  /\ e = EventOf(workers[w])
         /\ path = WorkerPath(workers[w])
         /\ MayTell(workers[w])
<1>1. PICK tenant \in Tenants : path = PathForTenant(tenant)
  BY DEF Paths
<1>2. EventOK(tenant, e)
  BY <1>1 DEF Inv, DatabaseOK, EventsOK
<1> QED
  BY <1>1, <1>2 DEF EventOK, WorkerPath

LEMMA AtMostOne ==
  ASSUME NEW events, NEW e, events \subseteq {e}
  PROVE  Cardinality(events) <= 1
<1>1. events = {} \/ events = {e}
  OBVIOUS
<1> QED
  BY <1>1, FS_EmptySet, FS_Singleton

LEMMA InvAnswersAccounted == Inv => AnswersAccounted
<1> SUFFICES ASSUME Inv, NEW w \in Workers,
                    workers[w] # Idle, workers[w].stage = "answered"
             PROVE  AnswerAccounted(w)
  BY DEF AnswersAccounted
<1> DEFINE x == workers[w]
           events == UNION {{e \in files[path].audit : e.request = x.number} :
                              path \in Paths}
           writes == \/ Operation(w).kind = "content"
                     \/ /\ Operation(w).kind = "add"
                        /\ x.result = [created |-> TRUE]
<1>1. Busy(w) /\ TellsOK(w) /\ (writes <=> Writes(x))
  BY DEF Busy, Inv, DatabaseOK, Writes, Operation
<1>2. ASSUME NEW e \in events
      PROVE  e = EventOf(x) /\ MayTell(x)
  <2>1. PICK path \in Paths : e \in files[path].audit /\ e.request = x.number
    OBVIOUS
  <2> QED
    BY <2>1, <1>1, EventsOfWorker
<1>3. Cardinality(events) <= 1
  <2>1. events \subseteq {EventOf(x)}
    BY <1>2
  <2> QED
    BY <2>1, AtMostOne
<1>4. ~MayTell(x) => events = {}
  BY <1>2
<1>5. ASSUME x.status = 200, writes, ~x.joined
      PROVE  \E e \in files[PathForTenant(x.principal.tenant)].audit :
               /\ events = {e}
               /\ e.actor = x.principal.actor
  <2>1. /\ Allowed(x)
        /\ EventOf(x) \in files[WorkerPath(x)].audit
    BY <1>1, <1>5 DEF TellsOK, Told
  <2>2. x.principal.tenant \in Tenants
    BY <2>1, <1>1, AllowedTenant DEF Inv, ServiceOK, WorkersOK, WorkerOK
  <2>3. /\ WorkerPath(x) \in Paths
        /\ EventOf(x).request = x.number
        /\ EventOf(x).actor = x.principal.actor
    BY <2>2 DEF WorkerPath, Paths, EventOf
  <2>4. EventOf(x) \in events
    BY <2>1, <2>3
  <2>5. events = {EventOf(x)}
    BY <2>4, <1>2
  <2> QED
    BY <2>1, <2>3, <2>5 DEF WorkerPath
<1>6. x.status = 200 /\ ~writes => ~MayTell(x)
  BY <1>1 DEF MayTell, Told
<1>7. x.status \in {401, 403, 404, 409} => ~MayTell(x)
  BY DEF MayTell, Told
<1>8. /\ x.status = 200 /\ writes /\ ~x.joined =>
           \E e \in files[PathForTenant(x.principal.tenant)].audit :
             /\ events = {e}
             /\ e.actor = x.principal.actor
      /\ Cardinality(events) <= 1
      /\ x.status = 200 /\ ~writes => events = {}
      /\ x.status \in {401, 403, 404, 409} => events = {}
  BY <1>3, <1>4, <1>5, <1>6, <1>7
<1> QED
  BY <1>8 DEF AnswerAccounted

-----------------------------------------------------------------------------
\* Tenants stay apart: for any credentials, requests and threads, an event in a
\* tenant's file is the tenant's and comes of a request with a key for it, and
\* content goes out to nobody without a key for it.
THEOREM TenantsStayApart == Spec => []TenantsApart
  BY Invariance, InvTenantsApart, PTL

\* Identifiers stay consistent: for any instruments, added by any threads at any
\* tenants, an identifier never leads to an instrument that is not there, and
\* where no add has joined another thread's transaction the two tables agree,
\* whatever fails, is closed or dies.
THEOREM IdentifiersStayConsistent == Spec => []IdentifiersConsistent
  BY Invariance, InvIdentifiersConsistent, PTL

\* Stores stay accounted for: for any number of requests and calls of close_all,
\* no open store is lost, none in the registry is closed, and a transaction is
\* that of a request under way, unless a call has joined another's.
THEOREM StoresStayAccounted == Spec => []StoresAccounted
  BY Invariance, InvStoresAccounted, PTL

\* Answers are accounted for: an answered request that created an instrument or
\* read content has exactly one event, unless it has joined another thread's
\* transaction, and one that was turned down has none.
THEOREM AnswersAreAccounted == Spec => []AnswersAccounted
  BY Invariance, InvAnswersAccounted, PTL
=============================================================================
