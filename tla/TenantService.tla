---------------------------- MODULE TenantService ----------------------------
(***************************************************************************)
(* Requests of several tenants served side by side: the API handlers of    *)
(* cherryfin/api/main.py that add and resolve instruments and read the     *)
(* content of evidence, the authentication before them, the registry of    *)
(* tenant stores below them, its shutdown, and crashes of the process.     *)
(*                                                                         *)
(* Every worker thread serves one request at a time, in steps between      *)
(* which the others run.  What a handler does to the registry under its    *)
(* lock is one step, a query of a store under the store's lock is another, *)
(* and a call that writes takes one step for each statement, for _write()  *)
(* joins the transaction that another thread runs on the same store        *)
(* without taking the lock.  (How the audit events are chained is left to  *)
(* StoreTransactions.)  A store that is opened while close_all is at work  *)
(* on the one before it is a second connection to the same file: SQLite's  *)
(* write lock keeps the two apart.  With the path :memory: a database goes *)
(* with its store and nothing here is about it.                            *)
(***************************************************************************)
EXTENDS Authentication, InstrumentMaster, Integers, FiniteSets

CONSTANTS
  Workers,       \* threads
  Requests,      \* a tenant, an actor, a key and an operation
  Evidence,      \* for each tenant, a function from evidence ids to contents
  MaxRequests,   \* bound: requests served
  MaxCloses,     \* bound: calls of close_all
  Nobody         \* the owner of a transaction that no call will end

Tenants == {Normalized[spelled] : spelled \in DOMAIN Normalized}

\* A store is named after the request it was opened for.
Stores == 1..MaxRequests

\* A worker without a request.
Idle ==
  [stage |-> "idle", status |-> None, number |-> 0, request |-> None,
   principal |-> None, store |-> None, result |-> None, todo |-> {},
   joined |-> FALSE]

ASSUME ServiceAssumption ==
  /\ DefaultTenant \in DOMAIN Normalized
  /\ Normalized[DefaultTenant] = DefaultTenant
  /\ DOMAIN Credentials \subseteq Tenants
  /\ \A tenant \in DOMAIN Credentials :
       Credentials[tenant].key # None /\ Credentials[tenant].role \in DOMAIN Scopes
  /\ \A request \in Requests :
       LET operation == request.operation
       IN  \/ /\ operation.kind = "add"
              /\ operation.instrument # Absent
              /\ operation.instrument.id \in InstrumentIds
              /\ operation.instrument.identifiers \subseteq IdentifierKeys
           \/ operation.kind = "resolve" /\ operation.key \in IdentifierKeys
           \/ operation.kind = "content"
  /\ Absent \notin InstrumentIds
  /\ Absent \notin Stores
  /\ Absent \notin [tenant : Tenants, open : BOOLEAN]
  /\ MaxRequests \in Nat
  /\ MaxCloses \in Nat
  /\ {None, Nobody} \intersect Workers = {}
  /\ Nobody # None

VARIABLES
  files,      \* the database files, by path: what is committed
  pending,    \* what the transaction that holds SQLite's write lock makes of it
  writer,     \* by path, the store whose connection holds the write lock
  stores,     \* the store objects: their tenant and whether they are open
  owner,      \* whose transaction the connection of a store is in: a worker's,
              \* which then holds the store's lock, Nobody's, or None
  registry,   \* TenantStoreRegistry._stores
  closing,    \* the stores close_all has taken off the registry
  workers,    \* what each thread is doing, and its last answer
  served,     \* the number of requests so far
  closes,     \* the number of calls of close_all so far
  joins       \* history: at which paths adds and events have joined another
              \* thread's transaction

vars ==
  <<files, pending, writer, stores, owner, registry, closing, workers, served,
    closes, joins>>

\* What the statements of a connection change.
database == <<files, pending, writer, owner>>

\* What stays when a worker talks to its store.
others == <<stores, registry, closing, served, closes>>

-----------------------------------------------------------------------------
(* Files and stores.                                                       *)

\* _path_for_tenant, for a configured file: the directory and the name, which
\* for all but the default tenant is a digest of the tenant's.
PathForTenant(tenant) ==
  IF tenant = DefaultTenant THEN <<"parent", "configured">>
                            ELSE <<"tenants", tenant>>

Paths == {PathForTenant(tenant) : tenant \in Tenants}

NewFile == [master |-> NoInstruments, audit |-> {}]

Operation(w) == workers[w].request.operation

StoreOf(w) == stores[workers[w].store]

PathOf(s) == PathForTenant(stores[s].tenant)

OwnPath(w) == PathOf(workers[w].store)

\* A transaction() of the store is under way: its depth is above zero.
Running(s) == owner[s] \in Workers

\* The transaction of the store is the worker's own.
Owns(w) == owner[workers[w].store] = w

HoldsWriteLock(w) == writer[OwnPath(w)] = workers[w].store

\* An INSERT gets the write lock, if its connection does not have it already.
MayWrite(w) == writer[OwnPath(w)] \in {Absent, workers[w].store}

\* What the connection sees of its file.
Seen(w) == IF HoldsWriteLock(w) THEN pending[OwnPath(w)] ELSE files[OwnPath(w)]

\* An audit event names the tenant of the store and the actor and the request
\* of the audit context.
EventBy(w) ==
  LET operation == Operation(w) IN
  [tenant |-> StoreOf(w).tenant, actor |-> workers[w].principal.actor,
   request |-> workers[w].number,
   action |-> IF operation.kind = "add" THEN "instrument.created"
                                        ELSE "evidence.content_read",
   resource |-> IF operation.kind = "add" THEN operation.instrument.id
                                          ELSE operation.evidence]

Scope(operation) ==
  CASE operation.kind = "add" -> "instrument:write"
    [] operation.kind = "resolve" -> "instrument:read"
    [] operation.kind = "content" -> "evidence:content:read"

At(w, stage, kinds) ==
  /\ workers[w] # Idle
  /\ workers[w].stage = stage
  /\ Operation(w).kind \in kinds

\* The worker is at the stage, and its store has not been closed.
OnOpen(w, stage, kinds) == At(w, stage, kinds) /\ StoreOf(w).open

Goto(w, stage) == workers' = [workers EXCEPT ![w].stage = stage]

Respond(w, status, result) ==
  workers' = [workers EXCEPT ![w].stage = "answered", ![w].status = status,
                             ![w].result = result]

-----------------------------------------------------------------------------
(* Transactions.                                                           *)

\* The lock of the store, and BEGIN IMMEDIATE, which gets the write lock.
Begin(w) ==
  LET s == workers[w].store
  IN  /\ owner[s] = None
      /\ writer[PathOf(s)] = Absent
      /\ owner' = [owner EXCEPT ![s] = w]
      /\ writer' = [writer EXCEPT ![PathOf(s)] = s]
      /\ UNCHANGED <<files, pending, joins>>

\* _write() finds the depth above zero, whoever's transaction it is.
Join(w, what) ==
  /\ Running(workers[w].store)
  /\ joins' = IF Owns(w) THEN joins
              ELSE joins \union {[path |-> OwnPath(w), what |-> what]}
  /\ UNCHANGED database

\* The worker has joined another thread's transaction, or has so before.
Joined(w) == workers[w].joined \/ (Running(workers[w].store) /\ ~Owns(w))

\* An INSERT that succeeds.  Outside of a transaction sqlite3 opens one.
Insert(w, image) ==
  LET s == workers[w].store
  IN  /\ pending' = [pending EXCEPT ![PathOf(s)] = image]
      /\ writer' = [writer EXCEPT ![PathOf(s)] = s]
      /\ owner' = [owner EXCEPT ![s] = IF @ = None THEN Nobody ELSE @]
      /\ UNCHANGED <<files, joins>>

\* The connection leaves its transaction, and the write lock comes free.
EndTransaction(s) ==
  /\ owner' = [owner EXCEPT ![s] = None]
  /\ writer' = [path \in Paths |->
                  IF writer[path] = s THEN Absent ELSE writer[path]]

\* What is uncommitted on a connection is lost.
RollBack(s) ==
  /\ EndTransaction(s)
  /\ pending' = [path \in Paths |->
                   IF writer[path] = s THEN files[path] ELSE pending[path]]
  /\ UNCHANGED <<files, joins>>

\* Fault: a call that raises leaves its transaction open.
RaiseInside(w, status) ==
  /\ Respond(w, status, None)
  /\ UNCHANGED <<database, joins>>

\* The call raises.  Its own transaction is rolled back; one it has joined is
\* not, and knows nothing of it.
Raise(w, status) ==
  /\ Respond(w, status, None)
  /\ IF Owns(w) THEN RollBack(workers[w].store)
     ELSE UNCHANGED <<database, joins>>

\* An INSERT that is refused: by a constraint, or because another connection has
\* the write lock for too long.  Outside of a transaction it leaves one open.
InsertRefused(w) ==
  LET s == workers[w].store
  IN  IF owner[s] # None THEN Raise(w, 500)
      ELSE /\ Respond(w, 500, None)
           /\ owner' = [owner EXCEPT ![s] = Nobody]
           /\ writer' = IF MayWrite(w) THEN [writer EXCEPT ![PathOf(s)] = s]
                        ELSE writer
           /\ UNCHANGED <<files, pending, joins>>

-----------------------------------------------------------------------------
(* The steps of a request.                                                 *)

Init ==
  /\ files = [path \in Paths |-> NewFile]
  /\ pending = files
  /\ writer = [path \in Paths |-> Absent]
  /\ stores = [s \in Stores |-> Absent]
  /\ owner = [s \in Stores |-> None]
  /\ registry = [tenant \in Tenants |-> Absent]
  /\ closing = {}
  /\ workers = [w \in Workers |-> Idle]
  /\ served = 0
  /\ closes = 0
  /\ joins = {}

\* A thread takes up a request: _authenticate and _authorize.
Arrive(w, request) ==
  LET principal == Authenticate(request)
      Taken(stage, status) ==
        [stage |-> stage, status |-> status, number |-> served + 1,
         request |-> request, principal |-> principal, store |-> None,
         result |-> None, todo |-> {}, joined |-> FALSE]
  IN  /\ workers[w] # Idle => workers[w].stage = "answered"
      /\ served < MaxRequests
      /\ served' = served + 1
      /\ workers' = [workers EXCEPT ![w] =
           IF principal = Denied THEN Taken("answered", 401)
           ELSE IF ~Authorized(principal, Scope(request.operation))
             THEN Taken("answered", 403)
           ELSE Taken("admitted", None)]
      /\ UNCHANGED <<database, stores, registry, closing, closes, joins>>

\* for_tenant, under the lock of the registry.
Locate(w) ==
  LET tenant == workers[w].principal.tenant
      new == workers[w].number
      found == IF registry[tenant] # Absent THEN registry[tenant] ELSE new
  IN  /\ At(w, "admitted", {"add", "resolve", "content"})
      /\ stores' = IF registry[tenant] # Absent THEN stores
                   ELSE [stores EXCEPT
                          ![new] = [tenant |-> tenant, open |-> TRUE]]
      /\ registry' = [registry EXCEPT ![tenant] = found]
      /\ workers' = [workers EXCEPT ![w].stage = "located", ![w].store = found]
      /\ UNCHANGED <<database, closing, served, closes, joins>>

\* The store was closed under the request: an error nobody handles.
FindClosed(w) ==
  /\ workers[w] # Idle
  /\ workers[w].stage \notin {"admitted", "answered"}
  /\ ~StoreOf(w).open
  /\ Respond(w, 500, None)
  /\ UNCHANGED <<database, others, joins>>

\* The places at which a call begins to write: add_instrument and, in it or on
\* its own, append_audit_event.
BeforeAdd(w) == OnOpen(w, "located", {"add"})

BeforeEvent(w) ==
  \/ OnOpen(w, "naming", {"add"}) /\ workers[w].todo = {}
  \/ OnOpen(w, "read", {"content"})

\* _write() of add_instrument, with a transaction of its own or another's.
StartAdd(w) ==
  /\ BeforeAdd(w)
  /\ Begin(w) \/ Join(w, "add")
  /\ workers' = [workers EXCEPT ![w].stage = "looking", ![w].joined = Joined(w)]
  /\ UNCHANGED others

\* Fault: the content is returned without the event.
AnswerUnaudited(w) ==
  /\ BeforeEvent(w)
  /\ Respond(w, 200, workers[w].result)
  /\ UNCHANGED <<database, others, joins>>

\* _write() of append_audit_event.
StartEvent(w) ==
  /\ BeforeEvent(w)
  /\ Begin(w) \/ Join(w, "event")
  /\ workers' = [workers EXCEPT ![w].stage = "appending",
                                ![w].joined = Joined(w)]
  /\ UNCHANGED others

\* BEGIN IMMEDIATE is refused: "cannot start a transaction within a transaction",
\* or the database is locked for too long.
BeginRefused(w) ==
  LET s == workers[w].store
  IN  /\ BeforeAdd(w) \/ BeforeEvent(w)
      /\ \/ owner[s] = Nobody
         \/ owner[s] = None /\ writer[PathOf(s)] # Absent
      /\ Respond(w, 500, None)
      /\ UNCHANGED <<database, others, joins>>

\* SELECT of the instrument: it is there already, with the same content or with
\* another, or is to be added.
LookUp(w) ==
  LET instrument == Operation(w).instrument
      found == Seen(w).master.instruments[instrument.id]
  IN  /\ OnOpen(w, "looking", {"add"})
      /\ \/ /\ found = Absent
            /\ workers' = [workers EXCEPT ![w].stage = "checking",
                                          ![w].todo = instrument.identifiers]
            /\ UNCHANGED <<database, joins>>
         \/ /\ found = instrument
            /\ workers' = [workers EXCEPT
                 ![w].stage = IF Owns(w) THEN "leaving" ELSE "executed",
                 ![w].result = [created |-> FALSE]]
            /\ UNCHANGED <<database, joins>>
         \/ /\ found \notin {Absent, instrument}
            /\ Raise(w, 409)
      /\ UNCHANGED others

\* SELECT of the owner of an identifier.
CheckIdentifier(w) ==
  /\ OnOpen(w, "checking", {"add"})
  /\ \E key \in workers[w].todo :
       IF IsTaken(Seen(w).master, key, Operation(w).instrument.id)
       THEN Raise(w, 409)
       ELSE /\ workers' = [workers EXCEPT ![w].todo = @ \ {key}]
            /\ UNCHANGED <<database, joins>>
  /\ UNCHANGED others

\* INSERT of the instrument, when all its identifiers are checked.
InsertInstrument(w) ==
  LET instrument == Operation(w).instrument
      seen == Seen(w)
  IN  /\ OnOpen(w, "checking", {"add"})
      /\ workers[w].todo = {}
      /\ IF MayWrite(w) /\ MayAddInstrument(seen.master, instrument)
         THEN /\ Insert(w, [seen EXCEPT !.master =
                              AddInstrument(seen.master, instrument)])
              /\ workers' = [workers EXCEPT ![w].stage = "naming",
                                            ![w].todo = instrument.identifiers]
         ELSE InsertRefused(w)
      /\ UNCHANGED others

\* Fault: a row is inserted for the first identifier only.
InsertOneIdentifier(w) ==
  LET id == Operation(w).instrument.id
      seen == Seen(w)
  IN  /\ OnOpen(w, "naming", {"add"})
      /\ \E key \in workers[w].todo :
           /\ MayWrite(w) /\ MayAddIdentifier(seen.master, key, id)
           /\ Insert(w, [seen EXCEPT !.master =
                           AddIdentifier(seen.master, key, id)])
           /\ workers' = [workers EXCEPT ![w].todo = {}]
      /\ UNCHANGED others

\* INSERT of one of its identifiers.
InsertIdentifier(w) ==
  LET id == Operation(w).instrument.id
      seen == Seen(w)
  IN  /\ OnOpen(w, "naming", {"add"})
      /\ \E key \in workers[w].todo :
           IF MayWrite(w) /\ MayAddIdentifier(seen.master, key, id)
           THEN /\ Insert(w, [seen EXCEPT !.master =
                                AddIdentifier(seen.master, key, id)])
                /\ workers' = [workers EXCEPT ![w].todo = @ \ {key}]
           ELSE InsertRefused(w)
      /\ UNCHANGED others

\* What is left of a call that has written: the transaction, if it is its own,
\* and for content the answer.
Written(w, result) ==
  workers' = [workers EXCEPT
    ![w].stage = IF Owns(w) THEN "leaving"
                 ELSE IF Operation(w).kind = "add" THEN "executed"
                 ELSE "answered",
    ![w].status = IF Owns(w) \/ Operation(w).kind = "add" THEN None ELSE 200,
    ![w].result = result]

\* INSERT of the event.
AppendEvent(w) ==
  LET seen == Seen(w)
  IN  /\ OnOpen(w, "appending", {"add", "content"})
      /\ IF MayWrite(w)
         THEN /\ Insert(w, [seen EXCEPT !.audit = @ \union {EventBy(w)}])
              /\ Written(w, IF Operation(w).kind = "add" THEN [created |-> TRUE]
                            ELSE workers[w].result)
         ELSE InsertRefused(w)
      /\ UNCHANGED others

\* The end of the transaction: what is pending is committed, whoever wrote it.
Commit(w) ==
  LET s == workers[w].store
  IN  /\ At(w, "leaving", {"add", "content"})
      /\ EndTransaction(s)
      /\ files' = [path \in Paths |->
                     IF writer[path] = s THEN pending[path] ELSE files[path]]
      /\ workers' = [workers EXCEPT
           ![w].stage = IF Operation(w).kind = "add" THEN "executed"
                                                     ELSE "answered",
           ![w].status = IF Operation(w).kind = "add" THEN None ELSE 200]
      /\ UNCHANGED <<pending, others, joins>>

\* The database fails in the worker's own transaction, at a statement or at the
\* commit.
Fails(w) ==
  /\ workers[w] # Idle
  /\ workers[w].stage \in
       {"looking", "checking", "naming", "appending", "leaving"}
  /\ Owns(w)
  /\ Raise(w, 500)
  /\ UNCHANGED others

\* The snapshot of the answer is read from the store, under its lock.
AnswerAdd(w) ==
  /\ OnOpen(w, "executed", {"add"})
  /\ ~Running(workers[w].store)
  /\ Respond(w, 200, workers[w].result)
  /\ UNCHANGED <<database, others, joins>>

\* resolve_instrument, all of the handler: the store's lock, and a query.
Resolve(w) ==
  LET found == ResolveInstrument(Seen(w).master, Operation(w).key)
  IN  /\ OnOpen(w, "located", {"resolve"})
      /\ ~Running(workers[w].store)
      /\ IF found = Absent THEN Respond(w, 404, None) ELSE Respond(w, 200, found)
      /\ UNCHANGED <<database, others, joins>>

\* get_evidence of the store, with the content, under its lock.
ReadContent(w) ==
  LET held == Evidence[StoreOf(w).tenant]
      id == Operation(w).evidence
  IN  /\ OnOpen(w, "located", {"content"})
      /\ ~Running(workers[w].store)
      /\ IF id \in DOMAIN held
         THEN workers' = [workers EXCEPT ![w].stage = "read",
                                         ![w].result = held[id]]
         ELSE Respond(w, 404, None)
      /\ UNCHANGED <<database, others, joins>>

-----------------------------------------------------------------------------
(* Shutdown and crash.                                                     *)

Registered == {registry[tenant] : tenant \in Tenants} \ {Absent}

\* Fault: the stores stay registered while they are closed.
CloseRegistered ==
  /\ closes < MaxCloses
  /\ closes' = closes + 1
  /\ closing' = closing \union Registered
  /\ UNCHANGED <<database, stores, registry, workers, served, joins>>

\* close_all, under the lock of the registry: from now on a request opens a
\* new store.
CloseAll ==
  /\ closes < MaxCloses
  /\ closes' = closes + 1
  /\ closing' = closing \union Registered
  /\ registry' = [tenant \in Tenants |-> Absent]
  /\ UNCHANGED <<database, stores, workers, served, joins>>

\* close_all, after the lock: the stores are closed one after the other, each
\* under its lock; a transaction of nobody's is lost.
CloseStore(s) ==
  /\ s \in closing
  /\ ~Running(s)
  /\ stores' = [stores EXCEPT ![s].open = FALSE]
  /\ closing' = closing \ {s}
  /\ RollBack(s)
  /\ UNCHANGED <<registry, workers, served, closes>>

\* The process dies and starts again: requests go unanswered, files stay.
Crash ==
  /\ stores' = [s \in Stores |-> Absent]
  /\ owner' = [s \in Stores |-> None]
  /\ writer' = [path \in Paths |-> Absent]
  /\ pending' = files
  /\ registry' = [tenant \in Tenants |-> Absent]
  /\ closing' = {}
  /\ workers' = [w \in Workers |-> Idle]
  /\ UNCHANGED <<files, served, closes, joins>>

Step(w) ==
  \/ Locate(w)
  \/ FindClosed(w)
  \/ StartAdd(w)
  \/ StartEvent(w)
  \/ BeginRefused(w)
  \/ LookUp(w)
  \/ CheckIdentifier(w)
  \/ InsertInstrument(w)
  \/ InsertIdentifier(w)
  \/ AppendEvent(w)
  \/ Commit(w)
  \/ Fails(w)
  \/ AnswerAdd(w)
  \/ Resolve(w)
  \/ ReadContent(w)

Next ==
  \/ \E w \in Workers, request \in Requests : Arrive(w, request)
  \/ \E w \in Workers : Step(w)
  \/ CloseAll
  \/ \E s \in Stores : CloseStore(s)
  \/ Crash

Spec == Init /\ [][Next]_vars

-----------------------------------------------------------------------------
(* Properties.                                                             *)

\* Whose key may act for the tenant, and in which role: the administrator's
\* everywhere, a tenant's own at home, and with nothing configured anybody's.
Entitled(request, tenant, role) ==
  \/ DevelopmentBypass
  \/ AdminKey # None /\ request.key = AdminKey
  \/ /\ tenant \in DOMAIN Credentials
     /\ request.key = Credentials[tenant].key
     /\ Credentials[tenant].role \in {role, "tenant_admin", "platform_admin"}

\* Who may cause the event.
RoleFor(event) ==
  IF event.action = "instrument.created" THEN "data_ingestor" ELSE "reviewer"

\* "A credential fixes the tenant and role" (docs/SECURITY_TENANCY.md:10): every
\* event in a tenant's file is one of the tenant, a request that has left an
\* event there has a key that may do so, and content of evidence goes out to
\* requests with a key for it, whatever the headers say and however requests,
\* shutdowns and crashes interleave.
TenantsApart ==
  /\ \A tenant \in Tenants : \A e \in files[PathForTenant(tenant)].audit :
       /\ e.tenant = tenant
       /\ \A w \in Workers :
            workers[w] # Idle /\ workers[w].number = e.request =>
              Entitled(workers[w].request, tenant, RoleFor(e))
  /\ \A w \in Workers :
       At(w, "answered", {"content"}) /\ workers[w].status = 200 =>
         \E tenant \in Tenants :
           /\ Entitled(workers[w].request, tenant, "reviewer")
           /\ workers[w].result \in
                {Evidence[tenant][id] : id \in DOMAIN Evidence[tenant]}

\* Every identifier of a stored instrument resolves to it, and whatever an
\* identifier belongs to names it.
Consistent(master) ==
  /\ \A i \in InstrumentIds :
       master.instruments[i] # Absent =>
         \A k \in master.instruments[i].identifiers :
           ResolveInstrument(master, k) = master.instruments[i]
  /\ \A k \in IdentifierKeys :
       master.identifiers[k] # Absent =>
         k \in ResolveInstrument(master, k).identifiers

\* An add has joined a transaction of another thread at the path.
AddsShared(path) == [path |-> path, what |-> "add"] \in joins

\* "Identifier collisions fail closed instead of silently merging two securities"
\* (docs/EVIDENCE_INTELLIGENCE.md:47).  An identifier never leads to an instrument
\* that is not there; and where no add has joined the transaction of another thread,
\* an identifier belongs to at most the one instrument that names it, and every
\* identifier of a stored instrument resolves to it, whatever the events of
\* other requests join, however instruments that share identifiers are added
\* side by side, and wherever a store is closed or the process dies.
IdentifiersConsistent ==
  \A path \in Paths : LET master == files[path].master IN
    /\ \A k \in IdentifierKeys :
         master.identifiers[k] # Absent => ResolveInstrument(master, k) # Absent
    /\ AddsShared(path) \/ Consistent(master)

\* No store is lost and none is handed out closed: an open store is in the
\* registry or about to be closed, and a store in the registry is open and is
\* the tenant's own, also when requests arrive while close_all is at work.  And
\* no store is left in a transaction: one that is running is that of a request
\* under way, and one that nobody will end, with which every later BEGIN
\* IMMEDIATE is refused, there is only where a call has joined another's.
StoresAccounted ==
  /\ \A s \in Stores :
       stores[s] # Absent /\ stores[s].open =>
         s \in closing \/ s \in Registered
  /\ \A tenant \in Tenants :
       registry[tenant] # Absent =>
         stores[registry[tenant]] = [tenant |-> tenant, open |-> TRUE]
  /\ \A s \in Stores :
       /\ owner[s] \in Workers =>
            /\ workers[owner[s]] # Idle
            /\ workers[owner[s]].stage # "answered"
            /\ workers[owner[s]].store = s
       /\ owner[s] = Nobody => \E join \in joins : join.path = PathOf(s)

\* What the audit trails tell of the request that worker w has answered.
AnswerAccounted(w) ==
  LET worker == workers[w]
      events == UNION {{e \in files[path].audit : e.request = worker.number} :
                         path \in Paths}
      writes == \/ Operation(w).kind = "content"
                \/ /\ Operation(w).kind = "add"
                   /\ worker.result = [created |-> TRUE]
  IN  /\ Cardinality(events) <= 1
      /\ worker.status = 200 /\ writes /\ ~worker.joined =>
           \E e \in files[PathForTenant(worker.principal.tenant)].audit :
             /\ events = {e}
             /\ e.actor = worker.principal.actor
      /\ worker.status = 200 /\ ~writes => events = {}
      /\ worker.status \in {401, 403, 404, 409} => events = {}

\* The audit trail tells what every answered request did: one that created an
\* instrument or returned the content of evidence has exactly one event, in its
\* tenant's file and in the name of its actor, unless the event has joined the
\* transaction of another thread, which may be rolled back; one that was turned
\* down or found the instrument there already has none.  That others join the
\* request's own transaction takes nothing from it.  A request that fails, by
\* the database or because its store was closed, may have either.
AnswersAccounted ==
  \A w \in Workers :
    workers[w] # Idle /\ workers[w].stage = "answered" => AnswerAccounted(w)
=============================================================================
