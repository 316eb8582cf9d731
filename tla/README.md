# A TLA+ model of CherryFin

CherryFin is a financial-intelligence service: tenants ingest filings as
evidence, claims are extracted from them or posted, contradicting claims are
detected and adjudicated, and an agent answers questions from the claims that
were known at a given time. This directory holds TLA+ modules for its parts, the
TLC configurations that check them on small instances, and TLAPS proofs.
Paths below are relative to the repository; `intelligence/` stands for
`src/cherryfin/intelligence/`.

    tlc -config LedgerConflicts.cfg MCReplay.tla      # one run
    tlapm ClaimsLedgerProofs.tla                      # the proofs of the ledger,
    tlapm LedgerStatusProofs.tla                      # of what its tables say of each other,
    tlapm LedgerReplayProofs.tla                      # of its replay,
    tlapm SourceIngestionProofs.tla                   # of its sources,
    tlapm AnalysisProofs.tla                          # of an analysis beside it,
    tlapm StoreProofs.tla                             # of the transactions,
    tlapm TenantServiceProofs.tla                     # of the tenants
    tlapm AlgorithmProofs.tla                         # and of the pure algorithms

## The system

| Part | State | Operations | Talks to |
|---|---|---|---|
| HTTP API (`api/main.py`) | one process, a pool of threads, a registry of stores | one endpoint per operation below | everything |
| Tenant store registry (`intelligence/tenant_store.py`) | one store per tenant, a lock, a file per tenant | `for_tenant`, `close_all` | stores |
| Transaction control (`intelligence/store.py`) | one SQLite connection, an RLock, `_transaction_depth`, `_transaction_failed`, `_closed` | `transaction`, `_write`, `close` | all store mixins |
| Evidence store (`store_evidence.py`) | table `evidence`, immutable | `add_evidence`, reads | audit trail |
| Claim store (`store_claims.py`) | tables `claims`, `claim_evidence`, `claim_status_history` | `add_claim`, `set_claim_status`, `query_claims` | audit trail |
| Contradiction store (`store_contradictions.py`) | table `contradictions` | `add_contradiction`, `resolve_contradiction` | claim store, audit trail |
| Contradiction detector (`claims.py`) | none | `detect` | - |
| Claim ledger (`claims.py`) | none of its own | `record` | detector and all stores, in one transaction |
| Pipeline (`pipeline.py`) | none of its own | `ingest`, `query` | parser, ledger, stores |
| Audit trail (`store_audit.py`) | table `audit_events`, a hash chain | `append_audit_event`, `verify_audit_chain`, `snapshot_sha256` | - |
| Instrument master (`store_instruments.py`) | tables `instruments`, `instrument_identifiers` | `add_instrument`, `resolve_instrument` | audit trail |
| Statement parser (`statements.py`) | none | a table to claims with deterministic ids | - |
| Hydration, agent, policy, evaluation (`retrieval.py`, `agents/`, `policy/`, `evals/`, `trust.py`) | one request | hydrate, preflight, model call, caps, policy, release | stores, model provider |
| Model provider (`providers/llm.py`) | an HTTP client | bounded attempts | an outside model |
| Connectors (`providers/filings.py`, `market_data.py`) | an HTTP client | bounded fetch, filings and observations to evidence and claims | outside sites, pipeline |
| Authentication (`security/auth.py`) | credentials of the environment | `authenticate`, roles and scopes | API |
| Calculators (`tools/calculators.py`) | none | finance formulas | - |

What makes these correct, and hard:

* *Transactions.* All threads share one connection. A call must be atomic and
  serializable, although `_write()` looks at the transaction depth without the
  lock, the audit chain is extended by a read and a later insert, statements
  raise, the process dies, and the store is closed under running calls.
* *Ledger.* The status of a claim is set by four different operations:
  recording another claim (dispute, supersession), recording the claim itself,
  adjudication, and library code. Every status needs a reason, whatever the
  order of calls; histories must stay ordered although several changes fall
  into one microsecond and the clock may be set back.
* *Ingestion.* A statement yields many claims inside one transaction; any of
  them may be rejected, and the process may die between two.
* *Replay.* A question about a past instant must have the same answer for ever.
* *Sources.* The parser names a claim after what it says and leaves out part of
  it; a filing is fetched again; one figure is printed in two scales. None of it
  may make the ledger refuse a statement it should take, or contradict itself.
* *Tenants.* A request carries the tenant of its header through authentication,
  the registry and a store; between any two of these steps other requests run,
  stores are closed, or the process dies.
* *Audit trail.* What is done must be told, exactly once and in the right name,
  and a chain that was tampered with must not verify.
* *Detector.* The ledger compares a new claim with the stored ones and never the
  other way round, so the answer must be symmetric; tolerances have edges.
* *Agent.* Claims are read before an awaited model call and cited after it; the
  caps, the policy and the audit event come in a certain order.

`PROJECT.json` lists the hazards, line by line, with the properties that cover
each. Five are covered by none, with the reason there: a rate that vanishes in a
calculator is out of exact arithmetic's reach; and in four the model does what
the code does and no document says what it should do (a retraction that is taken
back by a supersession or a verdict, an analysis that ends with 500 on too much
evidence or on an empty answer of the model, an unchanged filing that is refused
when it is fetched again).

## The modules

    ContradictionDetector, StatementParser, Connectors, AuditTrail, Calculators
            └── AlgorithmCheck ─┬── MCAlgorithms
                                └── AlgorithmProofs

    ContradictionDetector
            └── ClaimsLedger ── ClaimsLedgerProofs ─┬── LedgerStatusProofs
                    │                               └── LedgerReplayProofs
                    ├── LedgerExpectations ── MCLedger ──┐
                    ├── LedgerReplay ────────────────────┴── MCReplay
                    │     └── LedgerReplayProofs
                    ├── with StatementParser, Connectors: SourceIngestion ── MCIngestion
                    │     └── SourceIngestionProofs (extends LedgerStatusProofs)
                    └── with ReleaseGate: Analysis ── MCAnalysis (also extends MCLedger)
                          └── AnalysisProofs (extends LedgerStatusProofs, LedgerReplayProofs)

    StoreTransactions ─┬── MCStore
            │          └── StoreProofs
            └── refines AtomicStore

    Authentication, InstrumentMaster ── TenantService ─┬── MCTenants
                                                       └── TenantServiceProofs

**ContradictionDetector** translates `ContradictionDetector.detect` of
`claims.py` as an operator on two claims and their statuses: the early returns
(`Comparable`, `SameReportingContext`), the kinds and metadata, the decimal
tolerances and the severity. Amounts are integers in the unit of the absolute
tolerance and relative tolerances are in thousandths, so that the Decimal
comparison is exact.

**StatementParser** translates `parse` of `statements.py`: what a label resolves
to, parentheses, percentages, scales, units, the identifier of a claim, and the
issues of cells that give none. A number is the figure it shows, not its text.

**Connectors** translates `providers/filings.py` and `market_data.py`: which
addresses may be fetched, the loop that reads a body up to the byte limit, and
the evidence and claims made of filings and observations. A digest is modelled
by what it is the digest of.

**AuditTrail** is the hash chain of one table of events: what `append_audit_event`
appends and what `verify_audit_chain` finds wrong.

**Calculators** translates compound growth, the loan, the drawdown, the loss quantile
and the mean loss of the tail of `tools/calculators.py`, over exact rational numbers:
records of a numerator and a positive denominator, reduced by Euclid's algorithm. The
sorted list is the place each return has in it (`Place`), equal returns staying in
order. Amounts of money are whole numbers of cents in the end (`Cents`).

**AlgorithmCheck** checks these five against what they promise: its states are
inputs, of which TLC picks the first part and then the second.

**ClaimsLedger** models one tenant's database above the transaction control. The
database is a value, an *image*: the evidence, claims, status column,
`claim_status_history`, contradictions and audit events. `db` is what the
connection sees and `disk` what is committed. Every store method is an operator
on an image (`AddEvidence`, `AddClaim`, `SetClaimStatuses`, `AddContradictions`,
`Close`), and `RecordClaim` composes them as `ClaimLedger.record` does, down to
the time each change is dated at. A call that is one transaction is one action
(`PostClaim`, `ResolveContradiction`, `DismissContradiction`, `SetClaimStatus`).
An ingestion is many: `StartIngestion`, one `IngestClaim` or `RejectIngestion`
per claim, `FinishIngestion`, with `Tick`, `StepBack` and `Crash` between them;
other calls wait, as they wait for the lock. `TrustClientTimestamps` selects the
library mode, in which claims bring their own times and statuses.
Abstractions: a claim's content is its key, reporting context, kind, unit, value
and one field for everything only the fingerprint looks at; a document's content
and hashes are one number; a transaction's instant does not move within one
claim; a rejected call and a repeated one change nothing and are not actions of
their own. One unit of the clock is the microsecond by which
`set_claim_status` moves a change that would not come last.

**LedgerReplay** adds a reader: `Ask` is `EvidencePipeline.query` about an
instant before the present, whose answer is remembered. Questions about the
present instant are left out because later changes of the same microsecond
belong to it; the LIMIT of the query is left out too.

**SourceIngestion** feeds the ledger from its sources: a statement is a filing as
the connector maps it and the claims the parser makes of a table; the claim of
an observation is posted. There are no new steps, only inputs that come out of
code instead of a hand: `SourcesAssumption` says that whatever is ingested is a
`FilingStatement` or an `ObservationStatement`.

**LedgerExpectations** states what documents and messages say of the ledger and
the code does not do; each is refuted by a run.

**StoreTransactions** models `store.py` statement by statement for threads that
call the store concurrently. `working` and `disk` are the rows and the audit
chain seen and committed, `open` is sqlite3's `in_transaction`; the other
variables are the fields of the store. A thread goes through the labels of its
call: `Write` and `Audit` are the unlocked look at the depth, `OpenTransaction`
the lock and BEGIN IMMEDIATE, `Insert`, `ReadHead` and `AppendEvent` the
statements, `Leave` the `finally`. An exception may come before each statement
(`Raise`, and `RaiseUnlocked` in a call that has joined another thread's
transaction). A statement outside a transaction opens an implicit one, as
sqlite3 does by default. `CommitFails` is a `commit()` that raises, upon which
SQLite rolls back. `snapshot_sha256` is a call of two queries, each under the
lock. `Close` is the shutdown, `Crash` the death of the process. `Interrupt`,
which only `SpecInterrupted` has, raises what is no `Exception`. The RLock's
reentrancy shows as the joining of nested writes.

**AtomicStore** is what callers may rely on: calls take effect one after the
other, entirely or not at all, and return only after their commit. The
refinement maps its log to the names in the committed chain and its pending
calls to the threads that are not idle.

**ReleaseGate** translates what surrounds the model in an analysis, all of it
pure: `route_mode`, the sanitizing of inline evidence, `_apply_confidence_caps`,
the blocking rules of `PolicyEngine.evaluate`, the checks, weights and mandatory
checks of `evaluate_answer`, in that order in `Judge`. A prompt is what may be
cited and the two cutoffs; an answer is what it cites, its confidence in
hundredths, its actions, and a few facts of its text. The rules are records of
named facts, so that a rule in the model is a branch in the code. Warnings and
the wording of reasons are left out.

**Analysis** puts one `POST /v1/analyze` beside the writers of ClaimsLedger. A call
goes through the stages reading (`ReadClaims` per predicate, `BreakOff` when the
limit is used up, `ReadEvidence` per identifier, `RefuseCollision`,
`TakeSnapshot`), asking (`AttemptFails`, `AnswerEmpty`, `AnswerUnfit`,
`AnswerComes`), judged (`RecordAnalysis`, `FindTransaction`, `RecordFails`),
joining (`InsertJoined`, `InsertLate`) and recorded (`Deliver`), and
ends with the status the endpoint answers. Every read is an action of its own,
taken when nobody holds the lock; the ledger goes on between any two
steps, and `Die` ends the call with the process. The model is an outside
service: it answers anything that fits `FinancialAnswer`, or fails; an empty
list of choices raises an IndexError that neither the provider nor the endpoint
catches (`AnswerEmpty`, a 500).
`append_audit_event` does not wait for the transaction of another thread but joins
it (`_write()` finds the depth above zero). That transaction may be an ingestion
(`job`) or any other call (`BeginCall`, `CommitCall`, `RollBackCall`): a claim
posted or a resolution, which may be rejected, an instrument, an event. The look
at the depth (`FindTransaction`) and the INSERT are two steps, between which the
transaction may end; then the INSERT joins the next one (`InsertJoined`) or makes
sqlite3 open one that nobody will commit (`InsertLate`, `transaction = "left"`;
`LeaveOpen` if another call does so). `joined` holds the events that are in a
transaction not their own, `completed` those committed, `lost` those rolled back,
and `delivered` is a history of what has gone out. How two writers share the chain
is left to StoreTransactions. A snapshot is the set of audit events
its hash covers. Identifiers of inline evidence are those after the prefix
`user:` is given, which a document of the ledger may have too.

**Authentication** translates `authenticate` and `_ROLE_SCOPES` of
`security/auth.py`: headers and a key to a principal, and what its role may do.

**InstrumentMaster** is the two tables of `store_instruments.py` as operators, one
for each statement, with what the keys of the tables refuse.

**TenantService** serves requests of several tenants on several threads. A
request goes through `Arrive` (authentication and scope) and `Locate`
(`for_tenant`, one step under the registry's lock). A query of the store
(`Resolve`, `ReadContent`, the snapshot before `AnswerAdd`) waits for its lock and
is one step. A call that writes is one step for each statement, because
`add_instrument` and `append_audit_event` use `_write()`: they begin a transaction
or join the one another thread is running (`StartAdd`, `StartEvent`), and go on
without the lock in the latter case. An add looks its instrument up (`LookUp`),
checks its identifiers one by one (`CheckIdentifier`), inserts the instrument and
one identifier after the other (`InsertInstrument`, `InsertIdentifier`), and writes
its event, which is a nested `_write()`; a reading of content has only the event.
`Commit` ends the transaction and commits what all have written in it; `Raise`
rolls it back, if it is the worker's own. An INSERT outside of a transaction opens
one that nobody ends, and every later `BEGIN IMMEDIATE` is refused (`BeginRefused`).
`Fails` is a database that fails at any statement or at the commit. Each step may
find the store closed (`FindClosed`). `CloseAll` empties the registry under its
lock, `CloseStore` closes one of its stores after the lock, and `Crash` loses
everything but the files. A store is named after the request it was opened for,
a file after the path `_path_for_tenant` gives it; two stores can have one file,
while `close_all` is at work, and SQLite's write lock (`writer`) then lets one of
them write. `files` is what is committed, `pending` what the holder of the write
lock makes of it, and `joins` a history of who has joined another's transaction.

Operators marked `Fault:` are plausible mistakes in the definition they stand
before; the mutants of `PROJECT.json` put them in its place to show that each
property would notice.

## The runs

| Run | Instance | Shows |
|---|---|---|
| `algorithms` | pairs of claims with 11 amounts around the default tolerances (0.01, 0.1 %, 5 %) of both signs, two kinds, units, periods, times and statuses; figures in two scales; up to four rows of a chain, damaged; bodies of up to three chunks; rates and series in tenths and some that make no whole cents, up to four months or returns and series of up to 41 | symmetry and monotony of the detector, scales, damage to the chain, the byte limit, closed forms against their definitions, and what rounding to cents does to sums |
| `ledger_conflicts` | three contradicting claims over one filing, the third also as a restatement of the first; retraction, adjudication, questions with three sets of statuses; clock 0..2 | statuses have reasons, conflicts are recorded and held, the audit events tell everything, and replays repeat |
| `ledger_ingestion` | an annual report fetched twice and read from two tables, its amended version, the price of a share; posted restatements that rest on both, a rival, and a claim under a parsed one's identifier; retraction and adjudication; two ingestions, clock 0..1 and set back | a statement is refused only for a reason, no partial ingestion, nothing unsupported, faithful histories, committed data is final |
| `store_explicit` | two threads, two calls each, transactions of two records, snapshots, exceptions, failing commits, shutdown, crash | refinement of AtomicStore, nothing uncommitted is seen, and every call ends |
| `store_shared` | two threads, two calls each, of all three kinds of writers | what survives when a writer joins another thread's transaction |
| `tenants` | three tenants, one without a key; two threads, three requests out of eleven, one `close_all`, crashes | tenants stay apart, identifiers fail closed unless an add joins another's transaction, no store is lost or left in a transaction, every answer is accounted for unless its event joins |
| `analysis` | a filing, a news item and three claims of two predicates, two of them contradicting; requests with and without a context, about the past and the present, with colliding, repeated and too much inline evidence, credentials and inline claims; four answers, of which some cite what was not shown, are too confident or propose transactions; two attempts | what the model is shown, what is released, what becomes of the event, and that the call ends |

Three claims are the least with which a verdict can meet an earlier verdict, and
a restatement a third party; two records per transaction the least with which
one can be half done; two calls per thread let a call meet what an earlier one
left. Three instants separate before, at and after (`ledger_conflicts`); two,
between which the clock goes back and forth, are enough to have changes of one claim
come at the same and at an earlier instant than the last (`ledger_ingestion`).
No bound is ever a guard of
a property: the bounds are `MaxClock`, `MaxIngestions`, `MaxCalls` and
`MaxAnalyses`, and they only stop time and new calls. `MaxEvidence` (500 in the
code) and `MaxAttempts` are limits of the program, made small so that they are
reached. In `analysis` one instant passes, which is what separates a question
about the past from one about the present (the request about the first instant is
either, as it comes in before or after), and one analysis is completed: a
second one would meet the first only through its event. In `tenants`
(`MaxRequests`, `MaxCloses`), three requests are what it takes for one to meet
the work of two others, and for a store opened before, during and after
`close_all`. `store_shared` and `tenants` are reduced by the symmetry of the
threads, which is sound as they check no liveness; the proofs below do not rest
on any bound.

*Deadlock* is checked in all runs but `algorithms`, whose behaviours are two states
long; `Crash` is always enabled in the others, so that it is `CallsEnd` that
shows that nobody waits for ever.

*Fairness.* `FairSpec` asks for weak fairness of each thread's `Step`: a thread
of the pool goes on running when it can. Weak fairness is enough for a lock that
gives no turns, because each thread makes at most `MaxCalls` calls: the others
run out of calls, after which the lock stays free. With an endless stream of
calls a waiting thread could starve, as it could in Python. No fairness is
asked of clients, of crashes or of the clock.

`FairAnalysis` asks for weak fairness of another thread's transaction
(`TransactionStep`), which goes on to its end, and
for strong fairness of the steps of the call: the timeout of the HTTP client ends
every attempt, and a call that waits for the lock is served when the lock comes
free again and again, although transactions may follow one another. httpx's timeout
is one per read, so that a response that trickles in for ever is excluded. RLock promises
no order, but a waiting thread is woken when the lock is released. No fairness is
asked of requests, of the ledger's other writers or of a good answer.
`TenantService` states no fairness: its runs are about safety.

`ConflictsHeld` exempts the newer claim of a pair if it restates a third claim,
which is the first finding below, and is otherwise what the documents say.
`StatusJustified` accepts a dismissed contradiction as the reason of a dispute,
which is the second.

### Findings

* `restatement_stays_active`: `ClaimLedger.record` marks the new claim disputed
  in the `elif` of its supersession, so a claim that restates one claim and
  contradicts another stays active while that contradiction is open.
* `dismissal_leaves_disputed`: dismissing a contradiction leaves both claims
  disputed, and there is no call that makes them active again.
* `rejected_active_again`: a verdict makes its claim active whatever earlier
  verdicts said, so that both claims of a resolved contradiction can be active.
* `shared_forks_chain`: a store method called outside a transaction joins the
  transaction of another thread; the audit chain forks, a call can answer and be
  rolled back with the other one, and a statement after the other's commit
  leaves an implicit transaction open that makes every BEGIN IMMEDIATE fail.
  `TransactionsSafe` is what still holds.

  In `analysis` this is why `DeliveredIsRecorded` says of a response that has gone
  out only that its event is committed or shares the fate of the transaction it
  has joined, whosever that is; and in `tenants` why `AnswersAccounted` exempts
  requests that have joined, and `IdentifiersConsistent` files where an add has.

  The latter is needed for two instruments that claim one identifier. The second add
  joins the first one's transaction, both pass the check of
  `store_instruments.py:35-46`, and the second one's identifier is refused by
  the primary key after its row of `instruments` has been inserted; the exception
  rolls nothing back, as the transaction is another's, whose commit keeps the row.
  `docs/EVIDENCE_INTELLIGENCE.md:47-48` says that collisions fail closed; without
  the exemption TLC refutes `IdentifiersConsistent` in this way. What still holds is
  that an identifier never leads to an instrument that is not there.

* `store_interrupted`: `transaction()` marks a failure on `Exception` only, so a
  KeyboardInterrupt in the body of an ingestion commits the part that has been
  written. Python raises it in the main thread, so it concerns scripts that use
  the pipeline, not the API, which runs its stores in other threads.

Some more met on the way have no run of their own. With trusted timestamps, or
when the clock is set back, a new claim is disputed from its own time of
assertion on, which may come before the assertion of the claim it disagrees
with. An unchanged filing that is fetched again has the same identifier and
another `observed_at`, so its ingestion is refused as a different document under a
known identifier. A row's own unit does not switch the scale of its metric off:
a row of a monetary metric printed per share is still multiplied. And the file
of the default tenant is the configured one: with another default tenant after a
restart, that tenant is given the file of the former. `SupportSound` takes the time
evidence was known from what the code compares: `ingested_at` when the server stamps
(`docs/SECURITY_TENANCY.md:57`), `observed_at` in the library mode;
`docs/EVIDENCE_INTELLIGENCE.md:41-42` speaks of `observed_at` only. A body without a
length that breaks off looks complete to the HTTP client: `FetchWholeOrNothing` is
about the bodies whose breaking off is noticed (`response.noticed`).

Of the release gate, translating it showed: the score never decides, because an
answer that meets the mandatory checks has 85 points, and needs 80; the
policy holds only the evidence cited directly against the two cutoffs, and it is
the evaluation that looks through the claims (`ReleasedOnKnownSources` depends on
it); the policy compares `observed_at` with the knowledge time, which the client
gives, where the ledger compares `ingested_at`; of two inline items with one
identifier the last one silently stays if the request has a context, while
without one the preflight refuses the request; and a request whose ledger and
inline evidence together exceed the limit ends in an error nobody catches, and so does an
answer of the model without choices.

## The proofs

The proofs are for every value of the constants that satisfies the assumptions of
the modules, which TLC evaluates on the instances of the runs:

* `DetectorAssumption`, `LedgerAssumption`: any claims, documents, statements and
  tolerances, both timestamp modes, with or without a clock that is set back, any
  bounds; identifiers are not null.
* `SourcesAssumption`: ingestions are made of filings and observations, any number
  of them, with tables of any number of rows and cells that are missing, garbled
  or figures.
* `GateAssumption`, `AnalysisAssumption`: any requests, answers, limits and attempts,
  with inline evidence up to the limit (`core/models.py:304` allows no more) and an
  inline trust of at most 80 % (`settings.py:32`).
* `StoreAssumption`: any threads, records and calls.
* `ServiceAssumption`: any tenants, keys, files, threads and requests; the default
  tenant is one, credentials are tenants', with a key and a role there is, and
  requests have the fields their operation needs.
* `AlgorithmAssumption`: amounts are integers, a catalog scales all but amounts per
  share, a figure is whole in the scales it is printed in, damaged rows are made of
  rows of the chain, responses have sizes; the calculators get rational amounts,
  rates and returns above -100 %, no negative rate for a loan, and at least one month
  and one return, which is what the code accepts and more.

Where a theorem needs more, the condition is a hypothesis of the theorem and named in
the table. `SteadyClock` is `~TrustClientTimestamps /\ ~ClockMayStepBack`: the
server stamps, and its clock is not set back.

| Theorem | Property | Under |
|---|---|---|
| *`ClaimsLedgerProofs`* | | |
| `TypeCorrect` | `TypeOK` | |
| `HistoryIsFaithful` | `HistoryFaithful` | |
| `SupportIsSound` | `SupportSound` | |
| `ContradictionsAreSound` | `ContradictionsSound` | |
| `CommittedStays` | `CommittedIsFinal` | |
| *`LedgerReplayProofs`* | | |
| `ReplayRepeats` | `RepeatableReplay` | `SteadyClock` |
| *`LedgerStatusProofs`* | | |
| `AuditAccountsForTables` | `AuditAccounts` | |
| `LiveConflictsAreRecorded` | `LiveConflictsRecorded` | |
| `IngestionsAreAtomic` | `IngestionAtomic` | |
| `StatusesAreJustified` | `StatusJustified` | library code only retracts (`OnlyRetractions`), trusted claims come as active (`AssertedActive`) |
| `ConflictsAreHeld` | `ConflictsHeld` | `SteadyClock`, library code makes no claim active again (`NoReactivation`) |
| *`SourceIngestionProofs`* | | |
| `RejectionsHaveCauses` | `RejectedOnlyForCause` | |
| *`AnalysisProofs`* | | |
| `CallsAreTyped` | `AnalysisTypeOK` | |
| `SnapshotsCover` | `SnapshotCovers` | |
| `SourcesAreUnambiguous` | `UnambiguousSources` | |
| `CapsAreKept` | `CapsHold` | |
| `MarketReleasesAreVerified` | `MarketReleaseVerified` | |
| `ReleasedActionsAreBounded` | `ReleasedActionsBounded` | |
| `DeliveriesAreRecorded` | `DeliveredIsRecorded` | any transaction may be joined |
| `ReleasesRestOnKnownSources` | `ReleasedOnKnownSources` | `~TrustClientTimestamps` |
| `SourcesStayAsKnown` | `SourcesAsKnown` | `SteadyClock` |
| `SelectionsAreComplete` | `SelectionComplete` | `SteadyClock` |
| *`StoreProofs`* | | |
| `StoreTypeOK` | `TypeOK` | any kinds of calls |
| `TransactionsAreSafe` | `TransactionsSafe` | any kinds of calls |
| `NothingUncommittedUnlocked` | `UnlockedIsCommitted` | `Explicit`: every writer opens its transaction explicitly |
| `ChainIsLinear` | `ChainLinear` | `Explicit` |
| `SnapshotsCountEvents` | `SnapshotsCounted` | `Explicit` |
| `StoreImplementsAtomicStore` | `Serializable`, the refinement of `AtomicStore` | `Explicit` |
| *`TenantServiceProofs`* | | |
| `TenantsStayApart` | `TenantsApart` | |
| `IdentifiersStayConsistent` | `IdentifiersConsistent` | the property itself exempts files where an add has joined another's transaction |
| `StoresStayAccounted` | `StoresAccounted` | likewise, of transactions left open |
| `AnswersAreAccounted` | `AnswersAccounted` | likewise, of requests that have joined |
| *`AlgorithmProofs`* | | |
| `ArrivalIsIrrelevant` | `OrderOfArrivalIrrelevant` | |
| `SeverityIsMonotone` | `SeverityMonotone` | relative tolerances of at most 100 % |
| `ScaleIsIrrelevant` | `ScaleInvariant` | a relative tolerance below 200 %; an identifier is never null |
| `FetchesAreWhole` | `FetchWholeOrNothing` | |
| `DamageIsDetected` | `DamageDetected` | |
| `CalculatorsAreExact` | `CalculatorsExact` | |
| `FiguresStayConsistent` | `FiguresConsistent`, a part of `CalculatorsExact` | |

The inductive invariants that carry them are theorems too: `Invariance` (`Inv` of the
ledger), `TablesAgree` (`TablesInv`), `CallsInvariance` (`CallsInv`) and
`HydrationInvariance` (`HydrationInv`). Each was checked by TLC on the
instances of the runs before it was proved.

### The ledger

The types are not inductive by themselves: the time of a status change is taken
from the latest row of the history, which exists and is unique only because the
histories are ordered and not empty; a verdict changes two claims that exist only
because contradictions are sound; and contradictions stay sound only because
claims never change, and because the detector is symmetric (`DetectSymmetric`:
the record is made by comparing the new claim with the old one, the property
speaks of both). So all four parts are one predicate of an image, `Sound`. Each
store method gets a lemma that it takes a sound image to a sound image that
`Follows` it, where `Follows` is the body of `CommittedIsFinal` as a relation of
two images, reflexive and transitive. The inductive invariant `Inv` says that
both images are sound, that `db` follows `disk`, and that the two are the same
outside of an ingestion. The commit of an ingestion is then one step of
`CommittedIsFinal`, although many steps led to it: transitivity has carried
`Follows(disk, db)` through them. `InvStep` has one lemma per action.

`ReplayRepeats` rests on the same invariant. An instant before the present one is
the same in two images (`SamePast`) if their claims asserted by then are the same
and have the same rows up to it. Every store method leaves the past alone because
what it adds is dated at the present time or later: the server stamps claims,
contradictions are dated no earlier than the newer claim, and `ChangeTime` only
moves changes forward. A query then answers alike, as a claim known by that
instant has a row from then (`HistoryOK`), so that the present status is never
consulted. Both assumptions are needed: a library user's timestamps, and a clock
that is set back, do rewrite the past.

`TablesInv` adds to `Sound` what the tables of an image say of one another, again for
both images, because a rollback makes `disk` the one the connection sees.
`Accounted` has five parts: the audit events tell exactly the histories, the
outcomes of contradictions and the evidence that is there; two live claims that
disagree have a record; every status has a reason; an unanswered contradiction
holds its claims; claims are not asserted in the future. The last three are kept
under their hypotheses only. Each store method has a lemma for each part, and
`RecordClaimFields` says once what `record` leaves of every table. That a live conflict
is recorded rests on the symmetry of the detector and on histories only growing. A
reason stays one because a resolution is never taken back (`ReasonStays`), and a
verdict replaces what it takes away. That a contradiction holds its claims needs, of
two claims, that the one stored later was not asserted earlier: it was asserted now,
and `AssertedBy` says that no other was asserted after now, which is where a steady
clock comes in. `WholeInv` says of evidence that
all claims of a statement it came with are stored or, in the working image only, that
it is the document of the ingestion under way, of whose claims the ones before `next`
are stored; `FinishIngestion` is the step at which the two meet.

`RejectionsHaveCauses` needs to know where a stored claim came from. `SourceInv` says
that each is posted under its identifier or is a figure of a document that is stored
(`FigureOf`), and that the document of the ingestion under way is. The identifier of a
parsed claim names subject, metric, end of period, value and document; two documents
under one identifier are trusted alike (`SameDocument`), so two claims under one
identifier have the same confidence and can only differ in period, unit or the
detail: `PrintedTwice`. A parsed claim supersedes nothing and is no more confident
than its document is trusted, so that only the clock is left as a reason. That the
claims of a statement are the parser's is proved from the parser, for tables of any
size: `TableOutcomesOK` goes through the rows, `SortedOK` through what they yield.

### An analysis

`CallsInv` follows a call through its stages. `FormOK` is about the call alone: the
response is what `Judge` makes of its prompt and some answer. `ReadOK` says that what
was read is in the committed ledger, and still is, because a query runs only when no
ingestion is under way and because `CommittedIsFinal` keeps it. `SourcesOK` is what
`TakeSnapshot` establishes: every claim, its status and its evidence are told by
events of the snapshot. It follows from `AuditAccounts`, although the claims were
read under other holds of the lock: the events at the later time include those that
tell the earlier state. Each step of `Analysis` is one of the ledger or leaves it alone
(`StepOfLedger`), so that `Inv` and `TablesInv` hold for it too. Of the event,
`OneTransaction` says that what is not committed is in the one transaction under
way, and `DeliveriesInserted` that what has gone out was inserted; what a step loses
is then all that has joined the transaction it ends, and it commits nothing.

`HydrationInv` is about the queries: those left are the last of those asked for, the
claims come from those done and are within the limit, and, for a question about the
past, the image read is still the same at the knowledge time (`SamePast`, from the
proof of `ReplayRepeats`), which both images must say since a query reads the one and
later steps build on the other. Nothing eligible has been left out while there is
room. That a claim of one query does not use up the place of another's needs queries
of different predicates, which `normalize_predicates` gives them; that the limit
counts needs that the ledger has finitely many claims, an invariant too.

The gate is a matter of `Judge` alone. `ApplyCapsCaps` bounds the confidence and
`CappedIsNotBlocked` shows that the policy then has nothing to say about it;
`PassedIsReleasable` and `NoRuleOnActions` turn a released response into the rules it
has met; and `MandatoryScore` shows that the threshold of the score decides nothing:
an answer that meets the mandatory checks is above it.

### The transactions

The transactions rest on one invariant of the lock, `Control`: its holder reads at
depth zero or runs the one transaction at depth one, and `doomed` says of a
transaction that is being left whether it has raised. The type invariant needs it,
as the depth stays below two only because a transaction is opened under a lock that
nobody has. `Control` also says which statements a call of each kind can be at, and
that those of an explicit transaction are run under the lock, the reason why it
cannot be joined halfway by itself. `CallSafe` then follows one transaction's rows
and events through its call: nothing on disk before it, in the working image as
much as `Progress` says while it runs, the same in both images whenever it does not
run, and either all or nothing of it on disk. A step of another thread may write, or
join, or roll back; `OtherCall` shows that it leaves all of that alone, since it
commits or rolls back only while this call is not running, and what it writes has
another call's name. Nothing is assumed about the other calls, which may join the
transaction: `TransactionsSafe` holds also of the calls that fork the chain in
`shared_forks_chain`.

The last four theorems of `StoreProofs` assume `Explicit`, that the calls are
explicit transactions and queries, and are false without it. Then whoever is at a
statement has the lock (`ExplicitCalls`), so that the hash read by one statement is
still the last one when the next uses it (`Heads`), and what is uncommitted belongs
to the lock's holder (`Quiescent`). For the refinement, `Logged` says that the
working chain is the one on disk followed by the events of the running call, so that
its commit appends exactly `Entries(c)` to the abstract log; `Numbered`, that no call
begins that has ended before. The commit is the step `Leave` of a transaction that
has not raised; a call's start, return and exception are those of `AtomicStore`, a
crash is its crash, and every other step a stutter.

### The tenants

The theorems about tenants share one inductive invariant, `ServiceOK /\ DatabaseOK`.
`ServiceOK` is about requests, stores and the registry. Isolation is a
property of files and answers, but what a step writes depends on what earlier
steps decided, so `WorkerOK` follows a request through its stages: its principal
is what `Authenticate` gives for the headers, it has the scope it needs, its store
is one of its principal's tenant, and content it holds is that tenant's.
That a store in the registry is open needs that the stores
`close_all` is still to close are in the registry no more (`RegistryOK`), and that
a new store is one nobody knows, which is why the number of a request that is
admitted names no store yet.

`DatabaseOK` is about transactions and files. `TransactionsOK` ties the three
parties of a transaction together: the worker that owns it is inside a call on that
store and holds the write lock of the file, the write lock is held by a store that is
in a transaction, and a worker that writes without having joined anybody is in a
transaction of its own (`MustOwn`). `ImagesOK` says of committed and pending tables
that an identifier leads to an instrument that is there (`SoundMaster`), and, where no
add has joined, that they agree but for the identifiers the one worker that is inserting
is still to insert (`NamesLeft`): if no add joins, the lock does keep the check
and the insertions together, although events of others are inserted in between. That
needs `PathsApart`, that no two tenants have one file. `EventsOK` and `TellsOK` say of
an event that its request may have left it, and of a request that has joined nobody
that its event is pending until the commit and in the file from then on. Events are
told apart by the number of the request, which no two requests share; a request
that fails may have left one or not. Each statement has a lemma for the part of the
invariant it touches; the steps that only move a worker on share `QuietKeeps`, the
ones that end a transaction `EndedTransactions` and `EndedImages`. Whether the key
entitles the request is then a matter of `AuthenticateAdmits` and `RolesOfScopes`.

### The algorithms

The parser, the byte counter and the audit chain are recursive functions over
sequences. The library's induction theorem takes an operator, which the provers
cannot instantiate; `NaturalInduction` states it of a set instead and follows from
the well-foundedness of the natural numbers (`WFMin`). With it, a recursive
definition is first shown to have a value (`SizesExist`, `KeptExist`, `RowsExist`,
`YieldsExist`, `SortsExist`: the function on `0..n` extends to `0..n + 1`), then to
satisfy its equation, and then to have its property on every prefix.

`SeverityIsMonotone` rests on one inequality: as an amount moves away, the baseline
grows at most as fast as the disagreement, so a fraction of it of at most the
whole does so too. For relative tolerances above 100 % the property is false: at 150 %,
-1 agrees with 100 (101 is less than 150) but not with 1 (2 is more than 1.5). The
constructor of the detector (`claims.py:23-36`) only asks
that tolerances are not negative; the defaults are 0.1 % and 5 %.
`DamageIsDetected` shows both directions: a prefix of the chain verifies, and rows
that verify have, one after the other, the hashes of the chain, which are injective
because a hash is a digest of the whole event and the hash before (`HashOfRow`,
`ChainLinked`), so that an altered row can only be the row it was.
`ScaleIsIrrelevant` computes the claim of a printed figure (`ClaimOfFigure`) and finds
no scale in it.

`CalculatorsAreExact` has to earn its arithmetic first. `GreatestDivisor` is a
recursive function of two arguments that is shown to exist (`EuclidExists`), to be
the only one (`EuclidUnique`), and to be a divisor that is a sum of multiples of both
(`DivisorDivides`). So the terms of `Ratio` are prime to each other, and lowest
terms are unique (`LowestTerms`): two ratios are equal exactly if their cross products
are (`SameRatio`). That makes equality of results equality of numbers, and the laws of
rings, quotients, signs and order follow (`Closed` to `Signs`, `LessIs` to
`Shifted`); from there on no proof looks at a numerator again. Then

* growth and loan: the closed form satisfies the recurrence of the balance
  (`GrowthStep`, `OwedStep`), and a recurrence has one solution (`IterationUnique`).
  What is owed in the end is the difference of `Times(principal, power)` and
  `Times(payment, annuity)`, which are equal because one minus the factor of the code
  times the power is the rate times the annuity, and neither is zero (`PaymentIs`);
* drawdown: after each return the peak is the highest wealth so far and the drawdown
  the worst loss between two points so far (`WorstSoFar`), because seen from a higher
  peak a loss is worse (`WorseFromPeak`);
* tail: places are different, as the returns up to one are a proper subset of those
  up to the next (`PlaceEarlier`), so by counting every place is taken
  (`PlaceTaken`), and as many returns as the tail counts come up to its last. The mean
  of the tail is between its ends because its sums are (`MeanBetween`).

`FiguresStayConsistent` needs that a rounded amount is off by half a cent at most in
whatever terms it is written (`CentsOff`); over a common denominator the errors add
up to less than two cents, and the figures are whole.

### Only model-checked

The liveness properties `CallsEnd` of `StoreTransactions` and `CallEnds` of `Analysis`:
fairness and ENABLED are out of the prover's reach. And what the violation runs
refute.

## Not modelled, and the plan

Not modelled: what depends on the representation of numbers (the 28 digits of
Decimal, the floating-point statistics of the portfolio), and with it a rate so small
that one plus the rate is one; the endpoints for
calculators, capabilities and health, which keep no state; the limit on the size of evidence; a `commit()` that is refused because another
process holds the file, which would leave the transaction open; databases in
memory, which go with their stores; in `Analysis`, the use as a library, where
claims may come inline, and the warnings of the policy. The spelling that
tenants, actors and identifiers are normalized from is a constant function or left
out. Wording, hashes and encodings are abstracted everywhere.

Next, in this order:

1. That every request of `TenantService` ends, under weak fairness of each thread,
   in an instance small enough for TLC's liveness checking.
2. A file shared by two processes. (Two stores of one process on one file, and the
   busy errors they get, are in `TenantService`.)
