------------------------------- MODULE Analysis -------------------------------
(***************************************************************************)
(* POST /analyze beside the writers of the ledger.  The request is         *)
(* hydrated from the ledger in several locked reads (hydrate_analysis_     *)
(* request), the model is asked, in several attempts, its answer is judged *)
(* by ReleaseGate, the event analysis.completed is appended to the audit   *)
(* trail and the response delivered.  The ledger moves on between any two  *)
(* of these steps; the model, an outside service, answers anything.        *)
(*                                                                         *)
(* Each read takes the store's lock, which every other writer holds from   *)
(* its BEGIN to its end, be it an ingestion, POST /v1/claims, a resolution *)
(* or a call that writes no claim.  The event does not: append_audit_event *)
(* joins a transaction it finds under way, whoever runs it, and is         *)
(* committed or rolled back with it; if that transaction has ended before  *)
(* the INSERT, the INSERT opens one that nobody ends.  (StoreTransactions  *)
(* has what the other writers do to each other and to the chain.)          *)
(***************************************************************************)
EXTENDS ClaimsLedger, ReleaseGate

CONSTANTS
  Requests,          \* requests that may come in
  Answers,           \* answers of the model that fit FinancialAnswer
  VerifiedContents,  \* contents of ledger evidence from a reviewed source
  DataTime,          \* for each content, the time its data are of
  MaxEvidence,       \* the length an evidence list may have
  MaxAttempts,       \* max_attempts of the provider
  MaxAnalyses,       \* bound: no request comes in after so many completions
  NoContext,         \* a request without knowledge_context
  NoCall             \* no request is under way

\* Evidence as the agent sees it, from the ledger or inline.
Envelopes ==
  [id : EvidenceIds, observed : Nat, dated : Int, trust : Nat,
   verified : BOOLEAN]

\* normalize_predicates drops repetitions: no key is asked for twice.
QueryLists ==
  {queries \in Seq(SUBSET Keys) :
     \A i, j \in DOMAIN queries :
       i # j => queries[i] \intersect queries[j] = {}}

\* A knowledge_context; its queries are one set of keys for each predicate it
\* lists, or all keys of its subject.
Contexts ==
  [queries : QueryLists, business : Nat \union {Unset},
   knowledge : Nat \union {Unset}, max : Nat \ {0}]

\* AnalysisRequest.  secret and claims say whether the text holds a credential
\* and whether claims come inline.
RequestRecords ==
  [mode : {"auto"} \union {RoutedModes[i] : i \in DOMAIN RoutedModes},
   hits : [DOMAIN RoutedModes -> Nat], asOf : Nat \union {Unset},
   inline : Seq(Envelopes), claims : BOOLEAN, secret : BOOLEAN,
   context : Contexts \union {NoContext}]

ActionRecords ==
  [transactional : BOOLEAN, effect : {"simulate", "write", "execute"},
   approval : BOOLEAN, key : BOOLEAN, notional : Nat \union {Unset}]

AnswerRecords ==
  [claims : SUBSET ClaimIds, evidence : SUBSET EvidenceIds,
   confidence : 0..100, calculations : {"none", "deterministic", "other"},
   promises : BOOLEAN, risks : BOOLEAN, limitations : BOOLEAN,
   actions : SUBSET ActionRecords]

ASSUME AnalysisAssumption ==
  /\ \A r \in Requests : r \in RequestRecords
  /\ \A a \in Answers : a \in AnswerRecords
  /\ VerifiedContents \subseteq Nat
  /\ \A document \in Documents : DataTime[document.content] \in Int
  /\ MaxEvidence \in Nat
  /\ \A r \in Requests : Len(r.inline) <= MaxEvidence
  /\ MaxAttempts \in Nat \ {0}
  /\ MaxAnalyses \in Nat
  /\ NoContext \notin Contexts

VARIABLES
  call,       \* the request under way, or NoCall
  transaction,  \* that of another thread, apart from an ingestion's: "none",
                \* "call" if one is under way, "left" if an INSERT outside any
                \* transaction has opened one
  joined,     \* the analysis.completed events in a transaction not their own
  completed,  \* those committed
  delivered,  \* history: those of the responses that have gone out
  lost        \* history: those rolled back with the transaction they joined

eventVars == <<transaction, joined, completed, delivered, lost>>

callVars == <<call, eventVars>>

analysisVars == <<db, disk, clock, job, callVars>>

\* The analysis.completed events inserted so far.
Inserted == completed \union joined \union lost

\* The depth is zero and the lock is free.
LockFree == job = Idle /\ transaction # "call"

-----------------------------------------------------------------------------
(* Reading the ledger.                                                     *)

\* add_evidence stores the envelope a document comes with.
Envelope(e) ==
  [id |-> e.id, observed |-> e.observed, dated |-> DataTime[e.content],
   trust |-> e.trust, verified |-> e.content \in VerifiedContents]

\* Fault: the present status is shown.
CurrentStatus(d, q) == [d.claims[q.id] EXCEPT !.status = d.status[q.id]]

\* The claim a row of query_claims is made into.
ClaimOfRow(d, q) == [d.claims[q.id] EXCEPT !.status = q.status]

\* The rows of query_claims with include_disputed, over several keys.
Eligible(d, keys, business, knowledge) ==
  UNION {QueryClaims(d, key, business, knowledge, {"active", "disputed"}) :
           key \in keys}

\* ORDER BY effective_at DESC, asserted_at DESC; the identifier, by which ties
\* are broken, is left open.
SortsBefore(c, e) ==
  \/ c.effective > e.effective
  \/ c.effective = e.effective /\ c.asserted > e.asserted

\* The results LIMIT n allows.
FirstRows(claims, n) ==
  {s \in SUBSET claims :
     /\ Cardinality(s) = Least(n, Cardinality(claims))
     /\ \A c \in s, e \in claims \ s : ~SortsBefore(e, c)}

\* The evidence of the claims found that is yet to be read.
Unread ==
  (UNION {c.evidence : c \in call.claims}) \ IdsOf(call.evidence)

-----------------------------------------------------------------------------
(* The steps of the call.                                                  *)

\* The request is refused, or fails: its status is all that is left of it.
Refused(status) == [stage |-> "ended", status |-> status]

\* Two inline items have the same identifier.
RepeatsId(inline) ==
  \E i, j \in DOMAIN inline : i # j /\ inline[i].id = inline[j].id

\* PolicyEngine.preflight: no secret, and no identifier twice.  The items a
\* context comes with are collected by identifier beforehand.
Preflight(c) ==
  /\ ~c.request.secret
  /\ c.request.context = NoContext => ~RepeatsId(c.request.inline)

\* A request whose sources are complete goes to the model, unless its evidence
\* list is too long, which the endpoint does not catch, or the preflight
\* blocks it.
Prompted(c) ==
  IF Cardinality(c.evidence) > MaxEvidence THEN Refused(500)
  ELSE IF Preflight(c) THEN [c EXCEPT !.stage = "asking"]
  ELSE Refused(400)

\* The knowledge_as_of of the queries: now, if the context has none.
KnowledgeTimeOf(r) ==
  IF r.context.knowledge # Unset THEN r.context.knowledge ELSE clock

BusinessTimeOf(r) ==
  IF r.context.business # Unset THEN r.context.business
  ELSE IF r.asOf # Unset THEN r.asOf
  ELSE clock

\* The inline items, sanitized; of two with one identifier the last one stays.
InlineEvidence(r) ==
  {Sanitize(r.inline[i]) :
     i \in {i \in DOMAIN r.inline :
              \A j \in DOMAIN r.inline : r.inline[j].id = r.inline[i].id => j <= i}}

\* The call when the endpoint has sanitized it.
Sanitized(r) ==
  [stage |-> "reading", request |-> r, at |-> clock, left |-> <<>>,
   claims |-> {}, evidence |-> {}, business |-> r.asOf, knowledge |-> Unset,
   snapshot |-> {}, attempt |-> 0, response |-> Unset, status |-> Unset]

\* A request comes in.  Inline claims are refused; without a context there is
\* nothing to hydrate.
Receive(r) ==
  /\ call = NoCall
  /\ Cardinality(Inserted) < MaxAnalyses
  /\ call' =
       IF r.claims THEN Refused(400)
       ELSE IF r.context = NoContext
       THEN Prompted([Sanitized(r) EXCEPT !.evidence = InlineEvidence(r)])
       ELSE [Sanitized(r) EXCEPT
              !.left = r.context.queries,
              !.business = BusinessTimeOf(r),
              !.knowledge = KnowledgeTimeOf(r)]
  /\ UNCHANGED <<vars, eventVars>>

Reading == call # NoCall /\ call.stage = "reading"

\* Fault: each query has the limit of all.
SameLimit == call.request.context.max

\* What max_claims leaves for the next query.
Remaining == call.request.context.max - Cardinality(call.claims)

\* The query for the next predicate.
ReadClaims ==
  /\ Reading
  /\ LockFree
  /\ call.left # <<>>
  /\ Remaining > 0
  /\ LET rows == Eligible(db, Head(call.left), call.business, call.knowledge)
     IN  \E s \in FirstRows({ClaimOfRow(db, q) : q \in rows}, Remaining) :
           call' = [call EXCEPT !.left = Tail(@), !.claims = @ \union s]
  /\ UNCHANGED <<vars, eventVars>>

\* There are claims enough: the loop over the predicates ends.
BreakOff ==
  /\ Reading
  /\ call.left # <<>>
  /\ Remaining <= 0
  /\ call' = [call EXCEPT !.left = <<>>]
  /\ UNCHANGED <<vars, eventVars>>

\* get_evidence, for one identifier.
ReadEvidence ==
  /\ Reading
  /\ LockFree
  /\ call.left = <<>>
  /\ \E id \in Unread :
       call' = [call EXCEPT !.evidence = @ \union {Envelope(db.evidence[id])}]
  /\ UNCHANGED <<vars, eventVars>>

HasRead == Reading /\ call.left = <<>> /\ Unread = {}

\* Fault: collisions are not looked at.
NoCollision(c) == FALSE

\* An inline identifier is that of evidence of the ledger.
Collides(c) ==
  IdsOf(c.evidence) \intersect IdsOf(InlineEvidence(c.request)) # {}

RefuseCollision ==
  /\ HasRead
  /\ Collides(call)
  /\ call' = Refused(409)
  /\ UNCHANGED <<vars, eventVars>>

\* snapshot_sha256, which hashes the last audit event and so all of them (the
\* numbers of rows it adds, from reads of their own, are left out); the inline
\* evidence is added, and the request goes on to the agent.
TakeSnapshot ==
  /\ HasRead
  /\ LockFree
  /\ ~Collides(call)
  /\ call' = Prompted([call EXCEPT
                        !.snapshot = db.audit,
                        !.evidence = @ \union InlineEvidence(call.request)])
  /\ UNCHANGED <<vars, eventVars>>

Asking == call # NoCall /\ call.stage = "asking"

\* Fault: when the attempts are used up they are counted anew.
RetryForever ==
  /\ Asking
  /\ call' = [call EXCEPT !.attempt = (@ + 1) % MaxAttempts]
  /\ UNCHANGED <<vars, eventVars>>

\* Fault: there is one attempt too many.
OneAttemptMore ==
  /\ Asking
  /\ call' = IF call.attempt < MaxAttempts
             THEN [call EXCEPT !.attempt = @ + 1]
             ELSE Refused(502)
  /\ UNCHANGED <<vars, eventVars>>

\* The endpoint of the model fails, times out, or sends no JSON object.
AttemptFails ==
  /\ Asking
  /\ call' = IF call.attempt + 1 < MaxAttempts
             THEN [call EXCEPT !.attempt = @ + 1]
             ELSE Refused(502)
  /\ UNCHANGED <<vars, eventVars>>

\* The list of choices is empty: the IndexError is caught neither by the loop
\* over the attempts nor by the endpoint.
AnswerEmpty ==
  /\ Asking
  /\ call' = Refused(500)
  /\ UNCHANGED <<vars, eventVars>>

\* The answer does not fit FinancialAnswer.
AnswerUnfit ==
  /\ Asking
  /\ call' = Refused(502)
  /\ UNCHANGED <<vars, eventVars>>

\* What ReleaseGate reads of a call.  The cutoff of knowledge is that of the
\* context, not the time the ledger was read for.
Prompt(c) ==
  LET context == c.request.context
  IN  [claims |-> c.claims,
       evidence |-> c.evidence,
       market |-> RouteMode(c.request.mode, c.request.hits) \in MarketModes,
       business |-> c.business,
       knowledge |-> IF context = NoContext THEN Unset ELSE context.knowledge]

\* The model answers, and the answer is judged.
AnswerComes(answer) ==
  /\ Asking
  /\ call' = [call EXCEPT !.stage = "judged",
                          !.attempt = 0,
                          !.response = Judge(Prompt(call), answer)]
  /\ UNCHANGED <<vars, eventVars>>

Judged == call # NoCall /\ call.stage = "judged"

\* The payload of the event.
Completion(c) ==
  [claims |-> c.response.answer.claims, evidence |-> c.response.answer.evidence,
   score |-> c.response.score, passed |-> c.response.passed,
   snapshot |-> c.snapshot]

\* append_audit_event in a transaction of its own, for which BEGIN must find
\* none.
RecordAnalysis ==
  /\ Judged
  /\ job = Idle /\ transaction = "none"
  /\ completed' = completed \union {Completion(call)}
  /\ call' = [call EXCEPT !.stage = "recorded"]
  /\ UNCHANGED <<vars, transaction, joined, delivered, lost>>

\* append_audit_event while another thread's transaction is under way: _write()
\* finds the depth above zero and yields.
FindTransaction ==
  /\ Judged
  /\ ~LockFree
  /\ call' = [call EXCEPT !.stage = "joining"]
  /\ UNCHANGED <<vars, eventVars>>

Joining == call # NoCall /\ call.stage = "joining"

\* The event is in a transaction that is not its own.
Insert ==
  /\ joined' = joined \union {Completion(call)}
  /\ call' = [call EXCEPT !.stage = "recorded"]
  /\ UNCHANGED <<vars, completed, delivered, lost>>

\* The INSERT, while that transaction or the next one is under way.
InsertJoined ==
  /\ Joining
  /\ ~LockFree
  /\ Insert
  /\ UNCHANGED transaction

\* The INSERT, when it has ended: sqlite3 begins a transaction for it.
InsertLate ==
  /\ Joining
  /\ LockFree
  /\ Insert
  /\ transaction' = "left"

\* Fault: an event that cannot be written is passed over.
RecordSkipped ==
  /\ Judged \/ Joining
  /\ call' = [call EXCEPT !.stage = "recorded"]
  /\ UNCHANGED <<vars, eventVars>>

\* It raises: the response is lost.
RecordFails ==
  /\ Judged \/ Joining
  /\ call' = Refused(500)
  /\ UNCHANGED <<vars, eventVars>>

Deliver ==
  /\ call # NoCall
  /\ call.stage = "recorded"
  /\ call' = [call EXCEPT !.stage = "ended", !.status = 200]
  /\ delivered' = delivered \union {Completion(call)}
  /\ UNCHANGED <<vars, transaction, joined, completed, lost>>

-----------------------------------------------------------------------------
(* The other threads.                                                      *)

\* Fault: the commit leaves out what others have written.
DropJoined ==
  /\ joined' = {}
  /\ UNCHANGED <<completed, delivered, lost>>

\* A transaction is committed, and the events that joined it with it.
KeepJoined ==
  /\ completed' = completed \union joined
  /\ joined' = {}
  /\ UNCHANGED <<delivered, lost>>

\* It is rolled back, and so are they.
LoseJoined ==
  /\ lost' = lost \union joined
  /\ joined' = {}
  /\ UNCHANGED <<completed, delivered>>

CommitIngestion ==
  /\ FinishIngestion
  /\ KeepJoined
  /\ UNCHANGED <<call, transaction>>

RollBackIngestion ==
  /\ job # Idle
  /\ Crash \/ RejectIngestion
  /\ LoseJoined
  /\ UNCHANGED <<call, transaction>>

\* BEGIN IMMEDIATE of another call: of a claim posted, a contradiction resolved,
\* an instrument added or an event of its own.
BeginCall ==
  /\ job = Idle /\ transaction = "none"
  /\ transaction' = "call"
  /\ UNCHANGED <<vars, call, joined, completed, delivered, lost>>

\* Its commit: what it has written to the ledger, if anything, is there.
CommitCall ==
  /\ transaction = "call"
  /\ transaction' = "none"
  /\ \/ \E c \in Submissions : PostClaim(c)
     \/ \E pair \in Pairs, accepted \in ClaimIds :
          ResolveContradiction(pair, accepted)
     \/ \E pair \in Pairs : DismissContradiction(pair)
     \/ UNCHANGED vars
  /\ KeepJoined
  /\ UNCHANGED call

\* It raises, on a claim that is rejected, a contradiction that is not open or
\* a database that fails.
RollBackCall ==
  /\ transaction = "call"
  /\ transaction' = "none"
  /\ LoseJoined
  /\ UNCHANGED <<vars, call>>

\* An INSERT of another call comes as late as that of InsertLate.
LeaveOpen ==
  /\ job = Idle /\ transaction = "none"
  /\ transaction' = "left"
  /\ UNCHANGED <<vars, call, joined, completed, delivered, lost>>

\* A step of the ledger that ends no transaction; no ingestion begins in one.
LedgerStep ==
  /\ UNCHANGED <<disk, callVars>>
  /\ Next
  /\ transaction # "none" => UNCHANGED job
  /\ job # Idle => job' # Idle

\* The process dies, and the call with it.
Die ==
  /\ Crash
  /\ call' = NoCall
  /\ transaction' = "none"
  /\ LoseJoined

InitAnalysis ==
  /\ Init
  /\ call = NoCall
  /\ transaction = "none"
  /\ joined = {} /\ completed = {} /\ delivered = {} /\ lost = {}

CallStep ==
  \/ ReadClaims
  \/ BreakOff
  \/ ReadEvidence
  \/ RefuseCollision
  \/ TakeSnapshot
  \/ AttemptFails
  \/ AnswerEmpty
  \/ AnswerUnfit
  \/ \E answer \in Answers : AnswerComes(answer)
  \/ RecordAnalysis
  \/ FindTransaction
  \/ InsertJoined
  \/ InsertLate
  \/ RecordFails
  \/ Deliver

NextAnalysis ==
  \/ \E r \in Requests : Receive(r)
  \/ CallStep
  \/ CommitIngestion
  \/ RollBackIngestion
  \/ BeginCall
  \/ CommitCall
  \/ RollBackCall
  \/ LeaveOpen
  \/ LedgerStep
  \/ Die

SpecAnalysis == InitAnalysis /\ [][NextAnalysis]_analysisVars

\* A step of another thread's transaction.
TransactionStep ==
  \/ RollBackCall
  \/ RollBackIngestion
  \/ IngestClaim /\ UNCHANGED callVars
  \/ CommitIngestion
  \/ CommitCall

\* The event loop runs a call whenever it can, the timeout of the HTTP client
\* ends every attempt, a transaction goes on to its end, and a call that waits
\* for the store's lock is served when the lock is released again and again.
FairAnalysis ==
  /\ SpecAnalysis
  /\ WF_<<job, transaction>>(TransactionStep)
  /\ SF_call(CallStep)

-----------------------------------------------------------------------------
(* What must hold.                                                         *)

Responses ==
  [answer : AnswerRecords, blocked : SUBSET Reasons, approval : BOOLEAN,
   score : 0..100, passed : BOOLEAN]

\* A call not refused so far.
InHand == call # NoCall /\ (call.stage = "ended" => call.status = 200)

\* The call and the completion events have their types, the attempts stay below
\* the limit, a call has a status exactly when it has ended, and an event that
\* is not committed is in a transaction that is open.
AnalysisTypeOK ==
  /\ InHand =>
       /\ call.stage \in
            {"reading", "asking", "judged", "joining", "recorded", "ended"}
       /\ call.request \in Requests
       /\ call.left \in Seq(SUBSET Keys)
       /\ \A c \in call.claims : c \in ClaimRecords
       /\ \A e \in call.evidence : e \in Envelopes
       /\ call.snapshot \subseteq AuditEvents
       /\ call.attempt \in 0..(MaxAttempts - 1)
       /\ call.response = Unset \/ call.response \in Responses
       /\ call.status = (IF call.stage = "ended" THEN 200 ELSE Unset)
  /\ (call # NoCall /\ ~InHand) => call.status \in {400, 409, 500, 502}
  /\ \A v \in Inserted \union delivered :
       v.claims \subseteq ClaimIds /\ v.score \in 0..100
  /\ transaction \in {"none", "call", "left"}
  /\ job # Idle => transaction = "none"
  /\ (job = Idle /\ transaction = "none") => joined = {}

\* The sources of the call are complete.
HasSources == InHand /\ call.stage # "reading"

\* The question is about an instant before the request came in.
AboutThePast == call.knowledge # Unset /\ call.knowledge < call.at

\* The claims read for a request are, all the time the model takes, what the
\* ledger holds for the knowledge_as_of of the request: the content does not
\* change, the status is one the claim had by then and, for a past instant,
\* the one it had then, whatever is disputed, adjudicated or retracted while
\* hydrate_analysis_request reads or the model is asked.
SourcesAsKnown ==
  InHand =>
    \A c \in call.claims :
      /\ c.id \in StoredClaims(disk)
      /\ c = [disk.claims[c.id] EXCEPT !.status = c.status]
      /\ c.status \in {"active", "disputed"}
      /\ \E row \in disk.history[c.id] :
           row.at <= call.knowledge /\ row.status = c.status
      /\ AboutThePast => c.status = StatusAt(disk, c.id, call.knowledge)

\* The queries of one request together return no more than max_claims claims,
\* and leave one out that was known only when they return that many: the limit
\* over several predicates is shared, and drops nothing while there is room.
SelectionComplete ==
  (InHand /\ call.request.context # NoContext) =>
    LET context == call.request.context
        keys == UNION {context.queries[i] : i \in DOMAIN context.queries}
    IN  /\ Cardinality(call.claims) <= context.max
        /\ (HasSources /\ AboutThePast
             /\ Cardinality(call.claims) < context.max) =>
             \A q \in Eligible(disk, keys, call.business, call.knowledge) :
               q.id \in IdsOf(call.claims)

\* The snapshot the completion event names covers what the model was shown,
\* although the claims, the evidence and the snapshot are read under different
\* holds of the lock: every claim, its status and every piece of ledger evidence
\* is told by an audit event the snapshot includes.  The events of the ledger it
\* includes are committed, and stay part of the trail.
SnapshotCovers ==
  /\ HasSources =>
       \A c \in call.claims :
         /\ \E v \in call.snapshot :
              /\ v.action \in {"claim.created", "claim.status_changed"}
              /\ v.resource = c.id
              /\ v.outcome = c.status
              /\ v.at <= call.knowledge
         /\ \A id \in c.evidence :
              \E v \in call.snapshot :
                v.action = "evidence.ingested" /\ v.resource = id
  /\ \A v \in Inserted : v.snapshot \subseteq disk.audit

\* When the model is asked, an identifier names one piece of evidence, and the
\* identifier of evidence a claim rests on names that of the ledger: inline
\* evidence never takes its place.
UnambiguousSources ==
  HasSources =>
    /\ \A e, f \in call.evidence : e.id = f.id => e = f
    /\ \A c \in call.claims, e \in call.evidence :
         e.id \in c.evidence => e = Envelope(disk.evidence[e.id])
    /\ call.request.context = NoContext => ~RepeatsId(call.request.inline)

Answered == InHand /\ call.response # Unset

Released == Answered /\ call.response.passed

\* The confidence that goes out is below every cap at once: ten points above
\* the weakest source cited, that of unverified market analysis, and that of a
\* disputed claim; the rule by which the policy blocks an excessive confidence
\* is never what stops an answer.
CapsHold ==
  Answered =>
    LET prompt == Prompt(call)
        answer == call.response.answer
    IN  /\ \A x \in SourceScores(prompt, answer) :
             answer.confidence <= x + SourceMargin
        /\ CitesDispute(prompt, answer) => answer.confidence <= DisputeCap
        /\ UnverifiedMarket(prompt, answer) => answer.confidence <= MarketCap
        /\ "confidence" \notin call.response.blocked

\* An answer that passes cites nothing the model made up and rests, directly
\* and through its claims, on nothing the ledger learned after the knowledge
\* time of the request or that is dated after its business time, however the
\* ledger went on while the model was asked.
ReleasedOnKnownSources ==
  Released =>
    LET answer == call.response.answer
        context == call.request.context
    IN  /\ \A id \in answer.claims :
             /\ id \in StoredClaims(disk)
             /\ disk.claims[id].asserted <= call.knowledge
             /\ disk.claims[id].effective <= call.business
             /\ call.business < disk.claims[id].expires
             /\ \A e \in disk.claims[id].evidence :
                  /\ disk.evidence[e].ingested <= call.knowledge
                  /\ Envelope(disk.evidence[e]).dated <= call.business
        /\ \A id \in answer.evidence :
             \E e \in call.evidence :
               /\ e.id = id
               /\ call.business # Unset => e.dated <= call.business
               /\ (context # NoContext /\ call.knowledge = context.knowledge) =>
                    e.observed <= call.knowledge

\* A market answer that passes rests on evidence of the ledger from a reviewed
\* source; evidence that comes with the request never counts as one, whatever
\* kind it claims to be.
MarketReleaseVerified ==
  (Released /\ Prompt(call).market) =>
    \E e \in UsedSources(Prompt(call), call.response.answer) :
      /\ e.id \in StoredEvidence(disk)
      /\ disk.evidence[e.id].content \in VerifiedContents

\* A transaction that passes as a proposal is open to approval, says what it
\* costs, stays below the limit and can be told from its repetition, whatever
\* the model calls its side effect.
ReleasedActionsBounded ==
  Released =>
    \A x \in call.response.answer.actions :
      x.transactional =>
        /\ x.approval
        /\ call.response.approval
        /\ ExecutionEnabled
        /\ x.key
        /\ x.notional # Unset /\ x.notional <= MaxNotional

\* A response goes out only with its completion event in the audit trail,
\* which it never loses again, or in a transaction of another thread that
\* append_audit_event found under way.  Then the event shares the fate of that
\* transaction, also after the response: it is committed when the transaction
\* is, and it is lost only when the transaction is rolled back (by a claim or a
\* resolution that is rejected, or an exception) or ends with the process, and
\* nothing of the transaction is committed then.
DeliveredIsRecorded ==
  [][ /\ completed \subseteq completed'
      /\ delivered' \subseteq Inserted'
      /\ joined \subseteq Inserted'
      /\ lost' # lost =>
           /\ lost' = lost \union joined
           /\ UNCHANGED <<disk, completed>>
           /\ job' = Idle /\ transaction' = "none" ]_analysisVars

\* Every request that comes in is answered or refused, unless the process dies:
\* the attempts run out and the lock comes free.  (This is call # NoCall ~> the
\* end of the call, for a call is under way or it is not.)
CallEnds == []<>(call = NoCall \/ call.stage = "ended")
=============================================================================
