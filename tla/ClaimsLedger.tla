---------------------------- MODULE ClaimsLedger ----------------------------
(***************************************************************************)
(* The evidence and claims ledger of one CherryFin tenant: the mixins of   *)
(* SQLiteIntelligenceStore that keep evidence, claims, status history and  *)
(* contradictions, and the two writers above them, ClaimLedger.record and  *)
(* EvidencePipeline.ingest.                                               *)
(*                                                                         *)
(* The database is one value, an image.  db is what the store's connection *)
(* sees, disk what is committed.  Every operator on an image is the body   *)
(* of one store method; every action is one call of the API, or one step   *)
(* of the only call that is modelled step by step, an ingestion, which     *)
(* records the claims of a statement one after the other inside a single   *)
(* transaction while the wall clock goes on.                               *)
(*                                                                         *)
(* One unit of time is the microsecond by which set_claim_status moves a   *)
(* change that would not come after the latest one.                        *)
(***************************************************************************)
EXTENDS ContradictionDetector, Sequences, FiniteSets

CONSTANTS
  EvidenceIds,            \* evidence_id
  ClaimIds,               \* claim_id
  Contents,               \* what else an evidence document holds
  Documents,              \* evidence documents that may be ingested
  Keys,                   \* pairs of a subject_id and a predicate
  Periods,                \* pairs of a period_start and a period_end
  Units,                  \* pairs of a currency and a unit
  Details,                \* what only the fingerprint of a claim looks at
  Submissions,            \* claims that may be posted
  Ingestions,             \* a document and the claims its statement parses to
  LibraryChanges,         \* a claim and a status a library caller gives it
  TrustClientTimestamps,  \* trust_client_timestamps: TRUE only in library use
  ClockMayStepBack,       \* whether the wall clock may be set back
  MaxClock,               \* bound: the last instant of a behaviour
  MaxIngestions,          \* bound: no ingestion starts after so many
  Absent,                 \* no such row
  Idle,                   \* no ingestion is under way
  NoVerdict               \* a null accepted_claim_id

ValueKinds == {"decimal", "text", "boolean", "date"}

ClaimStatuses == {"active", "disputed", "superseded", "retracted"}

ContradictionStatuses == {"open", "resolved", "dismissed"}

\* The two claims of a contradiction; claim_ids is sorted and without
\* duplicates, so that the pair is a set of two.
Pairs == {{c, e} : c, e \in ClaimIds} \ {{c} : c \in ClaimIds}

EvidenceRecords ==
  [id : EvidenceIds, content : Contents, observed : Nat, ingested : Nat, trust : Nat]

ContradictionRecords ==
  [severity : Severities, detected : Nat, status : ContradictionStatuses,
   accepted : ClaimIds \union {NoVerdict}]

HistoryRows == [at : Nat, status : ClaimStatuses]

AuditEvents ==
  [action : {"evidence.ingested", "claim.created", "claim.status_changed",
             "contradiction.created", "contradiction.resolved",
             "ingestion.completed"},
   resource : EvidenceIds \union ClaimIds \union Pairs,
   outcome : {"new"} \union ClaimStatuses \union ContradictionStatuses,
   at : Nat]

\* FinancialClaim: the fields the code reads.  A claim without an expires_at
\* has an expiry no query reaches; detail is what only the fingerprint looks
\* at, the spelling of the value, the methodology and the metadata.
ClaimRecords ==
  [id : ClaimIds, key : Keys, period : Periods \union {NoPeriod},
   effective : Int, expires : Int, kind : ValueKinds, unit : Units,
   value : Int, detail : Details, evidence : (SUBSET EvidenceIds) \ {{}},
   confidence : Nat, supersedes : ClaimIds \union {NoClaim}, asserted : Nat,
   status : ClaimStatuses]

ASSUME LedgerAssumption ==
  /\ Documents \subseteq EvidenceRecords
  /\ Submissions \subseteq ClaimRecords
  /\ \A i \in Ingestions :
       /\ i.document \in Documents
       /\ i.claims \in Seq(ClaimRecords)
  /\ LibraryChanges \subseteq ClaimIds \X ClaimStatuses
  /\ TrustClientTimestamps \in BOOLEAN
  /\ ClockMayStepBack \in BOOLEAN
  /\ MaxClock \in Nat
  /\ MaxIngestions \in Nat
  /\ NoClaim \notin ClaimIds
  /\ NoVerdict \notin ClaimIds
  /\ Absent \notin EvidenceRecords
  /\ Absent \notin ClaimRecords
  /\ Absent \notin ContradictionRecords
  /\ Absent \notin ClaimStatuses
  /\ Idle \notin [ingestion : Ingestions, next : Nat]

VARIABLES
  db,     \* the database as the connection sees it
  disk,   \* the committed database
  clock,  \* datetime.now(UTC)
  job     \* the ingestion that holds the transaction, or Idle

vars == <<db, disk, clock, job>>

-----------------------------------------------------------------------------
(* Reading an image.                                                       *)

EmptyImage ==
  [evidence |-> [e \in EvidenceIds |-> Absent],
   claims |-> [c \in ClaimIds |-> Absent],
   status |-> [c \in ClaimIds |-> Absent],
   history |-> [c \in ClaimIds |-> {}],
   contradictions |-> [p \in Pairs |-> Absent],
   audit |-> {}]

StoredClaims(d) == {c \in ClaimIds : d.claims[c] # Absent}

StoredEvidence(d) == {e \in EvidenceIds : d.evidence[e] # Absent}

StoredContradictions(d) == {p \in Pairs : d.contradictions[p] # Absent}

Event(action, resource, outcome, at) ==
  [action |-> action, resource |-> resource, outcome |-> outcome, at |-> at]

\* The row ORDER BY changed_at DESC LIMIT 1 returns; the primary key
\* (claim_id, changed_at) keeps two rows of a claim apart.
LatestRow(rows) == CHOOSE r \in rows : \A q \in rows : q.at <= r.at

\* claim_fingerprint: everything but the identifier, the time of assertion
\* and the status.
Fingerprint(c) ==
  [f \in DOMAIN c \ {"id", "asserted", "status"} |-> c[f]]

\* The point_in_time_status column of query_claims.
StatusAt(d, c, knowledge) ==
  LET rows == {r \in d.history[c] : r.at <= knowledge}
  IN  IF rows = {} THEN d.status[c] ELSE LatestRow(rows).status

\* query_claims, for one predicate: the claims with their status at the time.
\* The ORDER BY is over immutable columns and the LIMIT is left out.
QueryClaims(d, key, business, knowledge, statuses) ==
  {[id |-> c, status |-> StatusAt(d, c, knowledge)] :
     c \in {c \in StoredClaims(d) :
              /\ d.claims[c].key = key
              /\ d.claims[c].effective <= business
              /\ d.claims[c].asserted <= knowledge
              /\ d.claims[c].expires > business
              /\ StatusAt(d, c, knowledge) \in statuses}}

-----------------------------------------------------------------------------
(* The store methods, as operators on an image.                            *)

\* add_evidence: evidence is immutable, apart from the time it is ingested at.
SameDocument(stored, document) ==
  [stored EXCEPT !.ingested = document.ingested] = document

AcceptsEvidence(d, document) ==
  d.evidence[document.id] # Absent =>
    SameDocument(d.evidence[document.id], document)

AddEvidence(d, document, now) ==
  LET ingested == IF TrustClientTimestamps THEN document.ingested ELSE now
  IN  IF d.evidence[document.id] # Absent THEN d
      ELSE [d EXCEPT
             !.evidence[document.id] = [document EXCEPT !.ingested = ingested],
             !.audit = @ \union
               {Event("evidence.ingested", document.id, "new", ingested)}]

\* The claim add_claim stores: with untrusted timestamps the server says when
\* it was asserted, and that it is active.
Stamped(c, now) ==
  IF TrustClientTimestamps THEN c
  ELSE [c EXCEPT !.asserted = now, !.status = "active"]

\* The conflict on the claim identifier.
IdentifierTaken(d, c) ==
  /\ c.id \in StoredClaims(d)
  /\ Fingerprint(d.claims[c.id]) # Fingerprint(c)

\* The claim is there already, under its own or under another identifier.
AlreadyStored(d, c) ==
  \E e \in StoredClaims(d) : Fingerprint(d.claims[e]) = Fingerprint(c)

\* When the evidence came to be known, for the dependency check.
KnowledgeTime(e) == IF TrustClientTimestamps THEN e.observed ELSE e.ingested

\* Fault: the most trusted evidence sets the ceiling.
SupportedBySome(d, c) ==
  /\ \A e \in c.evidence :
       /\ e \in StoredEvidence(d)
       /\ KnowledgeTime(d.evidence[e]) <= c.asserted
  /\ \E e \in c.evidence : c.confidence <= d.evidence[e].trust

\* The evidence exists, was known in time, and is trusted enough.
Supported(d, c) ==
  \A e \in c.evidence :
    /\ e \in StoredEvidence(d)
    /\ KnowledgeTime(d.evidence[e]) <= c.asserted
    /\ c.confidence <= d.evidence[e].trust

\* add_claim, once its checks have passed.
AddClaim(d, c) ==
  [d EXCEPT
    !.claims[c.id] = c,
    !.status[c.id] = c.status,
    !.history[c.id] = {[at |-> c.asserted, status |-> c.status]},
    !.audit = @ \union {Event("claim.created", c.id, c.status, c.asserted)}]

\* Fault: the change is recorded at the time the caller gives.
UnmovedChangeTime(d, c, at) == at

\* When set_claim_status records a change: after the latest one.
ChangeTime(d, c, at) ==
  LET latest == LatestRow(d.history[c]).at
  IN  IF at <= latest THEN latest + 1 ELSE at

\* The claims target gives another status than they have.
Changed(d, target) == {c \in DOMAIN target : d.status[c] # target[c].status}

\* The history row of a changed claim.
NewRow(d, c, change) ==
  [at |-> ChangeTime(d, c, change.at), status |-> change.status]

\* Fault: the status changes without an audit event.
ChangeUnaudited(d, target) ==
  [d EXCEPT
    !.status = [c \in ClaimIds |->
      IF c \in Changed(d, target) THEN target[c].status ELSE d.status[c]],
    !.history = [c \in ClaimIds |->
      IF c \in Changed(d, target)
      THEN d.history[c] \union {NewRow(d, c, target[c])}
      ELSE d.history[c]]]

\* Fault: the row of the latest change is written over.
ChangeInPlace(d, target) ==
  [d EXCEPT
    !.status = [c \in ClaimIds |->
      IF c \in Changed(d, target) THEN target[c].status ELSE d.status[c]],
    !.history = [c \in ClaimIds |->
      IF c \in Changed(d, target)
      THEN (d.history[c] \ {LatestRow(d.history[c])})
             \union {NewRow(d, c, target[c])}
      ELSE d.history[c]]]

\* set_claim_status, for every claim of the domain of target: target[c] is the
\* status the claim gets and the time the caller gives.
SetClaimStatuses(d, target) ==
  [d EXCEPT
    !.status = [c \in ClaimIds |->
      IF c \in Changed(d, target) THEN target[c].status ELSE d.status[c]],
    !.history = [c \in ClaimIds |->
      IF c \in Changed(d, target)
      THEN d.history[c] \union {NewRow(d, c, target[c])}
      ELSE d.history[c]],
    !.audit = @ \union
      {Event("claim.status_changed", c, target[c].status,
             NewRow(d, c, target[c]).at) : c \in Changed(d, target)}]

\* Fault: no rival is asked whether it disagrees.
RivalsUnasked(d, c) ==
  {e \in StoredClaims(d) : d.status[e] \notin {"superseded", "retracted"}}

\* Fault: disputed claims are passed over too.
ActiveRivals(d, c) ==
  {e \in StoredClaims(d) :
     /\ d.status[e] = "active"
     /\ Detect(c, c.status, d.claims[e], d.status[e]) # Agreement}

\* The stored claims a new claim c is compared with and contradicts: those
\* neither superseded nor retracted.
Rivals(d, c) ==
  {e \in StoredClaims(d) :
     /\ d.status[e] \notin {"superseded", "retracted"}
     /\ Detect(c, c.status, d.claims[e], d.status[e]) # Agreement}

\* The record the detector makes of the new claim c and its rival e.
Contradiction(d, c, e) ==
  [severity |-> Detect(c, c.status, d.claims[e], d.status[e]),
   status |-> "open",
   detected |-> DetectedAt(c, d.claims[e]),
   accepted |-> NoVerdict]

\* The rivals whose contradiction with c add_contradiction creates: a pair of
\* claims has one record.
NewRivals(d, c) == {e \in Rivals(d, c) : d.contradictions[{c.id, e}] = Absent}

\* add_contradiction, for the new claim c and every claim of rivals.
AddContradictions(d, c, rivals) ==
  [d EXCEPT
    !.contradictions = [p \in Pairs |->
      IF \E e \in rivals : p = {c.id, e}
      THEN Contradiction(d, c, CHOOSE e \in rivals : p = {c.id, e})
      ELSE d.contradictions[p]],
    !.audit = @ \union
      {Event("contradiction.created", {c.id, e}, "open",
             DetectedAt(c, d.claims[e])) : e \in rivals}]

-----------------------------------------------------------------------------
(* The writers above the store.                                            *)

\* The claim a new one supersedes is stored and speaks of the same thing.
SupersedesSoundly(d, c) ==
  \/ c.supersedes = NoClaim
  \/ /\ c.supersedes \in StoredClaims(d)
     /\ d.claims[c.supersedes].key = c.key

\* ClaimLedger.record does not raise.
AcceptsClaim(d, submitted, now) ==
  /\ SupersedesSoundly(d, submitted)
  /\ ~IdentifierTaken(d, submitted)
  /\ AlreadyStored(d, submitted) \/ Supported(d, Stamped(submitted, now))

\* Fault: the new claim itself stays active.
ConsequencesForOthers(d, c, rivals) ==
  LET disputed == {e \in rivals : d.status[e] = "active"}
      replaced == {c.supersedes} \ {NoClaim}
  IN  [e \in disputed \union replaced |->
        [status |-> IF e \in replaced THEN "superseded" ELSE "disputed",
         at |-> c.asserted]]

\* The status changes that follow from storing c: its active rivals become
\* disputed, and c itself too unless it supersedes a claim, which is then
\* superseded.
Consequences(d, c, rivals) ==
  LET disputed == {e \in rivals : d.status[e] = "active"}
      self == IF rivals # {} /\ c.status = "active" THEN {c.id} ELSE {}
  IN  IF c.supersedes = NoClaim
      THEN [e \in disputed \union self |->
              [status |-> "disputed",
               at |-> IF e = c.id THEN c.asserted
                                  ELSE DetectedAt(c, d.claims[e])]]
      ELSE [e \in disputed \union {c.supersedes} |->
              IF e = c.supersedes
              THEN [status |-> "superseded", at |-> c.asserted]
              ELSE [status |-> "disputed",
                    at |-> DetectedAt(c, d.claims[e])]]

\* ClaimLedger.record, when it does not raise.
RecordClaim(d, submitted, now) ==
  LET c == Stamped(submitted, now)
      rivals == NewRivals(d, c)
  IN  IF AlreadyStored(d, submitted) THEN d
      ELSE SetClaimStatuses(AddContradictions(AddClaim(d, c), c, rivals),
                            Consequences(d, c, rivals))

\* Fault: the accepted claim is the one superseded.
ReversedVerdict(pair, accepted, now) ==
  [c \in pair |->
    [status |-> IF c = accepted THEN "superseded" ELSE "active", at |-> now]]

\* The statuses resolve_contradiction gives the two claims.
Verdict(pair, accepted, now) ==
  [c \in pair |->
    [status |-> IF c = accepted THEN "active" ELSE "superseded", at |-> now]]

\* Fault: the accepted claim is not noted.
CloseSilently(d, pair, status, accepted, now) ==
  [d EXCEPT
    !.contradictions[pair].status = status,
    !.audit = @ \union {Event("contradiction.resolved", pair, status, now)}]

\* The contradiction gets its final state.
Close(d, pair, status, accepted, now) ==
  [d EXCEPT
    !.contradictions[pair].status = status,
    !.contradictions[pair].accepted = accepted,
    !.audit = @ \union {Event("contradiction.resolved", pair, status, now)}]

-----------------------------------------------------------------------------
(* The calls.                                                              *)

Init ==
  /\ db = EmptyImage
  /\ disk = EmptyImage
  /\ clock = 0
  /\ job = Idle

\* A call that is one transaction: it runs while no ingestion holds the
\* transaction, and what it writes is committed.
Transact(image) ==
  /\ job = Idle
  /\ db' = image
  /\ disk' = image
  /\ UNCHANGED <<clock, job>>

\* POST /claims: ClaimLedger.record.
PostClaim(c) ==
  /\ AcceptsClaim(db, c, clock)
  /\ Transact(RecordClaim(db, c, clock))

CompletedIngestions(d) == {v \in d.audit : v.action = "ingestion.completed"}

\* The start of EvidencePipeline.ingest: BEGIN IMMEDIATE, add_evidence and
\* the parse of the statement, which yields the claims of i.
StartIngestion(i) ==
  /\ job = Idle
  /\ Cardinality(CompletedIngestions(db)) < MaxIngestions
  /\ AcceptsEvidence(db, i.document)
  /\ db' = AddEvidence(db, i.document, clock)
  /\ job' = [ingestion |-> i, next |-> 1]
  /\ UNCHANGED <<disk, clock>>

ClaimsLeft == job # Idle /\ job.next <= Len(job.ingestion.claims)

NextClaim == job.ingestion.claims[job.next]

\* One turn of the loop over the parsed claims.
IngestClaim ==
  /\ ClaimsLeft
  /\ AcceptsClaim(db, NextClaim, clock)
  /\ db' = RecordClaim(db, NextClaim, clock)
  /\ job' = [job EXCEPT !.next = @ + 1]
  /\ UNCHANGED <<disk, clock>>

\* Fault: the claims before the rejected one stay.
KeepRejected ==
  /\ ClaimsLeft
  /\ ~AcceptsClaim(db, NextClaim, clock)
  /\ disk' = db
  /\ job' = Idle
  /\ UNCHANGED <<db, clock>>

\* A claim of the statement is rejected: the transaction is rolled back.
RejectIngestion ==
  /\ ClaimsLeft
  /\ ~AcceptsClaim(db, NextClaim, clock)
  /\ db' = disk
  /\ job' = Idle
  /\ UNCHANGED <<disk, clock>>

\* The last audit event of the ingestion, and the commit.
FinishIngestion ==
  /\ job # Idle
  /\ ~ClaimsLeft
  /\ db' = [db EXCEPT !.audit = @ \union
              {Event("ingestion.completed", job.ingestion.document.id, "new",
                     clock)}]
  /\ disk' = db'
  /\ job' = Idle
  /\ UNCHANGED clock

\* resolve_contradiction with an accepted claim, on an open contradiction; on
\* any other it changes nothing or raises.
ResolveContradiction(pair, accepted) ==
  /\ pair \in StoredContradictions(db)
  /\ db.contradictions[pair].status = "open"
  /\ accepted \in pair
  /\ Transact(Close(SetClaimStatuses(db, Verdict(pair, accepted, clock)),
                    pair, "resolved", accepted, clock))

\* resolve_contradiction with dismiss: both claims stay as they are.
DismissContradiction(pair) ==
  /\ pair \in StoredContradictions(db)
  /\ db.contradictions[pair].status = "open"
  /\ Transact(Close(db, pair, "dismissed", NoVerdict, clock))

\* set_claim_status called by library code, with no changed_at.
SetClaimStatus(c, status) ==
  /\ <<c, status>> \in LibraryChanges
  /\ c \in StoredClaims(db)
  /\ Transact(SetClaimStatuses(db, [e \in {c} |->
                                      [status |-> status, at |-> clock]]))

\* The process dies, or an exception ends the transaction under way: the
\* connection sees what is committed.
Crash ==
  /\ db' = disk
  /\ job' = Idle
  /\ UNCHANGED <<disk, clock>>

Tick ==
  /\ clock < MaxClock
  /\ clock' = clock + 1
  /\ UNCHANGED <<db, disk, job>>

\* The wall clock is set back.
StepBack ==
  /\ ClockMayStepBack
  /\ clock > 0
  /\ clock' = clock - 1
  /\ UNCHANGED <<db, disk, job>>

Next ==
  \/ \E c \in Submissions : PostClaim(c)
  \/ \E i \in Ingestions : StartIngestion(i)
  \/ IngestClaim
  \/ RejectIngestion
  \/ FinishIngestion
  \/ \E pair \in Pairs, accepted \in ClaimIds :
       ResolveContradiction(pair, accepted)
  \/ \E pair \in Pairs : DismissContradiction(pair)
  \/ \E c \in ClaimIds, status \in ClaimStatuses : SetClaimStatus(c, status)
  \/ Crash
  \/ Tick
  \/ StepBack

Spec == Init /\ [][Next]_vars

-----------------------------------------------------------------------------
(* What an image must be.  Each part is a predicate of an image, so that it *)
(* can be asked of what the connection sees and of what is committed.       *)

ImageOK(d) ==
  d \in [evidence : [EvidenceIds -> EvidenceRecords \union {Absent}],
         claims : [ClaimIds -> ClaimRecords \union {Absent}],
         status : [ClaimIds -> ClaimStatuses \union {Absent}],
         history : [ClaimIds -> SUBSET HistoryRows],
         contradictions : [Pairs -> ContradictionRecords \union {Absent}],
         audit : SUBSET AuditEvents]

\* The row r comes before every other row.
IsFirst(r, rows) == \A q \in rows : q = r \/ r.at < q.at

\* The row r comes after every other row.
IsLast(r, rows) == \A q \in rows : q = r \/ q.at < r.at

HistoryOK(d) ==
  \A c \in ClaimIds :
    /\ (d.claims[c] = Absent) = (d.status[c] = Absent)
    /\ d.claims[c] = Absent => d.history[c] = {}
    /\ d.claims[c] # Absent =>
         /\ d.claims[c].id = c
         /\ \E r \in d.history[c] :
              r.at = d.claims[c].asserted /\ IsFirst(r, d.history[c])
         /\ \E r \in d.history[c] :
              r.status = d.status[c] /\ IsLast(r, d.history[c])
         /\ \A q, r \in d.history[c] : q.at = r.at => q = r

SupportOK(d) ==
  \A c \in StoredClaims(d) :
    /\ \A e \in d.claims[c].evidence :
         /\ e \in StoredEvidence(d)
         /\ d.claims[c].confidence <= d.evidence[e].trust
         /\ IF TrustClientTimestamps
            THEN d.evidence[e].observed <= d.claims[c].asserted
            ELSE d.evidence[e].ingested <= d.claims[c].asserted
    /\ \A e \in StoredClaims(d) :
         Fingerprint(d.claims[c]) = Fingerprint(d.claims[e]) => c = e
    /\ d.claims[c].supersedes # NoClaim =>
         /\ d.claims[c].supersedes \in StoredClaims(d) \ {c}
         /\ d.claims[d.claims[c].supersedes].key = d.claims[c].key

\* A record is about two stored claims that disagree, and it names the claim
\* it accepted exactly if it is resolved.
ContradictionsOK(d) ==
  \A p \in StoredContradictions(d) :
    /\ p \subseteq StoredClaims(d)
    /\ \A c, e \in p : c # e =>
         Detect(d.claims[c], "active", d.claims[e], "active") # Agreement
    /\ IF d.contradictions[p].status = "resolved"
       THEN d.contradictions[p].accepted \in p
       ELSE d.contradictions[p].accepted = NoVerdict

Unresolved(d, p) ==
  p \in StoredContradictions(d) /\ d.contradictions[p].status # "resolved"

\* Every status has a reason on record.
JustifiedOK(d) ==
  \A c \in StoredClaims(d) :
    /\ d.status[c] = "disputed" => \E p \in Pairs : c \in p /\ Unresolved(d, p)
    /\ d.status[c] = "active" =>
         \/ \A r \in d.history[c] : r.status = "active"
         \/ \E p \in StoredContradictions(d) : d.contradictions[p].accepted = c
    /\ d.status[c] = "superseded" =>
         \/ \E p \in StoredContradictions(d) :
              /\ c \in p
              /\ d.contradictions[p].status = "resolved"
              /\ d.contradictions[p].accepted # c
         \/ \E e \in StoredClaims(d) : d.claims[e].supersedes = c

\* Whether the claim has been neither superseded nor retracted so far.
AlwaysLive(d, c) ==
  \A r \in d.history[c] : r.status \in {"active", "disputed"}

ConflictsRecordedOK(d) ==
  \A c, e \in StoredClaims(d) :
    /\ AlwaysLive(d, c)
    /\ AlwaysLive(d, e)
    /\ Detect(d.claims[c], "active", d.claims[e], "active") # Agreement
    => {c, e} \in StoredContradictions(d)

\* No resolution has ever accepted or rejected the claim.
Unadjudicated(d, c) ==
  \A p \in StoredContradictions(d) :
    c \in p => d.contradictions[p].status # "resolved"

\* The claims of a contradiction that has had no answer are not active.  The
\* newer claim is exempt if it supersedes a third one (see the README).
ConflictsHeldOK(d) ==
  \A p \in StoredContradictions(d) : \A c, e \in p :
    /\ c # e
    /\ Unadjudicated(d, c)
    /\ d.claims[c].asserted < d.claims[e].asserted
         \/ d.claims[c].supersedes = NoClaim
    => d.status[c] # "active"

\* The events about a claim tell its history, those about a pair whether and
\* how its contradiction was closed, and evidence has an event.
AuditOK(d) ==
  /\ \A c \in ClaimIds :
       d.history[c] =
         {[at |-> e.at, status |-> e.outcome] :
            e \in {e \in d.audit :
                     e.resource = c /\ e.action \in
                       {"claim.created", "claim.status_changed"}}}
  /\ \A p \in Pairs : \A s \in ContradictionStatuses \ {"open"} :
       (p \in StoredContradictions(d) /\ d.contradictions[p].status = s)
         = (\E e \in d.audit :
              /\ e.action = "contradiction.resolved"
              /\ e.resource = p
              /\ e.outcome = s)
  /\ \A e \in EvidenceIds :
       (e \in StoredEvidence(d))
         = (\E v \in d.audit :
              v.action = "evidence.ingested" /\ v.resource = e)

-----------------------------------------------------------------------------
(* Properties.                                                             *)

\* The tables, the clock and the ingestion under way have their types.
TypeOK ==
  /\ ImageOK(db)
  /\ ImageOK(disk)
  /\ clock \in 0..MaxClock
  /\ \/ job = Idle
     \/ /\ job \in [ingestion : Ingestions, next : Nat]
        /\ job.next \in 1..(Len(job.ingestion.claims) + 1)

\* claim_status_history and the status column tell the same story: the first
\* row of a claim is the one of its assertion, the last row holds its present
\* status, and no two rows of it share a time, however often it changes within
\* one microsecond and wherever the clock goes.  So a point-in-time query never
\* falls back to the present status, and the primary key is never violated.
HistoryFaithful == HistoryOK(db) /\ HistoryOK(disk)

\* Every stored claim is supported: its evidence is stored, was known when the
\* claim was asserted and is trusted at least as much as the claim, the claim it
\* supersedes is there, and no other stored claim has the same content.
SupportSound == SupportOK(db) /\ SupportOK(disk)

\* A contradiction is a real disagreement between two stored claims, and it
\* names an accepted claim of the two exactly if it is resolved.
ContradictionsSound == ContradictionsOK(db) /\ ContradictionsOK(disk)

\* No claim has a status nobody gave a reason for: a disputed one is in a
\* contradiction that is not resolved, one that is active again was accepted,
\* and a superseded one was rejected or explicitly restated.
StatusJustified == JustifiedOK(db) /\ JustifiedOK(disk)

\* Two claims that disagree and that have been live ever since they were stored
\* have a contradiction on record, whichever of them came first, and also if one
\* of them was disputed already.
LiveConflictsRecorded == ConflictsRecordedOK(db) /\ ConflictsRecordedOK(disk)

\* As long as nobody has adjudicated it, a claim of a contradiction is not
\* served as active.
ConflictsHeld == ConflictsHeldOK(db) /\ ConflictsHeldOK(disk)

\* Every change of a record has its audit event: the history of each claim, the
\* outcome of each contradiction and the presence of each piece of evidence can
\* be told from the audit events alone.
AuditAccounts == AuditOK(db) /\ AuditOK(disk)

\* Evidence is committed together with all the claims of its statement, or not
\* at all: rejections and crashes in the middle leave no partial ingestion.
IngestionAtomic ==
  \A e \in StoredEvidence(disk) :
    \E i \in Ingestions :
      /\ i.document.id = e
      /\ SameDocument(disk.evidence[e], i.document)
      /\ \A k \in 1..Len(i.claims) : AlreadyStored(disk, i.claims[k])

\* What is committed stays: evidence, the content of claims, closed
\* contradictions, history rows and audit events never change or vanish, and a
\* new row of a claim's history comes after all its rows.
CommittedIsFinal ==
  [][ /\ \A e \in StoredEvidence(disk) : disk'.evidence[e] = disk.evidence[e]
      /\ \A c \in StoredClaims(disk) :
           /\ disk'.claims[c] = disk.claims[c]
           /\ disk.history[c] \subseteq disk'.history[c]
           /\ \A q \in disk.history[c] :
                \A r \in disk'.history[c] \ disk.history[c] : q.at < r.at
      /\ \A p \in StoredContradictions(disk) :
           disk.contradictions[p].status # "open" =>
             disk'.contradictions[p] = disk.contradictions[p]
      /\ disk.audit \subseteq disk'.audit ]_vars

=============================================================================
