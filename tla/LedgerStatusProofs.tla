-------------------------- MODULE LedgerStatusProofs --------------------------
(***************************************************************************)
(* Theorems about ClaimsLedger that relate its tables to each other: the   *)
(* audit trail accounts for the tables, every status has its reason, claims *)
(* that disagree have their contradiction, and an ingestion is committed   *)
(* whole.  They rest on the invariant of ClaimsLedgerProofs.               *)
(***************************************************************************)
EXTENDS ClaimsLedgerProofs

-----------------------------------------------------------------------------
(* What a set of audit events tells.                                       *)

\* The history rows the events about a claim tell.
RowsTold(events, c) ==
  {[at |-> e.at, status |-> e.outcome] :
     e \in {e \in events :
              e.resource = c /\ e.action \in
                {"claim.created", "claim.status_changed"}}}

\* Whether they tell that the contradiction of a pair was closed with status s.
ClosingTold(events, p, s) ==
  \E e \in events :
    /\ e.action = "contradiction.resolved"
    /\ e.resource = p
    /\ e.outcome = s

\* Whether they tell of the arrival of a piece of evidence.
ArrivalTold(events, e) ==
  \E v \in events : v.action = "evidence.ingested" /\ v.resource = e

\* Whether the contradiction of a pair is closed with status s.
ClosedAs(d, p, s) ==
  p \in StoredContradictions(d) /\ d.contradictions[p].status = s

\* Whether a piece of evidence is there.
Arrived(d, e) == d.evidence[e] # Absent

\* AuditOK, in these terms.
LEMMA AuditTells ==
  ASSUME NEW d
  PROVE  AuditOK(d) <=>
           /\ \A c \in ClaimIds : d.history[c] = RowsTold(d.audit, c)
           /\ \A p \in Pairs : \A s \in ContradictionStatuses \ {"open"} :
                ClosedAs(d, p, s) <=> ClosingTold(d.audit, p, s)
           /\ \A e \in EvidenceIds :
                Arrived(d, e) <=> ArrivalTold(d.audit, e)
<1>1. \A p, s : (ClosedAs(d, p, s) = ClosingTold(d.audit, p, s))
                    <=> (ClosedAs(d, p, s) <=> ClosingTold(d.audit, p, s))
  BY DEF ClosedAs, ClosingTold
<1>2. \A e : (Arrived(d, e) = ArrivalTold(d.audit, e))
                 <=> (Arrived(d, e) <=> ArrivalTold(d.audit, e))
  BY DEF Arrived, ArrivalTold
<1>3. AuditOK(d) <=>
        /\ \A c \in ClaimIds : d.history[c] = RowsTold(d.audit, c)
        /\ \A p \in Pairs : \A s \in ContradictionStatuses \ {"open"} :
             ClosedAs(d, p, s) = ClosingTold(d.audit, p, s)
        /\ \A e \in EvidenceIds :
             (e \in StoredEvidence(d)) = ArrivalTold(d.audit, e)
  BY DEF AuditOK, RowsTold, ClosedAs, ClosingTold, ArrivalTold
<1>4. \A e \in EvidenceIds : (e \in StoredEvidence(d)) = Arrived(d, e)
  BY DEF StoredEvidence, Arrived
<1> QED
  BY <1>1, <1>2, <1>3, <1>4

\* More events tell the rows both sets of events tell.
LEMMA RowsTogether ==
  ASSUME NEW old, NEW more, NEW all, all = old \union more, NEW c
  PROVE  RowsTold(all, c) = RowsTold(old, c) \union RowsTold(more, c)
  BY DEF RowsTold

\* They tell the closings and the arrivals either of the sets tells.
LEMMA TogetherTold ==
  ASSUME NEW old, NEW more, NEW all, all = old \union more,
         NEW p, NEW s, NEW e
  PROVE  /\ ClosingTold(all, p, s)
              <=> ClosingTold(old, p, s) \/ ClosingTold(more, p, s)
         /\ ArrivalTold(all, e) <=> ArrivalTold(old, e) \/ ArrivalTold(more, e)
  BY DEF ClosingTold, ArrivalTold

\* If they tell nothing of closings and arrivals, nothing new is told of them.
LEMMA NothingMoreTold ==
  ASSUME NEW old, NEW more, NEW all, all = old \union more,
         \A v \in more : v.action \notin {"contradiction.resolved",
                                          "evidence.ingested"},
         NEW p, NEW s, NEW e
  PROVE  /\ ClosingTold(all, p, s) <=> ClosingTold(old, p, s)
         /\ ArrivalTold(all, e) <=> ArrivalTold(old, e)
  BY DEF ClosingTold, ArrivalTold

\* Events that tell nothing about the tables leave the account as it is.
LEMMA AuditFrame ==
  ASSUME NEW d, NEW n, NEW more, AuditOK(d),
         n.audit = d.audit \union more, n.history = d.history,
         \A p \in Pairs : \A s \in ContradictionStatuses \ {"open"} :
           ClosedAs(n, p, s) <=> ClosedAs(d, p, s),
         n.evidence = d.evidence,
         \A v \in more : v.action \in {"contradiction.created",
                                       "ingestion.completed"}
  PROVE  AuditOK(n)
<1>1. \A c : RowsTold(more, c) = {}
  BY DEF RowsTold
<1>2. \A c \in ClaimIds : n.history[c] = RowsTold(n.audit, c)
  <2>1. ASSUME NEW c \in ClaimIds
        PROVE  RowsTold(n.audit, c) = RowsTold(d.audit, c)
    <3>1. RowsTold(n.audit, c) = RowsTold(d.audit, c) \union RowsTold(more, c)
      BY RowsTogether
    <3> QED
      BY <1>1, <3>1
  <2> QED
    BY <2>1, AuditTells
<1>3. \A p \in Pairs : \A s \in ContradictionStatuses \ {"open"} :
        ClosedAs(n, p, s) <=> ClosingTold(n.audit, p, s)
  <2>1. \A p, s : ClosingTold(n.audit, p, s) <=> ClosingTold(d.audit, p, s)
    BY NothingMoreTold
  <2> QED
    BY <2>1, AuditTells
<1>4. \A e \in EvidenceIds :
        Arrived(n, e) <=> ArrivalTold(n.audit, e)
  <2>1. \A e : ArrivalTold(n.audit, e) <=> ArrivalTold(d.audit, e)
    BY NothingMoreTold
  <2>2. \A e : Arrived(n, e) <=> Arrived(d, e)
    BY DEF Arrived
  <2> QED
    BY <2>1, <2>2, AuditTells
<1> QED
  BY <1>2, <1>3, <1>4, AuditTells

\* A change of status is told by the event of its row.
LEMMA SetClaimStatusesAudit ==
  ASSUME NEW d, Sound(d), AuditOK(d), NEW target \in Targets(d)
  PROVE  AuditOK(SetClaimStatuses(d, target))
<1> DEFINE n == SetClaimStatuses(d, target)
           more == {Event("claim.status_changed", c, target[c].status,
                          NewRow(d, c, target[c]).at) :
                      c \in Changed(d, target)}
<1>1. /\ n.audit = d.audit \union more
      /\ n.contradictions = d.contradictions /\ n.evidence = d.evidence
      /\ \A c \in ClaimIds \ Changed(d, target) : n.history[c] = d.history[c]
      /\ \A c \in ClaimIds \intersect Changed(d, target) :
           n.history[c] = d.history[c] \union {NewRow(d, c, target[c])}
  BY SetClaimStatusesFields DEF Sound
<1>2. \A v \in more : v.action = "claim.status_changed"
  BY DEF Event
<1>3. \A c \in ClaimIds \ Changed(d, target) : RowsTold(more, c) = {}
  BY DEF RowsTold, Event
<1>4. ASSUME NEW c \in Changed(d, target)
      PROVE  RowsTold(more, c) = {NewRow(d, c, target[c])}
  <2> DEFINE event == Event("claim.status_changed", c, target[c].status,
                            NewRow(d, c, target[c]).at)
  <2>1. /\ event \in more /\ event.resource = c
        /\ event.action = "claim.status_changed"
        /\ [at |-> event.at, status |-> event.outcome] = NewRow(d, c, target[c])
    BY DEF Event, NewRow
  <2>2. \A v \in more : v.resource = c => v = event
    BY DEF Event
  <2> HIDE DEF event, more
  <2> QED
    BY <2>1, <2>2 DEF RowsTold
<1> HIDE DEF n, more
<1>5. \A c \in ClaimIds : n.history[c] = RowsTold(n.audit, c)
  <2>1. \A c \in ClaimIds : d.history[c] = RowsTold(d.audit, c)
    BY AuditTells
  <2>2. \A c \in ClaimIds : RowsTold(n.audit, c)
                 = RowsTold(d.audit, c) \union RowsTold(more, c)
    BY <1>1, RowsTogether
  <2>3. ASSUME NEW c \in ClaimIds \ Changed(d, target)
        PROVE  n.history[c] = RowsTold(n.audit, c)
    <3>1. n.history[c] = RowsTold(d.audit, c)
      BY <1>1, <2>1
    <3>2. RowsTold(n.audit, c) = RowsTold(d.audit, c) \union RowsTold(more, c)
      BY <2>2
    <3>3. RowsTold(more, c) = {}
      BY <1>3
    <3> QED
      BY <3>1, <3>2, <3>3
  <2>4. \A c \in ClaimIds \intersect Changed(d, target) :
          n.history[c] = RowsTold(n.audit, c)
    BY <1>1, <1>4, <2>1, <2>2
  <2> QED
    BY <2>3, <2>4
<1>6. \A p \in Pairs : \A s \in ContradictionStatuses \ {"open"} :
        ClosedAs(n, p, s) <=> ClosingTold(n.audit, p, s)
  <2>1. \A p, s : ClosingTold(n.audit, p, s) <=> ClosingTold(d.audit, p, s)
    BY <1>1, <1>2, NothingMoreTold
  <2>2. \A p, s : ClosedAs(n, p, s) <=> ClosedAs(d, p, s)
    BY <1>1 DEF ClosedAs, StoredContradictions
  <2> QED
    BY <2>1, <2>2, AuditTells
<1>7. \A e \in EvidenceIds :
        Arrived(n, e) <=> ArrivalTold(n.audit, e)
  <2>1. \A e : ArrivalTold(n.audit, e) <=> ArrivalTold(d.audit, e)
    BY <1>1, <1>2, NothingMoreTold
  <2>2. \A e : Arrived(n, e) <=> Arrived(d, e)
    BY <1>1 DEF Arrived
  <2> QED
    BY <2>1, <2>2, AuditTells
<1> QED
  BY <1>5, <1>6, <1>7, AuditTells DEF n

\* A new claim is told by the event of its first row.
LEMMA AddClaimAudit ==
  ASSUME NEW d, Sound(d), AuditOK(d), NEW c \in ClaimRecords,
         c.id \notin StoredClaims(d)
  PROVE  AuditOK(AddClaim(d, c))
<1> DEFINE n == AddClaim(d, c)
           row == [at |-> c.asserted, status |-> c.status]
           event == Event("claim.created", c.id, c.status, c.asserted)
           more == {event}
<1>1. /\ n.evidence = d.evidence /\ n.contradictions = d.contradictions
      /\ n.audit = d.audit \union more
      /\ n.history[c.id] = {row}
      /\ \A e \in ClaimIds \ {c.id} : n.history[e] = d.history[e]
  BY AddClaimFields DEF Sound
<1>2. d.history[c.id] = {}
  BY DEF StoredClaims, Sound, HistoryOK, ClaimRecords
<1>3. \A v \in more : v.action = "claim.created"
  BY DEF Event
<1>4. RowsTold(more, c.id) = {row}
  <2>1. /\ event.resource = c.id /\ event.action = "claim.created"
        /\ [at |-> event.at, status |-> event.outcome] = row
    BY DEF Event
  <2> HIDE DEF event, row
  <2> QED
    BY <2>1 DEF RowsTold
<1>5. \A e \in ClaimIds \ {c.id} : RowsTold(more, e) = {}
  BY DEF RowsTold, Event
<1> HIDE DEF n, more, row
<1>6. ASSUME NEW e \in ClaimIds
      PROVE  n.history[e] = RowsTold(n.audit, e)
  <2>1. d.history[e] = RowsTold(d.audit, e)
    BY AuditTells
  <2>2. RowsTold(n.audit, e) = RowsTold(d.audit, e) \union RowsTold(more, e)
    BY <1>1, RowsTogether
  <2>3. CASE e = c.id
    <3>1. /\ n.history[e] = {row} /\ RowsTold(d.audit, e) = {}
          /\ RowsTold(more, e) = {row}
      BY <1>1, <1>2, <1>4, <2>1, <2>3
    <3> QED
      BY <2>2, <3>1
  <2>4. CASE e # c.id
    <3>1. n.history[e] = RowsTold(d.audit, e) /\ RowsTold(more, e) = {}
      BY <1>1, <1>5, <2>1, <2>4
    <3> QED
      BY <2>2, <3>1
  <2> QED
    BY <2>3, <2>4
<1>7. \A p \in Pairs : \A s \in ContradictionStatuses \ {"open"} :
        ClosedAs(n, p, s) <=> ClosingTold(n.audit, p, s)
  <2>1. \A p, s : ClosingTold(n.audit, p, s) <=> ClosingTold(d.audit, p, s)
    BY <1>1, <1>3, NothingMoreTold
  <2>2. \A p, s : ClosedAs(n, p, s) <=> ClosedAs(d, p, s)
    BY <1>1 DEF ClosedAs, StoredContradictions
  <2> QED
    BY <2>1, <2>2, AuditTells
<1>8. \A e \in EvidenceIds : Arrived(n, e) <=> ArrivalTold(n.audit, e)
  <2>1. \A e : ArrivalTold(n.audit, e) <=> ArrivalTold(d.audit, e)
    BY <1>1, <1>3, NothingMoreTold
  <2>2. \A e : Arrived(n, e) <=> Arrived(d, e)
    BY <1>1 DEF Arrived
  <2> QED
    BY <2>1, <2>2, AuditTells
<1> QED
  BY <1>6, <1>7, <1>8, AuditTells DEF n

\* New contradictions are open: none of them is told closed.
LEMMA AddContradictionsAudit ==
  ASSUME NEW d, AuditOK(d), ImageOK(d), NEW c, NEW rivals, c.id \notin rivals,
         \A e \in rivals : d.contradictions[{c.id, e}] = Absent
  PROVE  AuditOK(AddContradictions(d, c, rivals))
<1> DEFINE n == AddContradictions(d, c, rivals)
           more == {Event("contradiction.created", {c.id, e}, "open",
                          DetectedAt(c, d.claims[e])) : e \in rivals}
<1>1. /\ n.history = d.history /\ n.evidence = d.evidence
      /\ n.audit = d.audit \union more
      /\ \A p \in Pairs :
           /\ \A e \in rivals : p = {c.id, e} =>
                n.contradictions[p] = Contradiction(d, c, e)
           /\ (\A e \in rivals : p # {c.id, e}) =>
                n.contradictions[p] = d.contradictions[p]
  <2>1. n = AddContradictions(d, c, rivals)
    OBVIOUS
  <2>2. n.audit = d.audit \union more
    BY DEF AddContradictions, ImageOK
  <2> HIDE DEF n
  <2>3. n.history = d.history /\ n.evidence = d.evidence
    BY <2>1, AddContradictionsFields
  <2>4. \A p \in Pairs :
           /\ \A e \in rivals : p = {c.id, e} =>
                n.contradictions[p] = Contradiction(d, c, e)
           /\ (\A e \in rivals : p # {c.id, e}) =>
                n.contradictions[p] = d.contradictions[p]
    BY <2>1, AddContradictionsFields
  <2> QED
    BY <2>2, <2>3, <2>4
<1>2. \A v \in more : v.action = "contradiction.created"
  BY DEF Event
<1> HIDE DEF n, more
<1>3. ASSUME NEW p \in Pairs, NEW s \in ContradictionStatuses \ {"open"}
      PROVE  ClosedAs(n, p, s) <=> ClosedAs(d, p, s)
  <2>1. CASE \E e \in rivals : p = {c.id, e}
    <3>1. PICK e \in rivals : p = {c.id, e}
      BY <2>1
    <3>2. n.contradictions[p].status = "open"
      <4>1. Contradiction(d, c, e).status = "open"
        BY DEF Contradiction
      <4> QED
        BY <1>1, <3>1, <4>1
    <3>3. d.contradictions[p] = Absent
      BY <3>1
    <3> QED
      BY <3>2, <3>3 DEF ClosedAs, StoredContradictions
  <2>2. CASE \A e \in rivals : p # {c.id, e}
    BY <1>1, <2>2 DEF ClosedAs, StoredContradictions
  <2> QED
    BY <2>1, <2>2
<1> QED
  BY <1>1, <1>2, <1>3, AuditFrame DEF n

\* The event of a closing tells how the contradiction was closed.
LEMMA CloseAudit ==
  ASSUME NEW d, AuditOK(d), ImageOK(d), NEW pair \in StoredContradictions(d),
         d.contradictions[pair].status = "open",
         NEW status \in {"resolved", "dismissed"},
         NEW accepted \in ClaimIds \union {NoVerdict}, NEW now
  PROVE  AuditOK(Close(d, pair, status, accepted, now))
<1> DEFINE n == Close(d, pair, status, accepted, now)
           event == Event("contradiction.resolved", pair, status, now)
           more == {event}
<1>1. /\ n.history = d.history /\ n.evidence = d.evidence
      /\ n.audit = d.audit \union more
      /\ \A p \in Pairs \ {pair} : n.contradictions[p] = d.contradictions[p]
      /\ n.contradictions[pair] \in ContradictionRecords
      /\ n.contradictions[pair].status = status
  BY CloseFields DEF ContradictionStatuses
<1>2. pair \in Pairs
  BY DEF StoredContradictions
<1>3. n.contradictions[pair] # Absent
  BY <1>1, LedgerAssumption
<1> HIDE DEF n
<1>4. ASSUME NEW c \in ClaimIds
      PROVE  n.history[c] = RowsTold(n.audit, c)
  <2>1. RowsTold(more, c) = {}
    BY DEF RowsTold, Event
  <2> HIDE DEF more
  <2>2. RowsTold(n.audit, c) = RowsTold(d.audit, c) \union RowsTold(more, c)
    BY <1>1, RowsTogether
  <2>3. n.history[c] = RowsTold(d.audit, c)
    BY <1>1, AuditTells
  <2> QED
    BY <2>1, <2>2, <2>3
<1>5. ASSUME NEW p \in Pairs, NEW s \in ContradictionStatuses \ {"open"}
      PROVE  ClosedAs(n, p, s) <=> ClosingTold(n.audit, p, s)
  <2>1. ClosedAs(d, p, s) <=> ClosingTold(d.audit, p, s)
    BY AuditTells
  <2>2. ClosingTold(n.audit, p, s)
          <=> ClosingTold(d.audit, p, s) \/ (p = pair /\ s = status)
    <3>1. /\ event.resource = pair /\ event.outcome = status
          /\ event.action = "contradiction.resolved"
      BY DEF Event
    <3> HIDE DEF event
    <3>2. ClosingTold(more, p, s) <=> (p = pair /\ s = status)
      BY <3>1 DEF ClosingTold
    <3> HIDE DEF more
    <3> QED
      BY <1>1, <3>2, TogetherTold
  <2>3. CASE p = pair
    <3>1. ClosedAs(n, p, s) <=> s = status
      BY <1>1, <1>2, <1>3, <2>3 DEF ClosedAs, StoredContradictions
    <3>2. ~ClosedAs(d, p, s)
      BY <2>3 DEF ClosedAs
    <3> QED
      BY <2>1, <2>2, <2>3, <3>1, <3>2
  <2>4. CASE p # pair
    <3>1. ClosedAs(n, p, s) <=> ClosedAs(d, p, s)
      BY <1>1, <2>4 DEF ClosedAs, StoredContradictions
    <3> QED
      BY <2>1, <2>2, <2>4, <3>1
  <2> QED
    BY <2>3, <2>4
<1>6. ASSUME NEW e \in EvidenceIds
      PROVE  Arrived(n, e) <=> ArrivalTold(n.audit, e)
  <2>1. ArrivalTold(n.audit, e) <=> ArrivalTold(d.audit, e)
    BY <1>1 DEF ArrivalTold, Event
  <2>2. Arrived(n, e) <=> Arrived(d, e)
    BY <1>1 DEF Arrived
  <2> QED
    BY <2>1, <2>2, AuditTells
<1> QED
  BY <1>4, <1>5, <1>6, AuditTells DEF n

\* Evidence is told by the event of its arrival.
LEMMA AddEvidenceAudit ==
  ASSUME NEW d, AuditOK(d), ImageOK(d), NEW document \in EvidenceRecords,
         NEW now \in Nat
  PROVE  AuditOK(AddEvidence(d, document, now))
<1> DEFINE n == AddEvidence(d, document, now)
           k == document.id
           ingested == IF TrustClientTimestamps THEN document.ingested ELSE now
           more == {Event("evidence.ingested", k, "new", ingested)}
<1>1. CASE d.evidence[k] # Absent
  BY <1>1 DEF AddEvidence
<1>2. CASE d.evidence[k] = Absent
  <2>1. /\ n.history = d.history /\ n.contradictions = d.contradictions
        /\ n.audit = d.audit \union more
        /\ n.evidence[k] # Absent
        /\ \A e \in EvidenceIds \ {k} : n.evidence[e] = d.evidence[e]
    BY <1>2, AddEvidenceFields, LedgerAssumption
  <2> HIDE DEF n
  <2>2. ASSUME NEW c \in ClaimIds
        PROVE  n.history[c] = RowsTold(n.audit, c)
    <3>1. RowsTold(more, c) = {}
      BY DEF RowsTold, Event
    <3> HIDE DEF more
    <3>2. RowsTold(n.audit, c) = RowsTold(d.audit, c) \union RowsTold(more, c)
      BY <2>1, RowsTogether
    <3>3. n.history[c] = RowsTold(d.audit, c)
      BY <2>1, AuditTells
    <3> QED
      BY <3>1, <3>2, <3>3
  <2>3. ASSUME NEW p \in Pairs, NEW s \in ContradictionStatuses \ {"open"}
        PROVE  ClosedAs(n, p, s) <=> ClosingTold(n.audit, p, s)
    <3>1. ClosingTold(n.audit, p, s) <=> ClosingTold(d.audit, p, s)
      BY <2>1 DEF ClosingTold, Event
    <3>2. ClosedAs(n, p, s) <=> ClosedAs(d, p, s)
      BY <2>1 DEF ClosedAs, StoredContradictions
    <3> QED
      BY <3>1, <3>2, AuditTells
  <2>4. ASSUME NEW e \in EvidenceIds
        PROVE  Arrived(n, e) <=> ArrivalTold(n.audit, e)
    <3>1. ArrivalTold(n.audit, e) <=> ArrivalTold(d.audit, e) \/ e = k
      <4> DEFINE event == Event("evidence.ingested", k, "new", ingested)
      <4>1. event.resource = k /\ event.action = "evidence.ingested"
        BY DEF Event
      <4> HIDE DEF event
      <4>2. ArrivalTold({event}, e) <=> e = k
        BY <4>1 DEF ArrivalTold
      <4>3. n.audit = d.audit \union {event}
        BY <2>1 DEF event
      <4> QED
        BY <4>2, <4>3, TogetherTold
    <3>2. Arrived(n, e) <=> Arrived(d, e) \/ e = k
      BY <2>1 DEF Arrived
    <3> QED
      BY <3>1, <3>2, AuditTells
  <2> QED
    BY <2>2, <2>3, <2>4, AuditTells DEF n
<1> QED
  BY <1>1, <1>2

-----------------------------------------------------------------------------
(* What record makes of an image.                                          *)

\* The status every claim has after set_claim_status, and whose history stays.
LEMMA SetClaimStatusesOutcome ==
  ASSUME NEW d, ImageOK(d), NEW target,
         NEW n, n = SetClaimStatuses(d, target), NEW c \in ClaimIds
  PROVE  /\ n.status[c] = IF c \in DOMAIN target THEN target[c].status
                          ELSE d.status[c]
         /\ n.status[c] = d.status[c] => n.history[c] = d.history[c]
<1>1. CASE c \in Changed(d, target)
  <2>1. n.status[c] = target[c].status
    BY <1>1, SetClaimStatusesFields
  <2>2. c \in DOMAIN target /\ d.status[c] # target[c].status
    BY <1>1 DEF Changed
  <2> QED
    BY <2>1, <2>2
<1>2. CASE c \notin Changed(d, target)
  <2>1. n.status[c] = d.status[c] /\ n.history[c] = d.history[c]
    BY <1>2, SetClaimStatusesFields
  <2>2. c \in DOMAIN target => d.status[c] = target[c].status
    BY <1>2 DEF Changed
  <2> QED
    BY <2>1, <2>2
<1> QED
  BY <1>1, <1>2

\* Which claims change their status because of a new one, and how.
LEMMA ConsequencesOutcome ==
  ASSUME NEW d, NEW c, NEW rivals,
         NEW target, target = Consequences(d, c, rivals)
  PROVE  /\ \A k : k \in DOMAIN target <=>
              \/ k = c.supersedes /\ c.supersedes # NoClaim
              \/ k \in rivals /\ d.status[k] = "active"
              \/ /\ k = c.id /\ c.supersedes = NoClaim
                 /\ rivals # {} /\ c.status = "active"
         /\ \A k \in DOMAIN target :
              target[k].status =
                IF k = c.supersedes /\ c.supersedes # NoClaim
                THEN "superseded" ELSE "disputed"
<1>1. CASE c.supersedes = NoClaim
  BY <1>1 DEF Consequences
<1>2. CASE c.supersedes # NoClaim
  BY <1>2 DEF Consequences
<1> QED
  BY <1>1, <1>2

\* What record does to the image d when it stores c, whose contradictions with
\* rivals are new: n is the image after.
Recorded(d, c, rivals, n) ==
  /\ c \in ClaimRecords /\ c.id \in ClaimIds \ StoredClaims(d)
  /\ SupersedesSoundly(d, c)
  /\ n.evidence = d.evidence
  /\ StoredClaims(n) = StoredClaims(d) \union {c.id}
  /\ n.claims[c.id] = c
  /\ \A e \in StoredClaims(d) : n.claims[e] = d.claims[e]
  /\ \A e \in rivals :
       /\ e \in StoredClaims(d)
       /\ {c.id, e} \in Pairs
       /\ d.contradictions[{c.id, e}] = Absent
       /\ {c.id, e} \in StoredContradictions(n)
       /\ n.contradictions[{c.id, e}].status = "open"
  /\ \A p \in Pairs : (\A e \in rivals : p # {c.id, e}) =>
       n.contradictions[p] = d.contradictions[p]
  /\ \A e \in StoredClaims(d) :
       /\ n.status[e] =
            IF e = c.supersedes THEN "superseded"
            ELSE IF e \in rivals /\ d.status[e] = "active"
                 THEN "disputed" ELSE d.status[e]
       /\ n.status[e] = d.status[e] => n.history[e] = d.history[e]
       /\ d.history[e] \subseteq n.history[e]
  /\ n.status[c.id] =
       IF c.supersedes = NoClaim /\ rivals # {} /\ c.status = "active"
       THEN "disputed" ELSE c.status
  /\ [at |-> c.asserted, status |-> c.status] \in n.history[c.id]
  /\ n.status[c.id] = c.status =>
       n.history[c.id] = {[at |-> c.asserted, status |-> c.status]}

\* What record leaves alone, and what becomes of the rest, for a claim that is
\* not stored already.
LEMMA RecordClaimFields ==
  ASSUME NEW d, Sound(d), NEW submitted \in ClaimRecords, NEW now \in Nat,
         AcceptsClaim(d, submitted, now), ~AlreadyStored(d, submitted),
         NEW c, NEW rivals, NEW n
  PROVE  /\ c = Stamped(submitted, now)
         /\ rivals = NewRivals(d, c)
         /\ n = RecordClaim(d, submitted, now)
         => Recorded(d, c, rivals, n)
<1>0. HAVE /\ c = Stamped(submitted, now)
           /\ rivals = NewRivals(d, c)
           /\ n = RecordClaim(d, submitted, now)
<1> DEFINE target == Consequences(d, c, rivals)
           added == AddClaim(d, c)
           noted == Noted(d, c)
           row == [at |-> c.asserted, status |-> c.status]
<1>1. /\ c \in ClaimRecords /\ c.id \in ClaimIds \ StoredClaims(d)
      /\ SupersedesSoundly(d, c)
      /\ Sound(added)
      /\ StoredClaims(added) = StoredClaims(d) \union {c.id}
      /\ added.claims[c.id] = c
      /\ added.contradictions = d.contradictions
      /\ \A e \in StoredClaims(d) :
           added.claims[e] = d.claims[e] /\ added.status[e] = d.status[e]
      /\ Sound(noted)
      /\ Sound(n) /\ Follows(noted, n)
      /\ n = SetClaimStatuses(noted, target)
  BY <1>0, RecordClaimImages DEF Marked
<1>2. \A e \in rivals :
         /\ e \in StoredClaims(d)
         /\ Detect(c, c.status, d.claims[e], d.status[e]) # Agreement
         /\ d.contradictions[{c.id, e}] = Absent
  BY <1>0 DEF NewRivals, Rivals
<1>3. /\ added.evidence = d.evidence
      /\ added.status[c.id] = c.status /\ added.history[c.id] = {row}
      /\ \A e \in ClaimIds \ {c.id} : added.history[e] = d.history[e]
  <2>1. added = AddClaim(d, c)
    OBVIOUS
  <2> HIDE DEF added
  <2> QED
    BY <1>1, <2>1, AddClaimFields DEF Sound
<1>4. /\ noted.claims = added.claims /\ noted.status = added.status
      /\ noted.history = added.history /\ noted.evidence = added.evidence
      /\ \A p \in Pairs :
           /\ \A e \in rivals : p = {c.id, e} =>
                noted.contradictions[p] = Contradiction(added, c, e)
           /\ (\A e \in rivals : p # {c.id, e}) =>
                noted.contradictions[p] = added.contradictions[p]
  <2>1. noted = AddContradictions(added, c, rivals)
    BY <1>0 DEF Noted
  <2> HIDE DEF added, noted
  <2>2. c.id \notin rivals
    BY <1>1, <1>2
  <2> QED
    BY <1>1, <2>1, <2>2, AddContradictionsFields DEF Sound
<1> HIDE DEF added, noted
<1>5. /\ n.claims = noted.claims /\ n.evidence = noted.evidence
      /\ n.contradictions = noted.contradictions
  BY <1>1, SetClaimStatusesFields DEF Sound
<1>6. \A e \in ClaimIds :
        /\ n.status[e] = IF e \in DOMAIN target THEN target[e].status
                         ELSE noted.status[e]
        /\ n.status[e] = noted.status[e] => n.history[e] = noted.history[e]
  BY <1>1, SetClaimStatusesOutcome DEF Sound
<1>7. /\ \A k : k \in DOMAIN target <=>
           \/ k = c.supersedes /\ c.supersedes # NoClaim
           \/ k \in rivals /\ d.status[k] = "active"
           \/ /\ k = c.id /\ c.supersedes = NoClaim
              /\ rivals # {} /\ c.status = "active"
      /\ \A k \in DOMAIN target :
           target[k].status =
             IF k = c.supersedes /\ c.supersedes # NoClaim
             THEN "superseded" ELSE "disputed"
  BY ConsequencesOutcome
<1> HIDE DEF target
<1>8. StoredClaims(n) = StoredClaims(d) \union {c.id}
  BY <1>1, <1>4, <1>5 DEF StoredClaims
<1>9. /\ n.claims[c.id] = c
      /\ \A e \in StoredClaims(d) : n.claims[e] = d.claims[e]
      /\ n.evidence = d.evidence
  BY <1>1, <1>3, <1>4, <1>5
<1>10. ASSUME NEW e \in rivals
      PROVE  /\ {c.id, e} \in Pairs
             /\ {c.id, e} \in StoredContradictions(n)
             /\ n.contradictions[{c.id, e}].status = "open"
  <2>1. e \in ClaimIds /\ e # c.id
    BY <1>1, <1>2 DEF StoredClaims
  <2>2. {c.id, e} \in Pairs
    BY <1>1, <2>1, PairOf
  <2>3. n.contradictions[{c.id, e}] = Contradiction(added, c, e)
    BY <1>4, <1>5, <2>2
  <2>4. Contradiction(added, c, e).status = "open"
    BY DEF Contradiction
  <2>5. Contradiction(added, c, e) # Absent
    <3>1. d.claims[e] \in ClaimRecords /\ added.claims[e] = d.claims[e]
          /\ Detect(c, c.status, added.claims[e], added.status[e]) # Agreement
      <4>1. d.claims \in [ClaimIds -> ClaimRecords \union {Absent}]
        BY ImageFields DEF Sound
      <4> QED
        BY <1>1, <1>2, <4>1 DEF StoredClaims
    <3>2. Contradiction(added, c, e) \in ContradictionRecords
      BY <1>1, <3>1, ContradictionType
    <3> QED
      BY <3>2, LedgerAssumption
  <2> QED
    BY <2>2, <2>3, <2>4, <2>5 DEF StoredContradictions
<1>11. \A p \in Pairs : (\A e \in rivals : p # {c.id, e}) =>
         n.contradictions[p] = d.contradictions[p]
  BY <1>1, <1>4, <1>5
<1>12. ASSUME NEW e \in StoredClaims(d)
       PROVE  /\ n.status[e] =
                   IF e = c.supersedes THEN "superseded"
                   ELSE IF e \in rivals /\ d.status[e] = "active"
                        THEN "disputed" ELSE d.status[e]
              /\ n.status[e] = d.status[e] => n.history[e] = d.history[e]
              /\ d.history[e] \subseteq n.history[e]
  <2>1. e \in ClaimIds /\ e # c.id /\ e # NoClaim
    BY <1>1, LedgerAssumption DEF StoredClaims
  <2>2. noted.status[e] = d.status[e] /\ noted.history[e] = d.history[e]
    BY <1>1, <1>3, <1>4, <2>1
  <2>3. noted.history[e] \subseteq n.history[e]
    <3>1. e \in StoredClaims(noted)
      BY <1>1, <1>4 DEF StoredClaims
    <3> QED
      BY <1>1, <3>1 DEF Follows
  <2> QED
    BY <1>6, <1>7, <2>1, <2>2, <2>3
<1>13. n.status[c.id] =
         IF c.supersedes = NoClaim /\ rivals # {} /\ c.status = "active"
         THEN "disputed" ELSE c.status
  <2>1. c.id \notin rivals
    BY <1>1, <1>2
  <2>2. c.supersedes # NoClaim => c.id # c.supersedes
    BY <1>1 DEF SupersedesSoundly
  <2>3. noted.status[c.id] = c.status
    BY <1>3, <1>4
  <2> QED
    BY <1>1, <1>6, <1>7, <2>1, <2>2, <2>3
<1>14. noted.history[c.id] = {row} /\ noted.status[c.id] = c.status
  BY <1>3, <1>4
<1>15. row \in n.history[c.id]
  <2>1. c.id \in StoredClaims(noted)
    BY <1>1, <1>4 DEF StoredClaims
  <2> QED
    BY <1>1, <1>14, <2>1 DEF Follows
<1>16. n.status[c.id] = c.status => n.history[c.id] = {row}
  BY <1>1, <1>6, <1>14
<1> QED
  BY <1>1, <1>2, <1>8, <1>9, <1>10, <1>11, <1>12, <1>13, <1>15, <1>16
     DEF Recorded

\* What a verdict leaves alone, and what becomes of the rest.
LEMMA VerdictFields ==
  ASSUME NEW d, Sound(d), NEW pair \in StoredContradictions(d),
         d.contradictions[pair].status = "open",
         NEW accepted \in pair, NEW now \in Nat,
         NEW m, m = SetClaimStatuses(d, Verdict(pair, accepted, now)),
         NEW n, n = Close(m, pair, "resolved", accepted, now)
  PROVE  /\ Verdict(pair, accepted, now) \in Targets(d)
         /\ Sound(m) /\ Sound(n) /\ Follows(d, n)
         /\ pair \in StoredContradictions(m)
         /\ m.contradictions[pair].status = "open"
         /\ n.claims = d.claims /\ n.evidence = d.evidence
         /\ \A p \in Pairs \ {pair} : n.contradictions[p] = d.contradictions[p]
         /\ pair \in StoredContradictions(n)
         /\ n.contradictions[pair].status = "resolved"
         /\ n.contradictions[pair].accepted = accepted
         /\ \A c \in ClaimIds :
              /\ n.status[c] = IF c \notin pair THEN d.status[c]
                               ELSE IF c = accepted THEN "active"
                               ELSE "superseded"
              /\ n.status[c] = d.status[c] => n.history[c] = d.history[c]
<1> DEFINE target == Verdict(pair, accepted, now)
<1>1. /\ pair \in Pairs /\ pair \subseteq ClaimIds
      /\ pair \subseteq StoredClaims(d) /\ accepted \in ClaimIds
  BY PairMembers DEF Sound, ContradictionsOK, StoredContradictions
<1>2. target \in [pair -> [status : ClaimStatuses, at : Nat]]
  BY DEF Verdict, ClaimStatuses
<1>3. /\ DOMAIN target = pair
      /\ \A c \in pair : target[c].status =
           IF c = accepted THEN "active" ELSE "superseded"
  BY DEF Verdict
<1>4. target \in Targets(d)
  BY <1>1, <1>2 DEF Targets
<1> HIDE DEF target
<1>5. Sound(m) /\ Follows(d, m)
  BY <1>4, SetClaimStatusesSound DEF target
<1>6. /\ m.claims = d.claims /\ m.evidence = d.evidence
      /\ m.contradictions = d.contradictions
  BY SetClaimStatusesFields DEF Sound
<1>7. /\ pair \in StoredContradictions(m)
      /\ m.contradictions[pair].status = "open"
  BY <1>6 DEF StoredContradictions
<1>8. Sound(n) /\ Follows(m, n)
  BY <1>5, <1>7, CloseSound
<1>9. Follows(d, n)
  BY <1>5, <1>8, FollowsTransitive
<1>10. /\ n.claims = m.claims /\ n.status = m.status
       /\ n.history = m.history /\ n.evidence = m.evidence
       /\ \A p \in Pairs \ {pair} : n.contradictions[p] = m.contradictions[p]
       /\ n.contradictions[pair] \in ContradictionRecords
       /\ n.contradictions[pair].status = "resolved"
       /\ n.contradictions[pair].accepted = accepted
  BY <1>1, <1>5, <1>7, CloseFields DEF Sound, ContradictionStatuses
<1>11. pair \in StoredContradictions(n)
  BY <1>1, <1>10, LedgerAssumption DEF StoredContradictions
<1>12. \A c \in ClaimIds :
         /\ m.status[c] = IF c \in pair THEN target[c].status ELSE d.status[c]
         /\ m.status[c] = d.status[c] => m.history[c] = d.history[c]
  BY <1>3, SetClaimStatusesOutcome DEF Sound, target
<1>13. \A c \in ClaimIds :
         /\ n.status[c] = IF c \notin pair THEN d.status[c]
                          ELSE IF c = accepted THEN "active" ELSE "superseded"
         /\ n.status[c] = d.status[c] => n.history[c] = d.history[c]
  BY <1>3, <1>10, <1>12
<1> QED
  BY <1>4, <1>5, <1>6, <1>7, <1>8, <1>9, <1>10, <1>11, <1>13 DEF target

-----------------------------------------------------------------------------
(* Every change has its event.                                             *)

\* record keeps the account.
LEMMA RecordClaimAudit ==
  ASSUME NEW d, Sound(d), AuditOK(d), NEW submitted \in ClaimRecords,
         NEW now \in Nat, AcceptsClaim(d, submitted, now)
  PROVE  AuditOK(RecordClaim(d, submitted, now))
<1> DEFINE c == Stamped(submitted, now)
           rivals == NewRivals(d, c)
<1>1. CASE AlreadyStored(d, submitted)
  BY <1>1 DEF RecordClaim
<1>2. CASE ~AlreadyStored(d, submitted)
  <2>1. /\ c \in ClaimRecords /\ c.id \in ClaimIds \ StoredClaims(d)
        /\ Sound(AddClaim(d, c)) /\ Sound(Noted(d, c))
        /\ AddClaim(d, c).contradictions = d.contradictions
        /\ Consequences(d, c, rivals) \in Targets(Noted(d, c))
        /\ RecordClaim(d, submitted, now) = Marked(d, c)
    BY <1>2, RecordClaimImages
  <2> HIDE DEF c
  <2>2. /\ c.id \notin rivals
        /\ \A e \in rivals : AddClaim(d, c).contradictions[{c.id, e}] = Absent
    BY <2>1 DEF NewRivals, Rivals
  <2> HIDE DEF rivals
  <2>3. AuditOK(AddClaim(d, c))
    BY <2>1, AddClaimAudit
  <2>4. AuditOK(AddContradictions(AddClaim(d, c), c, rivals))
    BY <2>1, <2>2, <2>3, AddContradictionsAudit DEF Sound
  <2>5. AuditOK(Noted(d, c))
    BY <2>4 DEF Noted, rivals
  <2>6. AuditOK(SetClaimStatuses(Noted(d, c), Consequences(d, c, rivals)))
    BY <2>1, <2>5, SetClaimStatusesAudit
  <2> QED
    BY <2>1, <2>6 DEF Marked, rivals
<1> QED
  BY <1>1, <1>2

-----------------------------------------------------------------------------
(* Claims that disagree have their contradiction.                          *)

\* More history and more contradictions leave no conflict unrecorded.
LEMMA ConflictsFrame ==
  ASSUME NEW d, NEW n, ConflictsRecordedOK(d), n.claims = d.claims,
         \A c \in StoredClaims(d) : d.history[c] \subseteq n.history[c],
         StoredContradictions(d) \subseteq StoredContradictions(n)
  PROVE  ConflictsRecordedOK(n)
<1>1. StoredClaims(n) = StoredClaims(d)
  BY DEF StoredClaims
<1>2. \A c \in StoredClaims(d) : AlwaysLive(n, c) => AlwaysLive(d, c)
  BY DEF AlwaysLive
<1> QED
  BY <1>1, <1>2 DEF ConflictsRecordedOK

\* A claim that has always been live is live.
LEMMA LiveNow ==
  ASSUME NEW d, Sound(d), NEW c \in StoredClaims(d), AlwaysLive(d, c)
  PROVE  d.status[c] \in {"active", "disputed"}
<1>1. c \in ClaimIds /\ d.claims[c] # Absent
  BY DEF StoredClaims
<1>2. PICK r \in d.history[c] : r.status = d.status[c]
  BY <1>1 DEF Sound, HistoryOK
<1> QED
  BY <1>2 DEF AlwaysLive

\* record asks every claim that is still live.
LEMMA RecordClaimConflicts ==
  ASSUME NEW d, Sound(d), ConflictsRecordedOK(d), NEW submitted \in ClaimRecords,
         NEW now \in Nat, AcceptsClaim(d, submitted, now),
         ~AlreadyStored(d, submitted)
  PROVE  ConflictsRecordedOK(RecordClaim(d, submitted, now))
<1> DEFINE c == Stamped(submitted, now)
           rivals == NewRivals(d, c)
           n == RecordClaim(d, submitted, now)
<1>0. Recorded(d, c, rivals, n)
  BY RecordClaimFields
<1>2. \A e \in StoredClaims(d) :
        /\ d.status[e] \notin {"superseded", "retracted"}
        /\ Detect(c, c.status, d.claims[e], d.status[e]) # Agreement
        /\ d.contradictions[{c.id, e}] = Absent
        => e \in rivals
  BY DEF NewRivals, Rivals
<1> HIDE DEF n, rivals, c
<1>1. /\ c \in ClaimRecords /\ c.id \in ClaimIds \ StoredClaims(d)
      /\ StoredClaims(n) = StoredClaims(d) \union {c.id}
      /\ n.claims[c.id] = c
      /\ \A e \in StoredClaims(d) : n.claims[e] = d.claims[e]
      /\ \A e \in rivals :
           /\ e \in StoredClaims(d)
           /\ {c.id, e} \in Pairs
           /\ d.contradictions[{c.id, e}] = Absent
           /\ {c.id, e} \in StoredContradictions(n)
      /\ \A p \in Pairs : (\A e \in rivals : p # {c.id, e}) =>
           n.contradictions[p] = d.contradictions[p]
      /\ \A e \in StoredClaims(d) : d.history[e] \subseteq n.history[e]
      /\ [at |-> c.asserted, status |-> c.status] \in n.history[c.id]
  BY <1>0 DEF Recorded
<1>3. StoredContradictions(d) \subseteq StoredContradictions(n)
  BY <1>1 DEF StoredContradictions
<1>4. ASSUME NEW e \in StoredClaims(d), AlwaysLive(n, e), AlwaysLive(n, c.id),
             Detect(c, "active", d.claims[e], "active") # Agreement
      PROVE  {c.id, e} \in StoredContradictions(n)
  <2>1. AlwaysLive(d, e)
    BY <1>1, <1>4 DEF AlwaysLive
  <2>2. d.status[e] \in {"active", "disputed"}
    BY <2>1, LiveNow
  <2>3. c.status \in {"active", "disputed"}
    BY <1>1, <1>4 DEF AlwaysLive
  <2>4. Detect(c, c.status, d.claims[e], d.status[e]) # Agreement
    BY <1>4, <2>2, <2>3 DEF Detect, Comparable
  <2>5. CASE d.contradictions[{c.id, e}] = Absent
    BY <1>1, <1>2, <2>2, <2>4, <2>5
  <2>6. CASE d.contradictions[{c.id, e}] # Absent
    <3>1. {c.id, e} \in Pairs
      BY <1>1, PairOf DEF StoredClaims
    <3> QED
      BY <1>3, <2>6, <3>1 DEF StoredContradictions
  <2> QED
    BY <2>5, <2>6
<1>5. ASSUME NEW k \in StoredClaims(n), NEW e \in StoredClaims(n),
             AlwaysLive(n, k), AlwaysLive(n, e),
             Detect(n.claims[k], "active", n.claims[e], "active") # Agreement
      PROVE  {k, e} \in StoredContradictions(n)
  <2>1. CASE k \in StoredClaims(d) /\ e \in StoredClaims(d)
    <3>1. AlwaysLive(d, k) /\ AlwaysLive(d, e)
      BY <1>1, <1>5, <2>1 DEF AlwaysLive
    <3>2. {k, e} \in StoredContradictions(d)
      BY <1>1, <1>5, <2>1, <3>1 DEF ConflictsRecordedOK
    <3> QED
      BY <1>3, <3>2
  <2>2. CASE k = c.id /\ e \in StoredClaims(d)
    BY <1>1, <1>4, <1>5, <2>2
  <2>3. CASE k \in StoredClaims(d) /\ e = c.id
    <3>1. d.claims[k] \in ClaimRecords
      BY <2>3, ImageFields DEF Sound, StoredClaims
    <3>2. Detect(c, "active", d.claims[k], "active") # Agreement
      BY <1>1, <1>5, <2>3, <3>1, DetectSymmetric
    <3>3. {c.id, k} \in StoredContradictions(n)
      BY <1>4, <1>5, <2>3, <3>2
    <3>4. {k, e} = {c.id, k}
      BY <2>3
    <3> QED
      BY <3>3, <3>4
  <2>4. CASE k = c.id /\ e = c.id
    BY <1>1, <1>5, <2>4, DetectAnswers
  <2> QED
    BY <1>1, <2>1, <2>2, <2>3, <2>4
<1> QED
  BY <1>5 DEF ConflictsRecordedOK, n

-----------------------------------------------------------------------------
(* Every status has its reason.                                            *)

\* The reason for the present status of one claim.
Justified(d, c) ==
  /\ d.status[c] = "disputed" => \E p \in Pairs : c \in p /\ Unresolved(d, p)
  /\ d.status[c] = "active" =>
       \/ \A r \in d.history[c] : r.status = "active"
       \/ \E p \in StoredContradictions(d) : d.contradictions[p].accepted = c
  /\ d.status[c] = "superseded" =>
       \/ \E p \in StoredContradictions(d) :
            /\ c \in p
            /\ d.contradictions[p].status = "resolved"
            /\ d.contradictions[p].accepted # c
       \/ \E e \in StoredClaims(d) : d.claims[e].supersedes = c

\* The reason for a status that stays is still there in an image that keeps what
\* is closed, and does not resolve a contradiction of the claim.
LEMMA ReasonStays ==
  ASSUME NEW d, NEW n, Sound(d), NEW c \in ClaimIds, Justified(d, c),
         n.status[c] = d.status[c], n.history[c] = d.history[c],
         \A e \in StoredClaims(d) :
           e \in StoredClaims(n) /\ n.claims[e] = d.claims[e],
         \A p \in StoredContradictions(d) :
           /\ p \in StoredContradictions(n)
           /\ d.contradictions[p].status = "resolved" =>
                n.contradictions[p] = d.contradictions[p]
           /\ c \in p /\ d.contradictions[p].status # "resolved" =>
                n.contradictions[p].status # "resolved"
  PROVE  Justified(n, c)
<1>1. d.status[c] = "disputed" => \E p \in Pairs : c \in p /\ Unresolved(n, p)
  <2> SUFFICES ASSUME d.status[c] = "disputed"
               PROVE  \E p \in Pairs : c \in p /\ Unresolved(n, p)
    OBVIOUS
  <2>1. PICK p \in Pairs : c \in p /\ Unresolved(d, p)
    BY DEF Justified
  <2>2. Unresolved(n, p)
    BY <2>1 DEF Unresolved
  <2> QED
    BY <2>1, <2>2
<1>2. ASSUME NEW p \in StoredContradictions(d),
             d.contradictions[p].accepted = c
      PROVE  /\ p \in StoredContradictions(n)
             /\ n.contradictions[p].accepted = c
  <2>1. c # NoVerdict
    BY LedgerAssumption
  <2>2. d.contradictions[p].status = "resolved"
    BY <1>2, <2>1 DEF Sound, ContradictionsOK
  <2> QED
    BY <1>2, <2>2
<1>3. d.status[c] = "active" =>
        \/ \A r \in n.history[c] : r.status = "active"
        \/ \E p \in StoredContradictions(n) : n.contradictions[p].accepted = c
  BY <1>2 DEF Justified
<1>4. d.status[c] = "superseded" =>
        \/ \E p \in StoredContradictions(n) :
             /\ c \in p
             /\ n.contradictions[p].status = "resolved"
             /\ n.contradictions[p].accepted # c
        \/ \E e \in StoredClaims(n) : n.claims[e].supersedes = c
  BY DEF Justified
<1> QED
  BY <1>1, <1>3, <1>4 DEF Justified

\* record gives a reason for every status it changes.
LEMMA RecordClaimJustified ==
  ASSUME NEW d, Sound(d), JustifiedOK(d), NEW submitted \in ClaimRecords,
         NEW now \in Nat, AcceptsClaim(d, submitted, now),
         ~AlreadyStored(d, submitted),
         Stamped(submitted, now).status = "active"
  PROVE  JustifiedOK(RecordClaim(d, submitted, now))
<1> DEFINE c == Stamped(submitted, now)
           rivals == NewRivals(d, c)
           n == RecordClaim(d, submitted, now)
<1>0. Recorded(d, c, rivals, n)
  BY RecordClaimFields
<1>3. c.status = "active"
  OBVIOUS
<1> HIDE DEF n, rivals, c
<1>1. /\ c \in ClaimRecords /\ c.id \in ClaimIds \ StoredClaims(d)
      /\ SupersedesSoundly(d, c)
      /\ StoredClaims(n) = StoredClaims(d) \union {c.id}
      /\ n.claims[c.id] = c
      /\ \A e \in StoredClaims(d) : n.claims[e] = d.claims[e]
      /\ \A e \in rivals :
           /\ e \in StoredClaims(d)
           /\ {c.id, e} \in Pairs
           /\ d.contradictions[{c.id, e}] = Absent
           /\ {c.id, e} \in StoredContradictions(n)
           /\ n.contradictions[{c.id, e}].status = "open"
      /\ \A p \in Pairs : (\A e \in rivals : p # {c.id, e}) =>
           n.contradictions[p] = d.contradictions[p]
  BY <1>0 DEF Recorded
<1>2. /\ \A e \in StoredClaims(d) :
           /\ n.status[e] =
                IF e = c.supersedes THEN "superseded"
                ELSE IF e \in rivals /\ d.status[e] = "active"
                     THEN "disputed" ELSE d.status[e]
           /\ n.status[e] = d.status[e] => n.history[e] = d.history[e]
      /\ n.status[c.id] =
           IF c.supersedes = NoClaim /\ rivals # {} /\ c.status = "active"
           THEN "disputed" ELSE c.status
      /\ n.status[c.id] = c.status =>
           n.history[c.id] = {[at |-> c.asserted, status |-> c.status]}
  BY <1>0 DEF Recorded
<1>4. ASSUME NEW p \in StoredContradictions(d)
      PROVE  /\ p \in StoredContradictions(n)
             /\ n.contradictions[p] = d.contradictions[p]
  <2>1. p \in Pairs /\ d.contradictions[p] # Absent
    BY DEF StoredContradictions
  <2>2. n.contradictions[p] = d.contradictions[p]
    BY <1>1, <2>1
  <2> QED
    BY <2>1, <2>2 DEF StoredContradictions
<1>5. ASSUME NEW e \in rivals
      PROVE  {c.id, e} \in Pairs /\ Unresolved(n, {c.id, e})
  BY <1>1 DEF Unresolved
<1>6. Justified(n, c.id)
  <2>1. CASE c.supersedes = NoClaim /\ rivals # {}
    <3>1. n.status[c.id] = "disputed"
      BY <1>2, <1>3, <2>1
    <3>2. PICK e \in rivals : TRUE
      BY <2>1
    <3> QED
      BY <1>5, <3>1, <3>2 DEF Justified
  <2>2. CASE ~(c.supersedes = NoClaim /\ rivals # {})
    <3>1. /\ n.status[c.id] = "active"
          /\ n.history[c.id] = {[at |-> c.asserted, status |-> "active"]}
      BY <1>2, <1>3, <2>2
    <3> QED
      BY <3>1 DEF Justified
  <2> QED
    BY <2>1, <2>2
<1>7. ASSUME NEW e \in StoredClaims(d)
      PROVE  Justified(n, e)
  <2>1. e \in ClaimIds /\ Justified(d, e)
    BY DEF StoredClaims, JustifiedOK, Justified
  <2>2. CASE e = c.supersedes
    <3>1. n.status[e] = "superseded" /\ c.id \in StoredClaims(n)
          /\ n.claims[c.id].supersedes = e
      BY <1>1, <1>2, <2>2
    <3> QED
      BY <3>1 DEF Justified
  <2>3. CASE e # c.supersedes /\ e \in rivals /\ d.status[e] = "active"
    <3>1. n.status[e] = "disputed"
      BY <1>2, <2>3
    <3>2. e \in {c.id, e} /\ {c.id, e} \in Pairs /\ Unresolved(n, {c.id, e})
      BY <1>5, <2>3
    <3> QED
      BY <3>1, <3>2 DEF Justified
  <2>4. CASE e # c.supersedes /\ ~(e \in rivals /\ d.status[e] = "active")
    <3>1. n.status[e] = d.status[e] /\ n.history[e] = d.history[e]
      BY <1>2, <2>4
    <3> QED
      BY <1>1, <1>4, <2>1, <3>1, ReasonStays
  <2> QED
    BY <2>2, <2>3, <2>4
<1> QED
  BY <1>1, <1>6, <1>7 DEF JustifiedOK, Justified, n

\* A verdict is the reason for the statuses it gives.
LEMMA VerdictJustified ==
  ASSUME NEW d, Sound(d), JustifiedOK(d), NEW pair \in StoredContradictions(d),
         d.contradictions[pair].status = "open",
         NEW accepted \in pair, NEW now \in Nat,
         NEW n, n = Close(SetClaimStatuses(d, Verdict(pair, accepted, now)),
                          pair, "resolved", accepted, now)
  PROVE  JustifiedOK(n)
<1>1. /\ n.claims = d.claims
      /\ \A p \in Pairs \ {pair} : n.contradictions[p] = d.contradictions[p]
      /\ pair \in StoredContradictions(n)
      /\ n.contradictions[pair].status = "resolved"
      /\ n.contradictions[pair].accepted = accepted
      /\ \A c \in ClaimIds :
           /\ n.status[c] = IF c \notin pair THEN d.status[c]
                            ELSE IF c = accepted THEN "active"
                            ELSE "superseded"
           /\ n.status[c] = d.status[c] => n.history[c] = d.history[c]
  BY VerdictFields
<1>2. StoredClaims(n) = StoredClaims(d)
  BY <1>1 DEF StoredClaims
<1>3. ASSUME NEW c \in StoredClaims(d)
      PROVE  Justified(n, c)
  <2>1. c \in ClaimIds /\ Justified(d, c)
    BY DEF StoredClaims, JustifiedOK, Justified
  <2>2. CASE c \in pair /\ c = accepted
    <3>1. n.status[c] = "active"
      BY <1>1, <2>1, <2>2
    <3> QED
      BY <1>1, <2>2, <3>1 DEF Justified
  <2>3. CASE c \in pair /\ c # accepted
    <3>1. n.status[c] = "superseded"
      BY <1>1, <2>1, <2>3
    <3> QED
      BY <1>1, <2>3, <3>1 DEF Justified
  <2>4. CASE c \notin pair
    <3>1. n.status[c] = d.status[c] /\ n.history[c] = d.history[c]
      BY <1>1, <2>1, <2>4
    <3>2. ASSUME NEW p \in StoredContradictions(d)
          PROVE  /\ p \in StoredContradictions(n)
                 /\ d.contradictions[p].status = "resolved" =>
                      n.contradictions[p] = d.contradictions[p]
                 /\ c \in p /\ d.contradictions[p].status # "resolved" =>
                      n.contradictions[p].status # "resolved"
      BY <1>1, <2>4 DEF StoredContradictions
    <3>3. \A e \in StoredClaims(d) :
            e \in StoredClaims(n) /\ n.claims[e] = d.claims[e]
      BY <1>1, <1>2
    <3> QED
      BY <2>1, <3>1, <3>2, <3>3, ReasonStays
  <2> QED
    BY <2>2, <2>3, <2>4
<1> QED
  BY <1>2, <1>3 DEF JustifiedOK, Justified

\* An image with the same claims, statuses and histories, whose contradictions
\* are all there and resolved alike, needs no other reasons.
LEMMA JustifiedFrame ==
  ASSUME NEW d, NEW n, Sound(d), JustifiedOK(d), n.claims = d.claims,
         \A c \in StoredClaims(d) :
           \/ n.status[c] = "retracted"
           \/ n.status[c] = d.status[c] /\ n.history[c] = d.history[c],
         \A p \in StoredContradictions(d) :
           /\ p \in StoredContradictions(n)
           /\ d.contradictions[p].status = "resolved" =>
                n.contradictions[p] = d.contradictions[p]
           /\ d.contradictions[p].status # "resolved" =>
                n.contradictions[p].status # "resolved"
  PROVE  JustifiedOK(n)
<1>1. StoredClaims(n) = StoredClaims(d)
  BY DEF StoredClaims
<1>2. ASSUME NEW c \in StoredClaims(d)
      PROVE  Justified(n, c)
  <2>1. c \in ClaimIds /\ Justified(d, c)
    BY DEF StoredClaims, JustifiedOK, Justified
  <2>2. CASE n.status[c] = "retracted"
    BY <2>2 DEF Justified
  <2>3. CASE n.status[c] = d.status[c] /\ n.history[c] = d.history[c]
    <3>1. \A e \in StoredClaims(d) :
            e \in StoredClaims(n) /\ n.claims[e] = d.claims[e]
      BY <1>1
    <3> QED
      BY <2>1, <2>3, <3>1, ReasonStays
  <2> QED
    BY <2>2, <2>3
<1> QED
  BY <1>1, <1>2 DEF JustifiedOK, Justified

-----------------------------------------------------------------------------
(* A claim in an unanswered contradiction is not active.                   *)

\* The claims have been asserted by now.
AssertedBy(d, now) == \A c \in StoredClaims(d) : d.claims[c].asserted <= now

\* A claim without a verdict had none before, as long as no resolution is
\* taken back.
LEMMA UnadjudicatedBefore ==
  ASSUME NEW d, NEW n, NEW c, Unadjudicated(n, c),
         \A p \in StoredContradictions(d) :
           c \in p =>
             /\ p \in StoredContradictions(n)
             /\ d.contradictions[p].status = "resolved" =>
                  n.contradictions[p].status = "resolved"
  PROVE  Unadjudicated(d, c)
BY DEF Unadjudicated

\* record never leaves two claims that contradict each other active, unless one
\* of them has been adjudicated: with untrusted timestamps and a clock that has
\* not been set back, no stored claim was asserted later than the new one.
LEMMA RecordClaimHeld ==
  ASSUME NEW d, Sound(d), ConflictsHeldOK(d), NEW submitted \in ClaimRecords,
         NEW now \in Nat, AcceptsClaim(d, submitted, now),
         ~AlreadyStored(d, submitted),
         ~TrustClientTimestamps, AssertedBy(d, now)
  PROVE  /\ ConflictsHeldOK(RecordClaim(d, submitted, now))
         /\ AssertedBy(RecordClaim(d, submitted, now), now)
<1> DEFINE c == Stamped(submitted, now)
           rivals == NewRivals(d, c)
           n == RecordClaim(d, submitted, now)
<1>1. Recorded(d, c, rivals, n)
  BY RecordClaimFields
<1>2. c.asserted = now
  BY DEF Stamped, ClaimRecords
<1> HIDE DEF n, rivals, c
<1>3. /\ c \in ClaimRecords /\ c.id \in ClaimIds \ StoredClaims(d)
      /\ StoredClaims(n) = StoredClaims(d) \union {c.id}
      /\ n.claims[c.id] = c
      /\ \A e \in StoredClaims(d) : n.claims[e] = d.claims[e]
      /\ \A e \in rivals : e \in StoredClaims(d)
      /\ \A p \in Pairs : (\A e \in rivals : p # {c.id, e}) =>
           n.contradictions[p] = d.contradictions[p]
      /\ \A e \in rivals : d.contradictions[{c.id, e}] = Absent
      /\ n.status[c.id] =
           IF c.supersedes = NoClaim /\ rivals # {} /\ c.status = "active"
           THEN "disputed" ELSE c.status
  BY <1>1 DEF Recorded
<1>4. \A e \in StoredClaims(d) :
        n.status[e] =
          IF e = c.supersedes THEN "superseded"
          ELSE IF e \in rivals /\ d.status[e] = "active"
               THEN "disputed" ELSE d.status[e]
  BY <1>1 DEF Recorded
<1>5. ASSUME NEW p \in StoredContradictions(d)
      PROVE  /\ p \in StoredContradictions(n)
             /\ n.contradictions[p] = d.contradictions[p]
  <2>1. p \in Pairs /\ d.contradictions[p] # Absent
    BY DEF StoredContradictions
  <2>2. n.contradictions[p] = d.contradictions[p]
    BY <1>3, <2>1
  <2> QED
    BY <2>1, <2>2 DEF StoredContradictions
<1>6. \A k \in StoredClaims(d) :
        n.status[k] = "active" => d.status[k] = "active" /\ k \notin rivals
  BY <1>4
<1>7. ASSUME NEW p \in StoredContradictions(n), NEW k \in p, NEW e \in p,
             k # e, Unadjudicated(n, k),
             n.claims[k].asserted < n.claims[e].asserted
               \/ n.claims[k].supersedes = NoClaim
      PROVE  n.status[k] # "active"
  <2>1. CASE p \in StoredContradictions(d)
    <3>1. k \in StoredClaims(d) /\ e \in StoredClaims(d)
      BY <2>1 DEF Sound, ContradictionsOK
    <3>2. Unadjudicated(d, k)
      BY <1>5, <1>7, UnadjudicatedBefore
    <3>3. d.status[k] # "active"
      BY <1>3, <1>7, <2>1, <3>1, <3>2 DEF ConflictsHeldOK
    <3> QED
      BY <1>6, <3>1, <3>3
  <2>2. CASE p \notin StoredContradictions(d)
    <3>1. p \in Pairs /\ n.contradictions[p] # Absent
          /\ d.contradictions[p] = Absent
      BY <2>2 DEF StoredContradictions
    <3>2. PICK r \in rivals : p = {c.id, r}
      BY <1>3, <3>1
    <3>3. CASE k = r
      BY <1>3, <1>6, <3>3
    <3>4. CASE k = c.id /\ e = r
      <4>1. d.claims[r].asserted <= now /\ r \in StoredClaims(d)
        BY <1>3 DEF AssertedBy
      <4>2. d.claims[r].asserted \in Nat
        <5>1. d.claims[r] \in ClaimRecords
          BY <4>1, ImageFields DEF Sound, StoredClaims
        <5> QED
          BY <5>1 DEF ClaimRecords
      <4>3. c.supersedes = NoClaim
        BY <1>2, <1>3, <1>7, <3>4, <4>1, <4>2
      <4> QED
        BY <1>3, <3>4, <4>3
    <3> QED
      BY <1>7, <3>2, <3>3, <3>4
  <2> QED
    BY <2>1, <2>2
<1>8. ConflictsHeldOK(n)
  BY <1>7 DEF ConflictsHeldOK
<1>9. AssertedBy(n, now)
  BY <1>2, <1>3 DEF AssertedBy
<1> QED
  BY <1>8, <1>9 DEF n

\* A verdict makes the two claims of its contradiction adjudicated, and touches
\* no other.
LEMMA VerdictHeld ==
  ASSUME NEW d, Sound(d), ConflictsHeldOK(d),
         NEW pair \in StoredContradictions(d),
         d.contradictions[pair].status = "open",
         NEW accepted \in pair, NEW now \in Nat,
         NEW n, n = Close(SetClaimStatuses(d, Verdict(pair, accepted, now)),
                          pair, "resolved", accepted, now)
  PROVE  ConflictsHeldOK(n)
<1>1. /\ n.claims = d.claims
      /\ \A p \in Pairs \ {pair} : n.contradictions[p] = d.contradictions[p]
      /\ pair \in StoredContradictions(n)
      /\ n.contradictions[pair].status = "resolved"
      /\ \A c \in ClaimIds : c \notin pair => n.status[c] = d.status[c]
  BY VerdictFields
<1>2. ASSUME NEW p \in StoredContradictions(n), NEW c \in p, NEW e \in p,
             c # e, Unadjudicated(n, c),
             n.claims[c].asserted < n.claims[e].asserted
               \/ n.claims[c].supersedes = NoClaim
      PROVE  n.status[c] # "active"
  <2>1. c \notin pair
    BY <1>1, <1>2 DEF Unadjudicated
  <2>2. p \in Pairs \ {pair} /\ p \in StoredContradictions(d)
    BY <1>1, <2>1 DEF StoredContradictions
  <2>3. c \in ClaimIds
    BY <2>2, PairMembers
  <2>4. Unadjudicated(d, c)
    BY <1>1, <1>2, <2>1 DEF Unadjudicated, StoredContradictions
  <2> QED
    BY <1>1, <1>2, <2>1, <2>2, <2>3, <2>4 DEF ConflictsHeldOK
<1> QED
  BY <1>2 DEF ConflictsHeldOK

\* A claim that becomes anything but active, and a contradiction that is closed,
\* leave every conflict held.
LEMMA HeldFrame ==
  ASSUME NEW d, NEW n, ConflictsHeldOK(d), n.claims = d.claims,
         Sound(d),
         \A c \in StoredClaims(d) :
           n.status[c] = "active" => d.status[c] = "active",
         StoredContradictions(n) = StoredContradictions(d),
         \A p \in StoredContradictions(d) :
           d.contradictions[p].status = "resolved" =>
             n.contradictions[p].status = "resolved"
  PROVE  ConflictsHeldOK(n)
<1>1. ASSUME NEW p \in StoredContradictions(n), NEW c \in p, NEW e \in p,
             c # e, Unadjudicated(n, c),
             n.claims[c].asserted < n.claims[e].asserted
               \/ n.claims[c].supersedes = NoClaim
      PROVE  n.status[c] # "active"
  <2>1. c \in StoredClaims(d)
    BY DEF Sound, ContradictionsOK
  <2>2. Unadjudicated(d, c)
    BY <1>1, UnadjudicatedBefore
  <2>3. d.status[c] # "active"
    BY <1>1, <2>2 DEF ConflictsHeldOK
  <2> QED
    BY <2>1, <2>3
<1> QED
  BY <1>1 DEF ConflictsHeldOK

-----------------------------------------------------------------------------
(* The account of an image, and what each store method does to it.         *)

\* The times the server stamps never go back.
SteadyClock == ~TrustClientTimestamps /\ ~ClockMayStepBack

\* Library code only retracts claims.
OnlyRetractions == LibraryChanges \subseteq ClaimIds \X {"retracted"}

\* Library code makes no claim active again.
NoReactivation == \A ch \in LibraryChanges : ch[2] # "active"

\* A claim whose status is believed comes as active.
AssertedActive ==
  TrustClientTimestamps =>
    /\ \A c \in Submissions : c.status = "active"
    /\ \A i \in Ingestions : \A k \in 1..Len(i.claims) :
         i.claims[k].status = "active"

\* What the tables of an image say of each other.  The last two parts depend on
\* what the library and the clock do.
Accounted(d, now) ==
  /\ AuditOK(d)
  /\ ConflictsRecordedOK(d)
  /\ OnlyRetractions /\ AssertedActive => JustifiedOK(d)
  /\ SteadyClock /\ NoReactivation =>
       ConflictsHeldOK(d) /\ AssertedBy(d, now)

\* An image that is accounted for stays so as the clock goes on, and when it
\* steps back where that may happen.
LEMMA AccountedLater ==
  ASSUME NEW d, Sound(d), NEW now \in Int, NEW later \in Int,
         Accounted(d, now), SteadyClock => now <= later
  PROVE  Accounted(d, later)
<1>1. ASSUME SteadyClock, AssertedBy(d, now)
      PROVE  AssertedBy(d, later)
  <2>1. ASSUME NEW c \in StoredClaims(d)
        PROVE  d.claims[c].asserted <= later
    <3>1. d.claims[c] \in ClaimRecords
      BY ImageFields DEF Sound, StoredClaims
    <3>2. d.claims[c].asserted \in Nat /\ d.claims[c].asserted <= now
      BY <1>1, <3>1 DEF AssertedBy, ClaimRecords
    <3> QED
      BY <1>1, <3>2
  <2> QED
    BY <2>1 DEF AssertedBy
<1> QED
  BY <1>1 DEF Accounted

\* A new database has nothing to account for.
LEMMA EmptyImageAccounted ==
  ASSUME NEW now
  PROVE  Accounted(EmptyImage, now)
<1>1. /\ StoredClaims(EmptyImage) = {}
      /\ StoredContradictions(EmptyImage) = {}
      /\ EmptyImage.audit = {}
      /\ \A c \in ClaimIds : EmptyImage.history[c] = {}
      /\ \A e \in EvidenceIds : ~Arrived(EmptyImage, e)
  BY DEF EmptyImage, StoredClaims, StoredContradictions, Arrived
<1>2. AuditOK(EmptyImage)
  <2>1. \A c : RowsTold({}, c) = {}
    BY DEF RowsTold
  <2>2. \A p, s : ~ClosingTold({}, p, s) /\ ~ClosedAs(EmptyImage, p, s)
    BY <1>1 DEF ClosingTold, ClosedAs
  <2>3. \A e : ~ArrivalTold({}, e)
    BY DEF ArrivalTold
  <2> QED
    BY <1>1, <2>1, <2>2, <2>3, AuditTells
<1>3. ConflictsRecordedOK(EmptyImage) /\ JustifiedOK(EmptyImage)
  BY <1>1 DEF ConflictsRecordedOK, JustifiedOK
<1>4. ConflictsHeldOK(EmptyImage) /\ AssertedBy(EmptyImage, now)
  BY <1>1 DEF ConflictsHeldOK, AssertedBy
<1> QED
  BY <1>2, <1>3, <1>4 DEF Accounted

\* record.
LEMMA RecordClaimAccounted ==
  ASSUME NEW d, Sound(d), NEW submitted \in ClaimRecords, NEW now \in Nat,
         Accounted(d, now), AcceptsClaim(d, submitted, now),
         AssertedActive => Stamped(submitted, now).status = "active"
  PROVE  Accounted(RecordClaim(d, submitted, now), now)
<1>1. CASE AlreadyStored(d, submitted)
  BY <1>1 DEF RecordClaim
<1>2. CASE ~AlreadyStored(d, submitted)
  <2> DEFINE n == RecordClaim(d, submitted, now)
  <2>1. AuditOK(n)
    BY RecordClaimAudit DEF Accounted
  <2>2. ConflictsRecordedOK(n)
    BY <1>2, RecordClaimConflicts DEF Accounted
  <2>3. OnlyRetractions /\ AssertedActive => JustifiedOK(n)
    BY <1>2, RecordClaimJustified DEF Accounted
  <2>4. SteadyClock /\ NoReactivation =>
          ConflictsHeldOK(n) /\ AssertedBy(n, now)
    BY <1>2, RecordClaimHeld DEF Accounted, SteadyClock
  <2> HIDE DEF n
  <2> QED
    BY <2>1, <2>2, <2>3, <2>4 DEF Accounted, n
<1> QED
  BY <1>1, <1>2

\* An image whose statuses, histories and contradictions are those of another.
LEMMA SameAccount ==
  ASSUME NEW d, NEW n, NEW now, Sound(d), Accounted(d, now), AuditOK(n),
         n.claims = d.claims, n.status = d.status, n.history = d.history,
         StoredContradictions(n) = StoredContradictions(d),
         \A p \in StoredContradictions(d) :
           /\ d.contradictions[p].status = "resolved" =>
                n.contradictions[p] = d.contradictions[p]
           /\ d.contradictions[p].status # "resolved" =>
                n.contradictions[p].status # "resolved"
  PROVE  Accounted(n, now)
<1>1. ConflictsRecordedOK(n)
  BY ConflictsFrame DEF Accounted
<1>2. OnlyRetractions /\ AssertedActive => JustifiedOK(n)
  BY JustifiedFrame DEF Accounted
<1>3. ConflictsHeldOK(d) => ConflictsHeldOK(n)
  BY HeldFrame
<1>4. AssertedBy(d, now) => AssertedBy(n, now)
  BY DEF AssertedBy, StoredClaims
<1> QED
  BY <1>1, <1>2, <1>3, <1>4 DEF Accounted

\* add_evidence.
LEMMA AddEvidenceAccounted ==
  ASSUME NEW d, Sound(d), NEW document \in EvidenceRecords, NEW now \in Nat,
         Accounted(d, now)
  PROVE  Accounted(AddEvidence(d, document, now), now)
<1> DEFINE n == AddEvidence(d, document, now)
<1>1. CASE d.evidence[document.id] # Absent
  BY <1>1 DEF AddEvidence
<1>2. CASE d.evidence[document.id] = Absent
  <2>1. /\ n.claims = d.claims /\ n.status = d.status
        /\ n.history = d.history /\ n.contradictions = d.contradictions
    BY <1>2, AddEvidenceFields DEF Sound
  <2>2. AuditOK(n)
    BY AddEvidenceAudit DEF Accounted, Sound
  <2> HIDE DEF n
  <2>3. Accounted(n, now)
    BY <2>1, <2>2, SameAccount DEF StoredContradictions
  <2> QED
    BY <2>3 DEF n
<1> QED
  BY <1>1, <1>2

\* The last event of an ingestion.
LEMMA CompletedAccounted ==
  ASSUME NEW d, Sound(d), NEW now, Accounted(d, now),
         NEW n, NEW event, event.action = "ingestion.completed",
         n.claims = d.claims, n.status = d.status, n.history = d.history,
         n.contradictions = d.contradictions, n.evidence = d.evidence,
         n.audit = d.audit \union {event}
  PROVE  Accounted(n, now)
<1>1. \A p, s : ClosedAs(n, p, s) <=> ClosedAs(d, p, s)
  BY DEF ClosedAs, StoredContradictions
<1>2. AuditOK(n)
  <2> DEFINE more == {event}
  <2>1. /\ n.audit = d.audit \union more
        /\ \A v \in more : v.action \in {"contradiction.created",
                                         "ingestion.completed"}
    OBVIOUS
  <2> HIDE DEF more
  <2> QED
    BY <1>1, <2>1, AuditFrame DEF Accounted
<1> QED
  BY <1>2, SameAccount DEF StoredContradictions

\* resolve_contradiction with an accepted claim.
LEMMA VerdictAccounted ==
  ASSUME NEW d, Sound(d), NEW now \in Nat, Accounted(d, now),
         NEW pair \in StoredContradictions(d),
         d.contradictions[pair].status = "open", NEW accepted \in pair
  PROVE  Accounted(Close(SetClaimStatuses(d, Verdict(pair, accepted, now)),
                         pair, "resolved", accepted, now), now)
<1> DEFINE target == Verdict(pair, accepted, now)
           m == SetClaimStatuses(d, target)
           n == Close(m, pair, "resolved", accepted, now)
<1>1. /\ target \in Targets(d)
      /\ Sound(m) /\ Sound(n) /\ Follows(d, n)
      /\ pair \in StoredContradictions(m)
      /\ m.contradictions[pair].status = "open"
      /\ n.claims = d.claims
      /\ \A p \in Pairs \ {pair} : n.contradictions[p] = d.contradictions[p]
      /\ pair \in StoredContradictions(n)
  BY VerdictFields
<1>2. OnlyRetractions /\ AssertedActive => JustifiedOK(n)
  BY VerdictJustified DEF Accounted
<1>3. ConflictsHeldOK(d) => ConflictsHeldOK(n)
  BY VerdictHeld
<1>4. pair \in Pairs /\ accepted \in ClaimIds
  BY PairMembers DEF StoredContradictions
<1> HIDE DEF target
<1>5. AuditOK(m)
  BY <1>1, SetClaimStatusesAudit DEF Accounted
<1> HIDE DEF m
<1>6. AuditOK(n)
  BY <1>1, <1>4, <1>5, CloseAudit DEF Sound
<1> HIDE DEF n
<1>7. StoredContradictions(d) \subseteq StoredContradictions(n)
  BY <1>1 DEF StoredContradictions
<1>8. ConflictsRecordedOK(n)
  <2>1. \A c \in StoredClaims(d) : d.history[c] \subseteq n.history[c]
    BY <1>1 DEF Follows
  <2> QED
    BY <1>1, <1>7, <2>1, ConflictsFrame DEF Accounted
<1>9. AssertedBy(d, now) => AssertedBy(n, now)
  BY <1>1 DEF AssertedBy, StoredClaims
<1>10. Accounted(n, now)
  BY <1>2, <1>3, <1>6, <1>8, <1>9 DEF Accounted
<1> QED
  BY <1>10 DEF n, m, target

\* resolve_contradiction with dismiss.
LEMMA DismissalAccounted ==
  ASSUME NEW d, Sound(d), NEW now \in Nat, Accounted(d, now),
         NEW pair \in StoredContradictions(d),
         d.contradictions[pair].status = "open"
  PROVE  Accounted(Close(d, pair, "dismissed", NoVerdict, now), now)
<1> DEFINE n == Close(d, pair, "dismissed", NoVerdict, now)
<1>1. AuditOK(n)
  BY CloseAudit DEF Accounted, Sound
<1>2. /\ n.claims = d.claims /\ n.status = d.status
      /\ n.history = d.history
      /\ \A p \in Pairs \ {pair} : n.contradictions[p] = d.contradictions[p]
      /\ n.contradictions[pair] \in ContradictionRecords
      /\ n.contradictions[pair].status = "dismissed"
  BY CloseFields DEF Sound, ContradictionStatuses
<1> HIDE DEF n
<1>3. pair \in Pairs /\ d.contradictions[pair] # Absent
      /\ n.contradictions[pair] # Absent
  BY <1>2, LedgerAssumption DEF StoredContradictions
<1>4. StoredContradictions(n) = StoredContradictions(d)
  BY <1>2, <1>3 DEF StoredContradictions
<1>5. \A p \in StoredContradictions(d) :
        /\ d.contradictions[p].status = "resolved" =>
             n.contradictions[p] = d.contradictions[p]
        /\ d.contradictions[p].status # "resolved" =>
             n.contradictions[p].status # "resolved"
  BY <1>2 DEF StoredContradictions
<1>6. Accounted(n, now)
  BY <1>1, <1>2, <1>4, <1>5, SameAccount
<1> QED
  BY <1>6 DEF n

\* set_claim_status called by library code.
LEMMA LibraryChangeAccounted ==
  ASSUME NEW d, Sound(d), NEW now \in Nat, Accounted(d, now),
         NEW c \in StoredClaims(d), NEW status \in ClaimStatuses,
         <<c, status>> \in LibraryChanges
  PROVE  Accounted(SetClaimStatuses(d, [e \in {c} |->
                                          [status |-> status, at |-> now]]),
                   now)
<1> DEFINE target == [e \in {c} |-> [status |-> status, at |-> now]]
           n == SetClaimStatuses(d, target)
<1>1. target \in Targets(d)
  <2>1. target \in [{c} -> [status : ClaimStatuses, at : Nat]]
    OBVIOUS
  <2> QED
    BY <2>1 DEF Targets
<1>2. DOMAIN target = {c} /\ target[c].status = status
  OBVIOUS
<1>3. OnlyRetractions => status = "retracted"
  BY DEF OnlyRetractions
<1>4. NoReactivation => status # "active"
  BY DEF NoReactivation
<1> HIDE DEF target
<1>5. AuditOK(n)
  BY <1>1, SetClaimStatusesAudit DEF Accounted
<1>6. /\ n.claims = d.claims /\ n.contradictions = d.contradictions
      /\ Follows(d, n)
  BY <1>1, SetClaimStatusesFields, SetClaimStatusesSound DEF Sound
<1>7. \A e \in ClaimIds :
        /\ n.status[e] = IF e \in DOMAIN target THEN target[e].status
                         ELSE d.status[e]
        /\ n.status[e] = d.status[e] => n.history[e] = d.history[e]
  BY SetClaimStatusesOutcome DEF Sound
<1> HIDE DEF n
<1>8. StoredContradictions(n) = StoredContradictions(d)
  BY <1>6 DEF StoredContradictions
<1>9. ConflictsRecordedOK(n)
  <2>1. \A e \in StoredClaims(d) : d.history[e] \subseteq n.history[e]
    BY <1>6 DEF Follows
  <2> QED
    BY <1>6, <1>8, <2>1, ConflictsFrame DEF Accounted
<1>10. \A e \in StoredClaims(d) :
         \/ e = c /\ n.status[e] = status
         \/ n.status[e] = d.status[e] /\ n.history[e] = d.history[e]
  BY <1>2, <1>7 DEF StoredClaims
<1>11. OnlyRetractions /\ JustifiedOK(d) => JustifiedOK(n)
  BY <1>3, <1>6, <1>8, <1>10, JustifiedFrame
<1>12. NoReactivation /\ ConflictsHeldOK(d) => ConflictsHeldOK(n)
  BY <1>4, <1>6, <1>8, <1>10, HeldFrame
<1>13. AssertedBy(d, now) => AssertedBy(n, now)
  BY <1>6 DEF AssertedBy, StoredClaims
<1>14. Accounted(n, now)
  BY <1>5, <1>9, <1>11, <1>12, <1>13 DEF Accounted
<1> QED
  BY <1>14 DEF n, target

-----------------------------------------------------------------------------
(* Whole ingestions.                                                       *)

\* All the claims of an ingestion are in the image.
Complete(d, i) == \A k \in 1..Len(i.claims) : AlreadyStored(d, i.claims[k])

\* The evidence is the document of the ingestion.
DocumentOf(d, e, i) == i.document.id = e /\ SameDocument(d.evidence[e], i.document)

\* The evidence is there with all the claims of a statement it came with.
Whole(d, e) == \E i \in Ingestions : DocumentOf(d, e, i) /\ Complete(d, i)

\* The evidence is the document of the ingestion under way.
InProgress(e) == job # Idle /\ DocumentOf(db, e, job.ingestion)

\* All committed evidence is whole; the connection sees, beside it, only the
\* document of the ingestion under way, and the claims that came before the
\* next one.
WholeInv ==
  /\ \A e \in StoredEvidence(disk) : Whole(disk, e)
  /\ \A e \in StoredEvidence(db) : Whole(db, e) \/ InProgress(e)
  /\ job # Idle =>
       \A k \in 1..(job.next - 1) : AlreadyStored(db, job.ingestion.claims[k])

\* What is stored already stays so.
LEMMA AlreadyStoredStays ==
  ASSUME NEW d, NEW n, Follows(d, n), NEW c, AlreadyStored(d, c)
  PROVE  AlreadyStored(n, c)
<1>1. PICK e \in StoredClaims(d) : Fingerprint(d.claims[e]) = Fingerprint(c)
  BY DEF AlreadyStored
<1>2. e \in StoredClaims(n) /\ n.claims[e] = d.claims[e]
  BY DEF Follows, StoredClaims
<1> QED
  BY <1>1, <1>2 DEF AlreadyStored

\* What is whole stays so.
LEMMA WholeStays ==
  ASSUME NEW d, NEW n, Follows(d, n), NEW e \in StoredEvidence(d), Whole(d, e)
  PROVE  e \in StoredEvidence(n) /\ Whole(n, e)
<1>1. PICK i \in Ingestions : DocumentOf(d, e, i) /\ Complete(d, i)
  BY DEF Whole
<1>2. e \in StoredEvidence(n) /\ n.evidence[e] = d.evidence[e]
  BY DEF Follows, StoredEvidence
<1>3. DocumentOf(n, e, i)
  BY <1>1, <1>2 DEF DocumentOf
<1>4. Complete(n, i)
  BY <1>1, AlreadyStoredStays DEF Complete
<1> QED
  BY <1>2, <1>3, <1>4 DEF Whole

\* record stores the claim, unless it is there already, and no evidence.
LEMMA RecordClaimStores ==
  ASSUME NEW d, Sound(d), NEW submitted \in ClaimRecords, NEW now \in Nat,
         AcceptsClaim(d, submitted, now)
  PROVE  /\ AlreadyStored(RecordClaim(d, submitted, now), submitted)
         /\ RecordClaim(d, submitted, now).evidence = d.evidence
<1>1. CASE AlreadyStored(d, submitted)
  BY <1>1 DEF RecordClaim
<1>2. CASE ~AlreadyStored(d, submitted)
  <2> DEFINE c == Stamped(submitted, now)
             rivals == NewRivals(d, c)
             n == RecordClaim(d, submitted, now)
  <2>1. Recorded(d, c, rivals, n)
    BY <1>2, RecordClaimFields
  <2>2. Fingerprint(c) = Fingerprint(submitted)
    BY StampedClaim
  <2> HIDE DEF c, rivals, n
  <2>3. /\ c.id \in StoredClaims(n) /\ n.claims[c.id] = c
        /\ n.evidence = d.evidence
    BY <2>1 DEF Recorded
  <2>4. AlreadyStored(n, submitted)
    BY <2>2, <2>3 DEF AlreadyStored
  <2> QED
    BY <2>3, <2>4 DEF n
<1> QED
  BY <1>1, <1>2

\* What an ingestion writes first is its document; every other piece of evidence
\* stays as it is.
LEMMA AddEvidenceStores ==
  ASSUME NEW d, Sound(d), NEW document \in EvidenceRecords, NEW now \in Nat,
         AcceptsEvidence(d, document), NEW n, n = AddEvidence(d, document, now)
  PROVE  /\ SameDocument(n.evidence[document.id], document)
         /\ \A e \in StoredEvidence(n) : e # document.id =>
              e \in StoredEvidence(d) /\ n.evidence[e] = d.evidence[e]
<1>1. CASE d.evidence[document.id] # Absent
  BY <1>1 DEF AddEvidence, AcceptsEvidence
<1>2. CASE d.evidence[document.id] = Absent
  <2>1. /\ SameDocument(n.evidence[document.id], document)
        /\ \A e \in EvidenceIds \ {document.id} :
             n.evidence[e] = d.evidence[e]
    BY <1>2, AddEvidenceFields DEF Sound
  <2> QED
    BY <2>1 DEF StoredEvidence
<1> QED
  BY <1>1, <1>2

-----------------------------------------------------------------------------
(* The second invariant: both images are accounted for, and ingestions are *)
(* whole.                                                                  *)

TablesInv ==
  /\ Accounted(db, clock) /\ Accounted(disk, clock)
  /\ WholeInv

LEMMA InitTables == Init => TablesInv
<1> SUFFICES ASSUME Init PROVE TablesInv
  OBVIOUS
<1>1. Accounted(db, clock) /\ Accounted(disk, clock)
  BY EmptyImageAccounted DEF Init
<1>2. StoredEvidence(db) = {} /\ StoredEvidence(disk) = {} /\ job = Idle
  BY DEF Init, EmptyImage, StoredEvidence
<1> QED
  BY <1>1, <1>2 DEF TablesInv, WholeInv

\* A call that is one transaction and stores no evidence, if what it writes is
\* accounted for.
LEMMA TransactTables ==
  ASSUME Inv, TablesInv, NEW image, Transact(image),
         Accounted(image, clock), Follows(db, image), image.evidence = db.evidence
  PROVE  TablesInv'
<1>1. /\ job = Idle /\ job' = Idle /\ clock' = clock
      /\ db' = image /\ disk' = image
  BY DEF Transact
<1>2. Accounted(db', clock') /\ Accounted(disk', clock')
  BY <1>1
<1>3. ASSUME NEW e \in StoredEvidence(image)
      PROVE  Whole(image, e)
  <2>1. e \in StoredEvidence(db)
    BY DEF StoredEvidence
  <2>2. Whole(db, e)
    BY <1>1, <2>1 DEF TablesInv, WholeInv, InProgress
  <2> QED
    BY <2>1, <2>2, WholeStays
<1>4. WholeInv'
  BY <1>1, <1>3 DEF WholeInv
<1> QED
  BY <1>2, <1>4 DEF TablesInv

\* The second invariant, action by action.
LEMMA PostClaimTables ==
  ASSUME Inv, TablesInv, NEW c \in Submissions, PostClaim(c)
  PROVE  TablesInv'
<1> DEFINE image == RecordClaim(db, c, clock)
<1>1. c \in ClaimRecords /\ clock \in Nat /\ Sound(db)
  BY LedgerAssumption DEF Inv
<1>2. AcceptsClaim(db, c, clock) /\ Transact(image)
  BY DEF PostClaim
<1>3. AssertedActive => Stamped(c, clock).status = "active"
  BY <1>1 DEF AssertedActive, Stamped, ClaimRecords
<1>4. Accounted(image, clock)
  BY <1>1, <1>2, <1>3, RecordClaimAccounted DEF TablesInv
<1>5. Follows(db, image) /\ image.evidence = db.evidence
  BY <1>1, <1>2, RecordClaimSound, RecordClaimStores
<1> HIDE DEF image
<1> QED
  BY <1>2, <1>4, <1>5, TransactTables

LEMMA StartIngestionTables ==
  ASSUME Inv, TablesInv, NEW i \in Ingestions, StartIngestion(i)
  PROVE  TablesInv'
<1>1. i.document \in EvidenceRecords /\ clock \in Nat /\ Sound(db)
  BY LedgerAssumption DEF Inv
<1>2. /\ job = Idle /\ AcceptsEvidence(db, i.document)
      /\ db' = AddEvidence(db, i.document, clock)
      /\ job' = [ingestion |-> i, next |-> 1]
      /\ disk' = disk /\ clock' = clock
  BY DEF StartIngestion
<1>3. job'.ingestion = i /\ job'.next = 1 /\ job' # Idle
  <2>1. job' \in [ingestion : Ingestions, next : Nat]
    BY <1>2
  <2> QED
    BY <1>2, <2>1, LedgerAssumption
<1>4. Accounted(AddEvidence(db, i.document, clock), clock)
  BY <1>1, AddEvidenceAccounted DEF TablesInv
<1>5. Follows(db, db')
  BY <1>1, <1>2, AddEvidenceSound
<1>6. /\ SameDocument(db'.evidence[i.document.id], i.document)
      /\ \A e \in StoredEvidence(db') : e # i.document.id =>
           e \in StoredEvidence(db)
  BY <1>1, <1>2, AddEvidenceStores
<1>7. ASSUME NEW e \in StoredEvidence(db')
      PROVE  Whole(db', e) \/ InProgress(e)'
  <2>1. CASE e = i.document.id
    BY <1>3, <1>6, <2>1 DEF InProgress, DocumentOf
  <2>2. CASE e # i.document.id
    <3>1. e \in StoredEvidence(db) /\ Whole(db, e)
      BY <1>2, <1>6, <2>2 DEF TablesInv, WholeInv, InProgress
    <3> QED
      BY <1>5, <3>1, WholeStays
  <2> QED
    BY <2>1, <2>2
<1>8. WholeInv'
  <2>1. \A e \in StoredEvidence(disk') : Whole(disk', e)
    BY <1>2 DEF TablesInv, WholeInv
  <2>2. 1..(job'.next - 1) = {}
    BY <1>3
  <2> QED
    BY <1>7, <2>1, <2>2 DEF WholeInv
<1>9. Accounted(db', clock') /\ Accounted(disk', clock')
  BY <1>2, <1>4 DEF TablesInv
<1> QED
  BY <1>8, <1>9 DEF TablesInv

LEMMA IngestClaimTables ==
  ASSUME Inv, TablesInv, IngestClaim
  PROVE  TablesInv'
<1>1. /\ job \in [ingestion : Ingestions, next : Nat]
      /\ job.next \in 1..Len(job.ingestion.claims)
      /\ NextClaim \in ClaimRecords /\ clock \in Nat /\ Sound(db)
  BY NextClaimType, LedgerAssumption DEF IngestClaim, Inv
<1>2. /\ AcceptsClaim(db, NextClaim, clock)
      /\ db' = RecordClaim(db, NextClaim, clock)
      /\ job' = [job EXCEPT !.next = job.next + 1]
      /\ disk' = disk /\ clock' = clock /\ job # Idle
  BY DEF IngestClaim, ClaimsLeft
<1>3. /\ job' # Idle /\ job'.ingestion = job.ingestion
      /\ job'.next = job.next + 1
  <2>1. job' \in [ingestion : Ingestions, next : Nat]
    BY <1>1, <1>2
  <2> QED
    BY <1>1, <1>2, <2>1, LedgerAssumption
<1>4. AssertedActive => Stamped(NextClaim, clock).status = "active"
  BY <1>1 DEF AssertedActive, Stamped, ClaimRecords, NextClaim
<1>5. Accounted(RecordClaim(db, NextClaim, clock), clock)
  BY <1>1, <1>2, <1>4, RecordClaimAccounted DEF TablesInv
<1>6. /\ Follows(db, db') /\ db'.evidence = db.evidence
      /\ AlreadyStored(db', NextClaim)
  BY <1>1, <1>2, RecordClaimSound, RecordClaimStores
<1>7. ASSUME NEW e \in StoredEvidence(db')
      PROVE  Whole(db', e) \/ InProgress(e)'
  <2>1. e \in StoredEvidence(db)
    BY <1>6 DEF StoredEvidence
  <2>2. CASE Whole(db, e)
    BY <1>6, <2>1, <2>2, WholeStays
  <2>3. CASE InProgress(e)
    BY <1>3, <1>6, <2>3 DEF InProgress, DocumentOf
  <2> QED
    BY <2>1, <2>2, <2>3 DEF TablesInv, WholeInv
<1>8. ASSUME NEW k \in 1..(job'.next - 1)
      PROVE  AlreadyStored(db', job'.ingestion.claims[k])
  <2>1. CASE k = job.next
    BY <1>3, <1>6, <2>1 DEF NextClaim
  <2>2. CASE k # job.next
    <3>1. k \in 1..(job.next - 1)
      BY <1>1, <1>3, <2>2
    <3>2. AlreadyStored(db, job.ingestion.claims[k])
      BY <1>2, <3>1 DEF TablesInv, WholeInv
    <3> QED
      BY <1>3, <1>6, <3>2, AlreadyStoredStays
  <2> QED
    BY <2>1, <2>2
<1>9. WholeInv'
  <2>1. \A e \in StoredEvidence(disk') : Whole(disk', e)
    BY <1>2 DEF TablesInv, WholeInv
  <2> QED
    BY <1>7, <1>8, <2>1 DEF WholeInv
<1>10. Accounted(db', clock') /\ Accounted(disk', clock')
  BY <1>2, <1>5 DEF TablesInv
<1> QED
  BY <1>9, <1>10 DEF TablesInv

\* RejectIngestion and Crash.
LEMMA RollBackTables ==
  ASSUME TablesInv, db' = disk, job' = Idle, UNCHANGED <<disk, clock>>
  PROVE  TablesInv'
  BY DEF TablesInv, WholeInv

\* The commit makes the document of the ingestion whole: no claim is left.
LEMMA FinishIngestionTables ==
  ASSUME Inv, TablesInv, FinishIngestion
  PROVE  TablesInv'
<1> DEFINE event == Event("ingestion.completed", job.ingestion.document.id,
                          "new", clock)
<1>1. /\ job # Idle /\ ~ClaimsLeft
      /\ db' = [db EXCEPT !.audit = @ \union {event}]
      /\ disk' = db' /\ job' = Idle /\ clock' = clock
  BY DEF FinishIngestion
<1>2. /\ job \in [ingestion : Ingestions, next : Nat]
      /\ job.next = Len(job.ingestion.claims) + 1
      /\ Len(job.ingestion.claims) \in Nat
  <2>1. /\ job \in [ingestion : Ingestions, next : Nat]
        /\ job.next \in 1..(Len(job.ingestion.claims) + 1)
    BY <1>1 DEF Inv, JobOK
  <2>2. Len(job.ingestion.claims) \in Nat
    BY <2>1, LedgerAssumption
  <2>3. ~(job.next <= Len(job.ingestion.claims))
    BY <1>1 DEF ClaimsLeft
  <2> QED
    BY <2>1, <2>2, <2>3
<1>3. event.action = "ingestion.completed"
  BY DEF Event
<1> HIDE DEF event
<1>4. /\ db'.claims = db.claims /\ db'.status = db.status
      /\ db'.history = db.history /\ db'.evidence = db.evidence
      /\ db'.contradictions = db.contradictions
      /\ db'.audit = db.audit \union {event}
  BY <1>1 DEF Inv, Sound, ImageOK
<1>5. Accounted(db', clock)
  <2>1. Sound(db) /\ Accounted(db, clock)
    BY DEF Inv, TablesInv
  <2> QED
    BY <1>3, <1>4, <2>1, CompletedAccounted
<1>6. Follows(db, db')
  BY <1>4 DEF Follows
<1>7. ASSUME NEW e \in StoredEvidence(db')
      PROVE  Whole(db', e)
  <2>1. e \in StoredEvidence(db)
    BY <1>4 DEF StoredEvidence
  <2>2. CASE InProgress(e)
    <3>1. job.ingestion \in Ingestions /\ DocumentOf(db, e, job.ingestion)
      BY <1>2, <2>2 DEF InProgress
    <3>2. Complete(db, job.ingestion)
      BY <1>1, <1>2 DEF Complete, TablesInv, WholeInv
    <3> QED
      BY <1>6, <2>1, <3>1, <3>2, WholeStays DEF Whole
  <2>3. CASE Whole(db, e)
    BY <1>6, <2>1, <2>3, WholeStays
  <2> QED
    BY <2>1, <2>2, <2>3 DEF TablesInv, WholeInv
<1>8. WholeInv'
  BY <1>1, <1>7 DEF WholeInv
<1> QED
  BY <1>1, <1>5, <1>8 DEF TablesInv

LEMMA ResolveContradictionTables ==
  ASSUME Inv, TablesInv, NEW pair \in Pairs, NEW accepted \in ClaimIds,
         ResolveContradiction(pair, accepted)
  PROVE  TablesInv'
<1> DEFINE image == Close(SetClaimStatuses(db, Verdict(pair, accepted, clock)),
                          pair, "resolved", accepted, clock)
<1>1. /\ pair \in StoredContradictions(db)
      /\ db.contradictions[pair].status = "open"
      /\ accepted \in pair /\ Transact(image)
  BY DEF ResolveContradiction
<1>2. clock \in Nat /\ Sound(db)
  BY LedgerAssumption DEF Inv
<1>3. Accounted(image, clock)
  BY <1>1, <1>2, VerdictAccounted DEF TablesInv
<1>4. Follows(db, image) /\ image.evidence = db.evidence
  BY <1>1, <1>2, VerdictFields
<1> HIDE DEF image
<1> QED
  BY <1>1, <1>3, <1>4, TransactTables

LEMMA DismissContradictionTables ==
  ASSUME Inv, TablesInv, NEW pair \in Pairs, DismissContradiction(pair)
  PROVE  TablesInv'
<1> DEFINE image == Close(db, pair, "dismissed", NoVerdict, clock)
<1>1. /\ pair \in StoredContradictions(db)
      /\ db.contradictions[pair].status = "open"
      /\ Transact(image)
  BY DEF DismissContradiction
<1>2. clock \in Nat /\ Sound(db)
  BY LedgerAssumption DEF Inv
<1>3. Accounted(image, clock)
  BY <1>1, <1>2, DismissalAccounted DEF TablesInv
<1>4. Follows(db, image)
  BY <1>1, <1>2, CloseSound
<1>5. image.evidence = db.evidence
  BY <1>1, <1>2, CloseFields DEF Sound, ContradictionStatuses
<1> HIDE DEF image
<1> QED
  BY <1>1, <1>3, <1>4, <1>5, TransactTables

LEMMA SetClaimStatusTables ==
  ASSUME Inv, TablesInv, NEW c \in ClaimIds, NEW status \in ClaimStatuses,
         SetClaimStatus(c, status)
  PROVE  TablesInv'
<1> DEFINE target == [e \in {c} |-> [status |-> status, at |-> clock]]
           image == SetClaimStatuses(db, target)
<1>1. /\ <<c, status>> \in LibraryChanges
      /\ c \in StoredClaims(db) /\ Transact(image)
  BY DEF SetClaimStatus
<1>2. clock \in Nat /\ Sound(db)
  BY LedgerAssumption DEF Inv
<1>3. Accounted(image, clock)
  BY <1>1, <1>2, LibraryChangeAccounted DEF TablesInv
<1>4. target \in Targets(db)
  <2>1. target \in [{c} -> [status : ClaimStatuses, at : Nat]]
    BY <1>2
  <2> QED
    BY <1>1, <2>1 DEF Targets
<1> HIDE DEF target
<1>5. Follows(db, image) /\ image.evidence = db.evidence
  BY <1>2, <1>4, SetClaimStatusesSound, SetClaimStatusesFields DEF Sound
<1> HIDE DEF image
<1> QED
  BY <1>1, <1>3, <1>5, TransactTables

LEMMA ClockTables ==
  ASSUME Inv, TablesInv, Tick \/ StepBack
  PROVE  TablesInv'
<1>1. UNCHANGED <<db, disk, job>>
  BY DEF Tick, StepBack
<1>2. clock \in Int /\ clock' \in Int /\ (SteadyClock => clock <= clock')
  BY LedgerAssumption DEF Tick, StepBack, Inv, SteadyClock
<1>3. /\ Sound(db) /\ Sound(disk)
      /\ Accounted(db, clock) /\ Accounted(disk, clock)
  BY DEF Inv, TablesInv
<1>4. Accounted(db, clock') /\ Accounted(disk, clock')
  BY <1>2, <1>3, AccountedLater
<1>5. WholeInv'
  BY <1>1 DEF TablesInv, WholeInv, InProgress
<1> QED
  BY <1>1, <1>4, <1>5 DEF TablesInv

LEMMA TablesStep ==
  ASSUME Inv, TablesInv, [Next]_vars
  PROVE  TablesInv'
<1>1. CASE \E c \in Submissions : PostClaim(c)
  BY <1>1, PostClaimTables
<1>2. CASE \E i \in Ingestions : StartIngestion(i)
  BY <1>2, StartIngestionTables
<1>3. CASE IngestClaim
  BY <1>3, IngestClaimTables
<1>4. CASE RejectIngestion \/ Crash
  BY <1>4, RollBackTables DEF RejectIngestion, Crash
<1>5. CASE FinishIngestion
  BY <1>5, FinishIngestionTables
<1>6. CASE \E pair \in Pairs, accepted \in ClaimIds :
             ResolveContradiction(pair, accepted)
  BY <1>6, ResolveContradictionTables
<1>7. CASE \E pair \in Pairs : DismissContradiction(pair)
  BY <1>7, DismissContradictionTables
<1>8. CASE \E c \in ClaimIds, status \in ClaimStatuses :
             SetClaimStatus(c, status)
  BY <1>8, SetClaimStatusTables
<1>9. CASE Tick \/ StepBack
  BY <1>9, ClockTables
<1>10. CASE UNCHANGED vars
  BY <1>10 DEF vars, TablesInv, WholeInv, InProgress
<1> QED
  BY <1>1, <1>2, <1>3, <1>4, <1>5, <1>6, <1>7, <1>8, <1>9, <1>10 DEF Next

-----------------------------------------------------------------------------
(* The theorems.                                                           *)

\* Both images are accounted for, and ingestions are whole, in every reachable
\* state.
THEOREM TablesAgree == Spec => []TablesInv
<1>1. Init => TablesInv
  BY InitTables
<1>2. Inv /\ TablesInv /\ [Next]_vars => TablesInv'
  BY TablesStep
<1> QED
  BY <1>1, <1>2, Invariance, PTL DEF Spec

\* The audit events tell the history of every claim, the outcome of every
\* contradiction and which evidence is there, and nothing else, whoever changes
\* a record and whatever the clock does: no change is without its event, and no
\* event is without its change, also when a transaction is rolled back.
THEOREM AuditAccountsForTables == Spec => []AuditAccounts
<1>1. TablesInv => AuditAccounts
  BY DEF TablesInv, Accounted, AuditAccounts
<1> QED
  BY <1>1, TablesAgree, PTL

\* Two claims that disagree and have never been superseded or retracted have a
\* contradiction on record, in whichever order and by whichever of the two
\* writers they were stored.
THEOREM LiveConflictsAreRecorded == Spec => []LiveConflictsRecorded
<1>1. TablesInv => LiveConflictsRecorded
  BY DEF TablesInv, Accounted, LiveConflictsRecorded
<1> QED
  BY <1>1, TablesAgree, PTL

\* If library code only retracts claims, and claims whose status is believed
\* come as active, every claim that is disputed, active again or superseded has
\* its reason on record.
THEOREM StatusesAreJustified ==
  ASSUME OnlyRetractions, AssertedActive
  PROVE  Spec => []StatusJustified
<1>1. TablesInv => StatusJustified
  BY DEF TablesInv, Accounted, StatusJustified
<1> QED
  BY <1>1, TablesAgree, PTL

\* If the server stamps claims by a clock that is not set back, and library code
\* makes no claim active again, an active claim is in no contradiction, unless
\* it has been adjudicated or explicitly restates another claim.
THEOREM ConflictsAreHeld ==
  ASSUME SteadyClock, NoReactivation
  PROVE  Spec => []ConflictsHeld
<1>1. TablesInv => ConflictsHeld
  BY DEF TablesInv, Accounted, ConflictsHeld
<1> QED
  BY <1>1, TablesAgree, PTL

\* Committed evidence has all the claims of a statement it came with, however
\* long the statement, and wherever an ingestion is rejected or dies.
THEOREM IngestionsAreAtomic == Spec => []IngestionAtomic
<1>1. TablesInv => IngestionAtomic
  BY DEF TablesInv, WholeInv, Whole, DocumentOf, Complete, IngestionAtomic
<1> QED
  BY <1>1, TablesAgree, PTL

=============================================================================
