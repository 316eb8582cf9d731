-------------------------- MODULE ClaimsLedgerProofs --------------------------
(***************************************************************************)
(* Theorems about ClaimsLedger, for every value of its constants.          *)
(*                                                                         *)
(* The invariant is one predicate of an image, Sound, that every store     *)
(* method preserves; it holds of what the connection sees and of what is   *)
(* committed.                                                              *)
(***************************************************************************)
EXTENDS ClaimsLedger, TLAPS

-----------------------------------------------------------------------------
(* Facts about images and the detector.                                    *)

\* The fields of a well-typed image.
LEMMA ImageFields ==
  ASSUME NEW d, ImageOK(d)
  PROVE  /\ d.evidence \in [EvidenceIds -> EvidenceRecords \union {Absent}]
         /\ d.claims \in [ClaimIds -> ClaimRecords \union {Absent}]
         /\ d.status \in [ClaimIds -> ClaimStatuses \union {Absent}]
         /\ d.history \in [ClaimIds -> SUBSET HistoryRows]
         /\ d.contradictions \in [Pairs -> ContradictionRecords \union {Absent}]
         /\ d.audit \in SUBSET AuditEvents
  BY DEF ImageOK

\* Two different claims are a pair, and each pair is of that kind.
LEMMA PairOf ==
  ASSUME NEW c \in ClaimIds, NEW e \in ClaimIds, c # e
  PROVE  {c, e} \in Pairs
  BY DEF Pairs

\* A pair consists of claims.
LEMMA PairMembers ==
  ASSUME NEW p \in Pairs
  PROVE  p \subseteq ClaimIds
  BY DEF Pairs

\* The answers of the detector, and what a contradiction implies.
LEMMA DetectAnswers ==
  ASSUME NEW c, NEW cs, NEW e, NEW es
  PROVE  /\ Detect(c, cs, e, es) \in Severities \union {Agreement}
         /\ Detect(c, cs, e, es) # Agreement => c.id # e.id /\ c.key = e.key
  BY DEF Detect, DecimalSeverity, Severities, Agreement, Comparable

\* What the detector says of a claim that is not retracted does not depend on
\* its status.
LEMMA DetectStatus ==
  ASSUME NEW c, NEW cs, NEW e, NEW es,
         Detect(c, cs, e, es) # Agreement
  PROVE  Detect(c, "active", e, "active") = Detect(c, cs, e, es)
  BY DEF Detect, Comparable

\* It does not matter which of two claims arrives first.
LEMMA DetectSymmetric ==
  ASSUME NEW c \in ClaimRecords, NEW cs, NEW e \in ClaimRecords, NEW es
  PROVE  Detect(c, cs, e, es) = Detect(e, es, c, cs)
<1>1. c.value \in Int /\ e.value \in Int
  BY DEF ClaimRecords
<1>2. Delta(c.value, e.value) = Delta(e.value, c.value)
  BY <1>1 DEF Delta, Abs
<1>3. Baseline(c.value, e.value) = Baseline(e.value, c.value)
  BY <1>1 DEF Baseline, Abs, Larger
<1>4. DecimalSeverity(c.value, e.value) = DecimalSeverity(e.value, c.value)
  BY <1>2, <1>3 DEF DecimalSeverity, WithinTolerance, IsMaterial
<1>5. Comparable(c, cs, e, es) = Comparable(e, es, c, cs)
  BY DEF Comparable, SameReportingContext
<1> QED
  BY <1>4, <1>5 DEF Detect

\* A contradiction is dated no earlier than either claim.
LEMMA DetectedAtNat ==
  ASSUME NEW c, NEW e, c.asserted \in Nat, e.asserted \in Nat
  PROVE  /\ DetectedAt(c, e) \in Nat
         /\ c.asserted <= DetectedAt(c, e) /\ e.asserted <= DetectedAt(c, e)
  BY DEF DetectedAt, Larger

-----------------------------------------------------------------------------
(* The history of a claim.                                                 *)

\* The latest row of a stored claim is the last one, and holds its status.
LEMMA LatestRowIsLast ==
  ASSUME NEW d, ImageOK(d), HistoryOK(d), NEW c \in StoredClaims(d)
  PROVE  /\ LatestRow(d.history[c]) \in d.history[c]
         /\ IsLast(LatestRow(d.history[c]), d.history[c])
         /\ LatestRow(d.history[c]).at \in Nat
         /\ LatestRow(d.history[c]).status = d.status[c]
<1> DEFINE rows == d.history[c]
<1>1. c \in ClaimIds /\ rows \subseteq HistoryRows
  BY ImageFields DEF StoredClaims
<1>2. PICK r \in rows : r.status = d.status[c] /\ IsLast(r, rows)
  BY DEF HistoryOK, StoredClaims
<1>3. \A q \in rows : q.at \in Nat
  BY <1>1 DEF HistoryRows
<1>4. \A q \in rows : q.at <= r.at
  BY <1>2, <1>3 DEF IsLast
<1>5. /\ LatestRow(rows) \in rows
      /\ \A q \in rows : q.at <= LatestRow(rows).at
  BY <1>4 DEF LatestRow
<1>6. LatestRow(rows) = r
  BY <1>2, <1>3, <1>5 DEF IsLast
<1> QED
  BY <1>2, <1>3, <1>6

\* A change is recorded after every row of its claim.
LEMMA ChangeComesLast ==
  ASSUME NEW d, ImageOK(d), HistoryOK(d), NEW c \in StoredClaims(d),
         NEW at \in Nat
  PROVE  /\ ChangeTime(d, c, at) \in Nat
         /\ at <= ChangeTime(d, c, at)
         /\ \A q \in d.history[c] : q.at < ChangeTime(d, c, at)
<1> DEFINE latest == LatestRow(d.history[c]).at
<1>1. latest \in Nat
  BY LatestRowIsLast
<1>2. \A q \in d.history[c] : q.at \in Nat
  BY ImageFields DEF StoredClaims, HistoryRows
<1>3. \A q \in d.history[c] : q.at <= latest
  BY <1>1, <1>2, LatestRowIsLast DEF IsLast
<1>4. ChangeTime(d, c, at) = IF at <= latest THEN latest + 1 ELSE at
  BY DEF ChangeTime
<1> QED
  BY <1>1, <1>2, <1>3, <1>4

-----------------------------------------------------------------------------
(* set_claim_status.                                                       *)

\* A status change asked of some stored claims.
Targets(d) ==
  UNION {[S -> [status : ClaimStatuses, at : Nat]] : S \in SUBSET StoredClaims(d)}

\* What SetClaimStatuses leaves alone, and what becomes of the rest.
LEMMA SetClaimStatusesFields ==
  ASSUME NEW d, ImageOK(d), NEW target
  PROVE  /\ SetClaimStatuses(d, target).evidence = d.evidence
         /\ SetClaimStatuses(d, target).claims = d.claims
         /\ SetClaimStatuses(d, target).contradictions = d.contradictions
         /\ \A c \in ClaimIds \ Changed(d, target) :
              /\ SetClaimStatuses(d, target).status[c] = d.status[c]
              /\ SetClaimStatuses(d, target).history[c] = d.history[c]
         /\ \A c \in ClaimIds \intersect Changed(d, target) :
              /\ SetClaimStatuses(d, target).status[c] = target[c].status
              /\ SetClaimStatuses(d, target).history[c]
                   = d.history[c] \union {NewRow(d, c, target[c])}
         /\ SetClaimStatuses(d, target).audit = d.audit \union
              {Event("claim.status_changed", c, target[c].status,
                     NewRow(d, c, target[c]).at) : c \in Changed(d, target)}
  BY DEF ImageOK, SetClaimStatuses

\* The row of a change has its type, and comes after the rows of its claim.
LEMMA NewRowType ==
  ASSUME NEW d, ImageOK(d), HistoryOK(d), NEW target \in Targets(d),
         NEW c \in Changed(d, target)
  PROVE  /\ c \in StoredClaims(d)
         /\ target[c].status \in ClaimStatuses
         /\ target[c].at \in Nat
         /\ NewRow(d, c, target[c]) \in HistoryRows
         /\ NewRow(d, c, target[c]).status = target[c].status
         /\ \A q \in d.history[c] : q.at < NewRow(d, c, target[c]).at
<1>1. PICK S \in SUBSET StoredClaims(d) :
        target \in [S -> [status : ClaimStatuses, at : Nat]]
  BY DEF Targets
<1>2. c \in S /\ target[c] \in [status : ClaimStatuses, at : Nat]
  BY <1>1 DEF Changed
<1>3. c \in StoredClaims(d) /\ target[c].at \in Nat
  BY <1>1, <1>2
<1>4. /\ ChangeTime(d, c, target[c].at) \in Nat
      /\ \A q \in d.history[c] : q.at < ChangeTime(d, c, target[c].at)
  BY <1>3, ChangeComesLast
<1> QED
  BY <1>2, <1>3, <1>4 DEF NewRow, HistoryRows

\* set_claim_status keeps the types of the tables.
LEMMA SetClaimStatusesType ==
  ASSUME NEW d, ImageOK(d), HistoryOK(d), NEW target \in Targets(d)
  PROVE  ImageOK(SetClaimStatuses(d, target))
<1> DEFINE status == [c \in ClaimIds |->
             IF c \in Changed(d, target) THEN target[c].status ELSE d.status[c]]
           history == [c \in ClaimIds |->
             IF c \in Changed(d, target)
             THEN d.history[c] \union {NewRow(d, c, target[c])}
             ELSE d.history[c]]
           events == {Event("claim.status_changed", c, target[c].status,
                            NewRow(d, c, target[c]).at) :
                        c \in Changed(d, target)}
<1>1. status \in [ClaimIds -> ClaimStatuses \union {Absent}]
  BY ImageFields, NewRowType
<1>2. history \in [ClaimIds -> SUBSET HistoryRows]
  <2>1. \A c \in ClaimIds : d.history[c] \in SUBSET HistoryRows
    BY ImageFields
  <2>2. \A c \in Changed(d, target) : NewRow(d, c, target[c]) \in HistoryRows
    BY NewRowType
  <2> QED
    BY <2>1, <2>2
<1>3. \A c \in Changed(d, target) :
        Event("claim.status_changed", c, target[c].status,
              NewRow(d, c, target[c]).at) \in AuditEvents
  BY NewRowType DEF Event, AuditEvents, HistoryRows, StoredClaims
<1>4. d.audit \union events \in SUBSET AuditEvents
  BY <1>3, ImageFields
<1>5. SetClaimStatuses(d, target) =
        [d EXCEPT !.status = status, !.history = history,
                  !.audit = d.audit \union events]
  BY DEF SetClaimStatuses, ImageOK
<1> HIDE DEF status, history, events
<1> QED
  BY <1>1, <1>2, <1>4, <1>5 DEF ImageOK

\* set_claim_status keeps every history ordered and ending with the status.
LEMMA SetClaimStatusesHistory ==
  ASSUME NEW d, ImageOK(d), HistoryOK(d), NEW target \in Targets(d)
  PROVE  HistoryOK(SetClaimStatuses(d, target))
<1> DEFINE n == SetClaimStatuses(d, target)
<1> SUFFICES ASSUME NEW c \in ClaimIds
             PROVE  /\ (n.claims[c] = Absent) = (n.status[c] = Absent)
                    /\ n.claims[c] = Absent => n.history[c] = {}
                    /\ n.claims[c] # Absent =>
                         /\ n.claims[c].id = c
                         /\ \E r \in n.history[c] :
                              /\ r.at = n.claims[c].asserted
                              /\ IsFirst(r, n.history[c])
                         /\ \E r \in n.history[c] :
                              /\ r.status = n.status[c]
                              /\ IsLast(r, n.history[c])
                         /\ \A q, r \in n.history[c] : q.at = r.at => q = r
  BY DEF HistoryOK
<1>1. CASE c \notin Changed(d, target)
  <2>1. n.status[c] = d.status[c] /\ n.history[c] = d.history[c]
        /\ n.claims[c] = d.claims[c]
    BY <1>1, SetClaimStatusesFields
  <2> QED
    BY <2>1 DEF HistoryOK
<1>2. CASE c \in Changed(d, target)
  <2> DEFINE row == NewRow(d, c, target[c])
  <2>1. /\ n.status[c] = row.status /\ n.history[c] = d.history[c] \union {row}
        /\ n.claims[c] = d.claims[c]
    BY <1>2, SetClaimStatusesFields, NewRowType
  <2>2. /\ d.claims[c] # Absent /\ row.status # Absent /\ row.at \in Nat
        /\ \A q \in d.history[c] : q.at \in Nat /\ q.at < row.at
    BY <1>2, NewRowType, ImageFields, LedgerAssumption
       DEF StoredClaims, HistoryRows
  <2>3. PICK r \in d.history[c] :
          r.at = d.claims[c].asserted /\ IsFirst(r, d.history[c])
    BY <2>2 DEF HistoryOK
  <2>4. r \in n.history[c] /\ IsFirst(r, n.history[c])
    BY <2>1, <2>2, <2>3 DEF IsFirst
  <2>5. row \in n.history[c] /\ IsLast(row, n.history[c])
    BY <2>1, <2>2 DEF IsLast
  <2>6. \A q, s \in n.history[c] : q.at = s.at => q = s
    BY <2>1, <2>2 DEF HistoryOK
  <2> QED
    BY <2>1, <2>2, <2>3, <2>4, <2>5, <2>6 DEF HistoryOK
<1> QED
  BY <1>1, <1>2

-----------------------------------------------------------------------------
(* What the parts of an image's soundness look at.                         *)

\* The histories: the claims, the statuses and the rows.
LEMMA HistoryFrame ==
  ASSUME NEW d, NEW n, n.claims = d.claims, n.status = d.status,
         n.history = d.history, HistoryOK(d)
  PROVE  HistoryOK(n)
  BY DEF HistoryOK

\* The support: the claims and the evidence.
LEMMA SupportFrame ==
  ASSUME NEW d, NEW n, n.claims = d.claims, n.evidence = d.evidence,
         SupportOK(d)
  PROVE  SupportOK(n)
  BY DEF SupportOK, StoredClaims, StoredEvidence

\* The contradictions: their records and the claims.
LEMMA ContradictionsFrame ==
  ASSUME NEW d, NEW n, n.claims = d.claims,
         n.contradictions = d.contradictions, ContradictionsOK(d)
  PROVE  ContradictionsOK(n)
  BY DEF ContradictionsOK, StoredClaims, StoredContradictions

\* All that is proved of an image: the inductive invariant is that it holds of
\* both images.
Sound(d) == ImageOK(d) /\ HistoryOK(d) /\ SupportOK(d) /\ ContradictionsOK(d)

\* The image new may follow the image old in the committed history: the body of
\* CommittedIsFinal.
Follows(old, new) ==
  /\ \A e \in StoredEvidence(old) : new.evidence[e] = old.evidence[e]
  /\ \A c \in StoredClaims(old) :
       /\ new.claims[c] = old.claims[c]
       /\ old.history[c] \subseteq new.history[c]
       /\ \A q \in old.history[c] :
            \A r \in new.history[c] \ old.history[c] : q.at < r.at
  /\ \A p \in StoredContradictions(old) :
       old.contradictions[p].status # "open" =>
         new.contradictions[p] = old.contradictions[p]
  /\ old.audit \subseteq new.audit

\* An image follows itself.
LEMMA FollowsItself ==
  ASSUME NEW d
  PROVE  Follows(d, d)
  BY DEF Follows

\* What follows what follows an image follows it.
LEMMA FollowsTransitive ==
  ASSUME NEW d1, NEW d2, NEW d3, Follows(d1, d2), Follows(d2, d3)
  PROVE  Follows(d1, d3)
<1>1. \A e \in StoredEvidence(d1) : d3.evidence[e] = d1.evidence[e]
  BY DEF Follows, StoredEvidence
<1>2. \A c \in StoredClaims(d1) :
        /\ c \in StoredClaims(d2)
        /\ d3.claims[c] = d1.claims[c]
        /\ d1.history[c] \subseteq d2.history[c]
        /\ d2.history[c] \subseteq d3.history[c]
  BY DEF Follows, StoredClaims
<1>3. ASSUME NEW c \in StoredClaims(d1), NEW q \in d1.history[c],
             NEW r \in d3.history[c] \ d1.history[c]
      PROVE  q.at < r.at
  <2>1. CASE r \in d2.history[c]
    BY <1>3, <2>1 DEF Follows
  <2>2. CASE r \notin d2.history[c]
    BY <1>2, <1>3, <2>2 DEF Follows
  <2> QED
    BY <2>1, <2>2
<1>4. \A p \in StoredContradictions(d1) :
        d1.contradictions[p].status # "open" =>
          d3.contradictions[p] = d1.contradictions[p]
  BY DEF Follows, StoredContradictions
<1>5. d1.audit \subseteq d3.audit
  BY DEF Follows
<1> QED
  BY <1>1, <1>2, <1>3, <1>4, <1>5 DEF Follows

\* set_claim_status keeps an image sound and only adds to it.
LEMMA SetClaimStatusesSound ==
  ASSUME NEW d, Sound(d), NEW target \in Targets(d)
  PROVE  /\ Sound(SetClaimStatuses(d, target))
         /\ Follows(d, SetClaimStatuses(d, target))
<1> DEFINE n == SetClaimStatuses(d, target)
<1> USE DEF Sound
<1>1. ImageOK(n) /\ HistoryOK(n)
  BY SetClaimStatusesType, SetClaimStatusesHistory
<1>2. /\ n.claims = d.claims /\ n.evidence = d.evidence
      /\ n.contradictions = d.contradictions
      /\ d.audit \subseteq n.audit
  BY SetClaimStatusesFields
<1>3. SupportOK(n) /\ ContradictionsOK(n)
  BY <1>2, SupportFrame, ContradictionsFrame
<1>4. ASSUME NEW c \in StoredClaims(d)
      PROVE  /\ d.history[c] \subseteq n.history[c]
             /\ \A q \in d.history[c] :
                  \A r \in n.history[c] \ d.history[c] : q.at < r.at
  <2>1. c \in ClaimIds
    BY DEF StoredClaims
  <2>2. CASE c \in Changed(d, target)
    <3>1. n.history[c] = d.history[c] \union {NewRow(d, c, target[c])}
      BY <2>1, <2>2, SetClaimStatusesFields
    <3>2. \A q \in d.history[c] : q.at < NewRow(d, c, target[c]).at
      BY <2>2, NewRowType
    <3> QED
      BY <3>1, <3>2
  <2>3. CASE c \notin Changed(d, target)
    BY <2>1, <2>3, SetClaimStatusesFields
  <2> QED
    BY <2>2, <2>3
<1>5. Follows(d, n)
  <2> HIDE DEF n
  <2> QED
    BY <1>2, <1>4 DEF Follows
<1> QED
  BY <1>1, <1>3, <1>5

-----------------------------------------------------------------------------
(* The other store methods.                                                *)

\* What Close leaves alone, and what becomes of the rest.
LEMMA CloseFields ==
  ASSUME NEW d, ImageOK(d), NEW pair \in StoredContradictions(d),
         NEW status \in ContradictionStatuses,
         NEW accepted \in ClaimIds \union {NoVerdict}, NEW now,
         NEW n, n = Close(d, pair, status, accepted, now)
  PROVE  /\ n.claims = d.claims /\ n.status = d.status
         /\ n.history = d.history /\ n.evidence = d.evidence
         /\ n.audit = d.audit \union
              {Event("contradiction.resolved", pair, status, now)}
         /\ \A p \in Pairs \ {pair} :
              n.contradictions[p] = d.contradictions[p]
         /\ n.contradictions[pair] \in ContradictionRecords
         /\ n.contradictions[pair].status = status
         /\ n.contradictions[pair].accepted = accepted
<1> DEFINE record == [d.contradictions[pair] EXCEPT !.status = status,
                                                    !.accepted = accepted]
<1>1. pair \in Pairs /\ d.contradictions[pair] \in ContradictionRecords
  BY ImageFields DEF StoredContradictions
<1>2. /\ record \in ContradictionRecords
      /\ record.status = status /\ record.accepted = accepted
  BY <1>1 DEF ContradictionRecords
<1>3. n = [d EXCEPT
             !.contradictions = [d.contradictions EXCEPT ![pair] = record],
             !.audit = d.audit \union
               {Event("contradiction.resolved", pair, status, now)}]
  BY <1>1 DEF Close, ImageOK
<1> HIDE DEF record
<1> QED
  BY <1>1, <1>2, <1>3 DEF ImageOK

\* A contradiction is closed once, and for good.
LEMMA CloseSound ==
  ASSUME NEW d, Sound(d), NEW pair \in StoredContradictions(d),
         d.contradictions[pair].status = "open",
         NEW status, NEW accepted, NEW now \in Nat,
         \/ status = "resolved" /\ accepted \in pair
         \/ status = "dismissed" /\ accepted = NoVerdict
  PROVE  /\ Sound(Close(d, pair, status, accepted, now))
         /\ Follows(d, Close(d, pair, status, accepted, now))
<1> DEFINE n == Close(d, pair, status, accepted, now)
           old == d.contradictions[pair]
           event == Event("contradiction.resolved", pair, status, now)
<1> USE DEF Sound
<1>1. /\ pair \in Pairs /\ pair \subseteq ClaimIds
      /\ old \in ContradictionRecords
      /\ status \in ContradictionStatuses
      /\ accepted \in ClaimIds \union {NoVerdict}
  BY ImageFields, PairMembers DEF StoredContradictions, ContradictionStatuses
<1>2. event \in AuditEvents
  BY <1>1 DEF event, Event, AuditEvents
<1>3. [old EXCEPT !.status = status, !.accepted = accepted]
        \in ContradictionRecords
  BY <1>1 DEF ContradictionRecords
<1>4. n = [d EXCEPT
             !.contradictions = [d.contradictions EXCEPT
               ![pair] = [old EXCEPT !.status = status, !.accepted = accepted]],
             !.audit = d.audit \union {event}]
  BY <1>1 DEF Close, ImageOK
<1>5. /\ n.claims = d.claims /\ n.status = d.status /\ n.history = d.history
      /\ n.evidence = d.evidence
      /\ n.audit = d.audit \union {event}
      /\ \A p \in Pairs \ {pair} : n.contradictions[p] = d.contradictions[p]
      /\ n.contradictions[pair] =
           [old EXCEPT !.status = status, !.accepted = accepted]
  BY <1>1, <1>4 DEF ImageOK
<1>6. ImageOK(n)
  <2> DEFINE table == [d.contradictions EXCEPT
               ![pair] = [old EXCEPT !.status = status, !.accepted = accepted]]
             events == d.audit \union {event}
  <2>1. table \in [Pairs -> ContradictionRecords \union {Absent}]
    BY <1>1, <1>3, ImageFields
  <2>2. events \in SUBSET AuditEvents
    BY <1>2, ImageFields
  <2>3. n = [d EXCEPT !.contradictions = table, !.audit = events]
    BY <1>4
  <2> HIDE DEF table, events, n
  <2> QED
    BY <2>1, <2>2, <2>3 DEF ImageOK
<1> HIDE DEF n, event
<1>7. HistoryOK(n) /\ SupportOK(n)
  BY <1>5, HistoryFrame, SupportFrame
<1>8. n.contradictions[pair].status = status
      /\ n.contradictions[pair].accepted = accepted
  BY <1>1, <1>5 DEF ContradictionRecords
<1>9. /\ StoredContradictions(n) = StoredContradictions(d)
      /\ StoredClaims(n) = StoredClaims(d)
  BY <1>1, <1>3, <1>5, LedgerAssumption DEF StoredContradictions, StoredClaims
<1>10. NoVerdict \notin pair
  BY <1>1, LedgerAssumption
<1>11. ContradictionsOK(n)
  <2> SUFFICES ASSUME NEW p \in StoredContradictions(d)
               PROVE  /\ p \subseteq StoredClaims(d)
                      /\ \A c, e \in p : c # e =>
                           Detect(d.claims[c], "active", d.claims[e], "active")
                             # Agreement
                      /\ IF n.contradictions[p].status = "resolved"
                         THEN n.contradictions[p].accepted \in p
                         ELSE n.contradictions[p].accepted = NoVerdict
    BY <1>5, <1>9 DEF ContradictionsOK
  <2>1. CASE p = pair
    BY <1>8, <1>10, <2>1 DEF ContradictionsOK
  <2>2. CASE p # pair
    BY <1>5, <2>2 DEF ContradictionsOK, StoredContradictions
  <2> QED
    BY <2>1, <2>2
<1>12. Follows(d, n)
  BY <1>5 DEF Follows, StoredContradictions
<1> QED
  BY <1>6, <1>7, <1>11, <1>12 DEF n

\* What AddClaim leaves alone, and what becomes of the rest.
LEMMA AddClaimFields ==
  ASSUME NEW d, ImageOK(d), NEW c \in ClaimRecords,
         NEW n, n = AddClaim(d, c)
  PROVE  /\ n.evidence = d.evidence /\ n.contradictions = d.contradictions
         /\ n.audit = d.audit \union
              {Event("claim.created", c.id, c.status, c.asserted)}
         /\ n.claims[c.id] = c /\ n.status[c.id] = c.status
         /\ n.history[c.id] = {[at |-> c.asserted, status |-> c.status]}
         /\ \A e \in ClaimIds \ {c.id} :
              /\ n.claims[e] = d.claims[e]
              /\ n.status[e] = d.status[e]
              /\ n.history[e] = d.history[e]
<1>1. c.id \in ClaimIds
  BY DEF ClaimRecords
<1>2. n = [d EXCEPT
        !.claims = [d.claims EXCEPT ![c.id] = c],
        !.status = [d.status EXCEPT ![c.id] = c.status],
        !.history = [d.history EXCEPT
          ![c.id] = {[at |-> c.asserted, status |-> c.status]}],
        !.audit = d.audit \union
          {Event("claim.created", c.id, c.status, c.asserted)}]
  BY DEF AddClaim, ImageOK
<1> QED
  BY <1>1, <1>2 DEF ImageOK

\* add_claim of a claim that is new, supported, and restates a stored one if any.
LEMMA AddClaimSound ==
  ASSUME NEW d, Sound(d), NEW c \in ClaimRecords,
         c.id \notin StoredClaims(d),
         \A e \in StoredClaims(d) : Fingerprint(d.claims[e]) # Fingerprint(c),
         Supported(d, c), SupersedesSoundly(d, c)
  PROVE  /\ Sound(AddClaim(d, c))
         /\ Follows(d, AddClaim(d, c))
         /\ StoredClaims(AddClaim(d, c)) = StoredClaims(d) \union {c.id}
         /\ AddClaim(d, c).claims[c.id] = c
         /\ \A e \in StoredClaims(d) :
              /\ AddClaim(d, c).claims[e] = d.claims[e]
              /\ AddClaim(d, c).status[e] = d.status[e]
         /\ AddClaim(d, c).contradictions = d.contradictions
<1> DEFINE n == AddClaim(d, c)
           row == [at |-> c.asserted, status |-> c.status]
           event == Event("claim.created", c.id, c.status, c.asserted)
<1> USE DEF Sound
<1>1. /\ c.id \in ClaimIds /\ c.status \in ClaimStatuses /\ c.asserted \in Nat
      /\ c.supersedes \in ClaimIds \union {NoClaim}
      /\ c # Absent /\ c.status # Absent
  BY LedgerAssumption DEF ClaimRecords
<1>2. row \in HistoryRows /\ event \in AuditEvents
  BY <1>1 DEF HistoryRows, event, Event, AuditEvents
<1>3. n = [d EXCEPT
             !.claims = [d.claims EXCEPT ![c.id] = c],
             !.status = [d.status EXCEPT ![c.id] = c.status],
             !.history = [d.history EXCEPT ![c.id] = {row}],
             !.audit = d.audit \union {event}]
  BY DEF AddClaim, ImageOK
<1>4. /\ n.evidence = d.evidence /\ n.contradictions = d.contradictions
      /\ n.audit = d.audit \union {event}
      /\ n.claims[c.id] = c /\ n.status[c.id] = c.status
      /\ n.history[c.id] = {row}
      /\ \A e \in ClaimIds \ {c.id} :
           /\ n.claims[e] = d.claims[e]
           /\ n.status[e] = d.status[e]
           /\ n.history[e] = d.history[e]
  BY AddClaimFields
<1>5. ImageOK(n)
  <2> DEFINE claims == [d.claims EXCEPT ![c.id] = c]
             status == [d.status EXCEPT ![c.id] = c.status]
             history == [d.history EXCEPT ![c.id] = {row}]
             events == d.audit \union {event}
  <2>1. claims \in [ClaimIds -> ClaimRecords \union {Absent}]
    BY <1>1, ImageFields
  <2>2. status \in [ClaimIds -> ClaimStatuses \union {Absent}]
    BY <1>1, ImageFields
  <2>3. history \in [ClaimIds -> SUBSET HistoryRows]
    BY <1>1, <1>2, ImageFields
  <2>4. events \in SUBSET AuditEvents
    BY <1>2, ImageFields
  <2>5. n = [d EXCEPT !.claims = claims, !.status = status,
                      !.history = history, !.audit = events]
    BY <1>3
  <2> HIDE DEF claims, status, history, events, n
  <2> QED
    BY <2>1, <2>2, <2>3, <2>4, <2>5 DEF ImageOK
<1> HIDE DEF n, event
<1>6. StoredClaims(n) = StoredClaims(d) \union {c.id}
  BY <1>1, <1>4 DEF StoredClaims
<1>7. HistoryOK(n)
  <2> SUFFICES ASSUME NEW e \in ClaimIds
               PROVE  /\ (n.claims[e] = Absent) = (n.status[e] = Absent)
                      /\ n.claims[e] = Absent => n.history[e] = {}
                      /\ n.claims[e] # Absent =>
                           /\ n.claims[e].id = e
                           /\ \E r \in n.history[e] :
                                /\ r.at = n.claims[e].asserted
                                /\ IsFirst(r, n.history[e])
                           /\ \E r \in n.history[e] :
                                /\ r.status = n.status[e]
                                /\ IsLast(r, n.history[e])
                           /\ \A q, r \in n.history[e] : q.at = r.at => q = r
    BY DEF HistoryOK
  <2>1. CASE e = c.id
    BY <1>1, <1>4, <2>1 DEF IsFirst, IsLast
  <2>2. CASE e # c.id
    BY <1>4, <2>2 DEF HistoryOK
  <2> QED
    BY <2>1, <2>2
<1>8. SupportOK(n)
  <2>1. ASSUME NEW e \in StoredClaims(d)
        PROVE  n.claims[e] = d.claims[e] /\ e # c.id
    BY <1>4 DEF StoredClaims
  <2>2. StoredEvidence(n) = StoredEvidence(d)
    BY <1>4 DEF StoredEvidence
  <2>3. ASSUME NEW k \in StoredClaims(n), NEW e \in n.claims[k].evidence
        PROVE  /\ e \in StoredEvidence(n)
               /\ n.claims[k].confidence <= n.evidence[e].trust
               /\ IF TrustClientTimestamps
                  THEN n.evidence[e].observed <= n.claims[k].asserted
                  ELSE n.evidence[e].ingested <= n.claims[k].asserted
    <3>1. CASE k = c.id
      BY <1>4, <2>2, <2>3, <3>1 DEF Supported, KnowledgeTime
    <3>2. CASE k \in StoredClaims(d)
      BY <1>4, <2>1, <2>2, <2>3, <3>2 DEF SupportOK
    <3> QED
      BY <1>6, <2>3, <3>1, <3>2
  <2>4. ASSUME NEW k \in StoredClaims(n), NEW e \in StoredClaims(n),
               Fingerprint(n.claims[k]) = Fingerprint(n.claims[e])
        PROVE  k = e
    BY <1>4, <1>6, <2>1, <2>4 DEF SupportOK
  <2>5. ASSUME NEW k \in StoredClaims(n), n.claims[k].supersedes # NoClaim
        PROVE  /\ n.claims[k].supersedes \in StoredClaims(n) \ {k}
               /\ n.claims[n.claims[k].supersedes].key = n.claims[k].key
    <3>1. CASE k = c.id
      BY <1>4, <1>6, <2>1, <2>5, <3>1 DEF SupersedesSoundly
    <3>2. CASE k \in StoredClaims(d)
      BY <1>6, <2>1, <2>5, <3>2 DEF SupportOK
    <3> QED
      BY <1>6, <2>5, <3>1, <3>2
  <2> QED
    BY <2>3, <2>4, <2>5 DEF SupportOK
<1>9. ContradictionsOK(n)
  <2>1. StoredContradictions(n) = StoredContradictions(d)
    BY <1>4 DEF StoredContradictions
  <2>2. \A p \in StoredContradictions(d) : \A e \in p :
          e \in StoredClaims(d) /\ n.claims[e] = d.claims[e]
    BY <1>4 DEF ContradictionsOK, StoredClaims
  <2> QED
    BY <1>4, <1>6, <2>1, <2>2 DEF ContradictionsOK
<1>10. Follows(d, n)
  BY <1>4 DEF Follows, StoredClaims
<1> QED
  BY <1>4, <1>5, <1>6, <1>7, <1>8, <1>9, <1>10 DEF n, StoredClaims

\* The record of a disagreement has its type.
LEMMA ContradictionType ==
  ASSUME NEW d, NEW c \in ClaimRecords, NEW e, d.claims[e] \in ClaimRecords,
         Detect(c, c.status, d.claims[e], d.status[e]) # Agreement
  PROVE  Contradiction(d, c, e) \in ContradictionRecords
<1>1. Detect(c, c.status, d.claims[e], d.status[e]) \in Severities
  BY DetectAnswers
<1>2. DetectedAt(c, d.claims[e]) \in Nat
  BY DetectedAtNat DEF ClaimRecords
<1> QED
  BY <1>1, <1>2 DEF Contradiction, ContradictionRecords, ContradictionStatuses

\* What AddContradictions leaves alone, and what becomes of the records; none of
\* the claims of rivals is the new one.
LEMMA AddContradictionsFields ==
  ASSUME NEW d, ImageOK(d), NEW c, NEW rivals, c.id \notin rivals,
         NEW n, n = AddContradictions(d, c, rivals)
  PROVE  /\ n.claims = d.claims /\ n.status = d.status
         /\ n.history = d.history /\ n.evidence = d.evidence
         /\ \A p \in Pairs :
              /\ \A e \in rivals : p = {c.id, e} =>
                   n.contradictions[p] = Contradiction(d, c, e)
              /\ (\A e \in rivals : p # {c.id, e}) =>
                   n.contradictions[p] = d.contradictions[p]
<1>1. /\ n.claims = d.claims /\ n.status = d.status /\ n.history = d.history
      /\ n.evidence = d.evidence
      /\ \A p \in Pairs : n.contradictions[p] =
           IF \E e \in rivals : p = {c.id, e}
           THEN Contradiction(d, c, CHOOSE e \in rivals : p = {c.id, e})
           ELSE d.contradictions[p]
  BY DEF AddContradictions, ImageOK
<1>2. ASSUME NEW p \in Pairs, NEW e \in rivals, p = {c.id, e}
      PROVE  n.contradictions[p] = Contradiction(d, c, e)
  <2>1. (CHOOSE f \in rivals : p = {c.id, f}) = e
    BY <1>2
  <2> QED
    BY <1>1, <1>2, <2>1
<1>3. ASSUME NEW p \in Pairs, \A e \in rivals : p # {c.id, e}
      PROVE  n.contradictions[p] = d.contradictions[p]
  BY <1>1, <1>3
<1> QED
  BY <1>1, <1>2, <1>3

\* add_contradiction, for claims that disagree with the new one and that have no
\* record with it yet.
LEMMA AddContradictionsSound ==
  ASSUME NEW d, Sound(d), NEW c \in ClaimRecords,
         c.id \in StoredClaims(d), d.claims[c.id] = c,
         NEW rivals \in SUBSET StoredClaims(d),
         \A e \in rivals :
           /\ Detect(c, c.status, d.claims[e], d.status[e]) # Agreement
           /\ d.contradictions[{c.id, e}] = Absent
  PROVE  /\ Sound(AddContradictions(d, c, rivals))
         /\ Follows(d, AddContradictions(d, c, rivals))
         /\ StoredClaims(AddContradictions(d, c, rivals)) = StoredClaims(d)
<1> DEFINE n == AddContradictions(d, c, rivals)
           table == [p \in Pairs |->
             IF \E e \in rivals : p = {c.id, e}
             THEN Contradiction(d, c, CHOOSE e \in rivals : p = {c.id, e})
             ELSE d.contradictions[p]]
           events == d.audit \union
             {Event("contradiction.created", {c.id, e}, "open",
                    DetectedAt(c, d.claims[e])) : e \in rivals}
<1> USE DEF Sound
<1>1. ASSUME NEW e \in rivals
      PROVE  /\ e \in ClaimIds /\ d.claims[e] \in ClaimRecords
             /\ d.claims[e].id = e /\ e # c.id
             /\ {c.id, e} \in Pairs
             /\ DetectedAt(c, d.claims[e]) \in Nat
             /\ Detect(c, "active", d.claims[e], "active") # Agreement
             /\ Detect(d.claims[e], "active", c, "active") # Agreement
  <2>1. e \in ClaimIds /\ d.claims[e] \in ClaimRecords /\ d.claims[e].id = e
    BY <1>1, ImageFields DEF StoredClaims, HistoryOK
  <2>2. Detect(c, c.status, d.claims[e], d.status[e]) # Agreement
    BY <1>1
  <2>3. e # c.id
    BY <2>1, <2>2, DetectAnswers
  <2>4. {c.id, e} \in Pairs
    BY <2>1, <2>3, PairOf DEF StoredClaims
  <2>5. c.asserted \in Nat /\ d.claims[e].asserted \in Nat
    BY <2>1 DEF ClaimRecords
  <2>6. DetectedAt(c, d.claims[e]) \in Nat
    BY <2>5, DetectedAtNat
  <2>7. Detect(c, "active", d.claims[e], "active") # Agreement
    BY <2>2, DetectStatus
  <2>8. Detect(d.claims[e], "active", c, "active") # Agreement
    BY <2>1, <2>7, DetectSymmetric
  <2> QED
    BY <2>1, <2>3, <2>4, <2>6, <2>7, <2>8
<1>2. ASSUME NEW e \in rivals
      PROVE  /\ Contradiction(d, c, e) \in ContradictionRecords
             /\ Contradiction(d, c, e).status = "open"
             /\ Contradiction(d, c, e).accepted = NoVerdict
  BY <1>1, <1>2, ContradictionType DEF Contradiction
<1>3. ASSUME NEW p \in Pairs, NEW e \in rivals, p = {c.id, e}
      PROVE  table[p] = Contradiction(d, c, e)
  <2>1. (CHOOSE f \in rivals : p = {c.id, f}) = e
    BY <1>1, <1>3
  <2> QED
    BY <1>3, <2>1
<1>4. \A p \in Pairs : (\A e \in rivals : p # {c.id, e}) =>
        table[p] = d.contradictions[p]
  OBVIOUS
<1>5. table \in [Pairs -> ContradictionRecords \union {Absent}]
  <2>1. \A p \in Pairs : table[p] \in ContradictionRecords \union {Absent}
    BY <1>2, <1>3, <1>4, ImageFields
  <2> QED
    BY <2>1
<1>6. events \in SUBSET AuditEvents
  <2>1. \A e \in rivals :
          Event("contradiction.created", {c.id, e}, "open",
                DetectedAt(c, d.claims[e])) \in AuditEvents
    BY <1>1 DEF Event, AuditEvents, ContradictionStatuses
  <2> QED
    BY <2>1, ImageFields
<1>7. d.audit \subseteq events
  OBVIOUS
<1>8. n = [d EXCEPT !.contradictions = table, !.audit = events]
  BY DEF AddContradictions, ImageOK
<1> HIDE DEF n, table, events
<1>9. /\ n.claims = d.claims /\ n.status = d.status /\ n.history = d.history
      /\ n.evidence = d.evidence /\ n.contradictions = table
      /\ n.audit = events
  BY <1>8 DEF ImageOK
<1>10. ImageOK(n)
  BY <1>5, <1>6, <1>8 DEF ImageOK
<1>11. HistoryOK(n) /\ SupportOK(n)
  BY <1>9, HistoryFrame, SupportFrame
<1>12. StoredClaims(n) = StoredClaims(d)
  BY <1>9 DEF StoredClaims
<1>13. ContradictionsOK(n)
  <2> SUFFICES ASSUME NEW p \in Pairs, n.contradictions[p] # Absent
               PROVE  /\ p \subseteq StoredClaims(d)
                      /\ \A k, e \in p : k # e =>
                           Detect(d.claims[k], "active", d.claims[e], "active")
                             # Agreement
                      /\ IF n.contradictions[p].status = "resolved"
                         THEN n.contradictions[p].accepted \in p
                         ELSE n.contradictions[p].accepted = NoVerdict
    BY <1>9, <1>12 DEF ContradictionsOK, StoredContradictions
  <2>1. ASSUME NEW e \in rivals, p = {c.id, e}
        PROVE  /\ p \subseteq StoredClaims(d)
               /\ \A k, l \in p : k # l =>
                    Detect(d.claims[k], "active", d.claims[l], "active")
                      # Agreement
               /\ n.contradictions[p].status = "open"
               /\ n.contradictions[p].accepted = NoVerdict
    BY <1>1, <1>2, <1>3, <1>9, <2>1
  <2>2. CASE \A e \in rivals : p # {c.id, e}
    BY <1>4, <1>9, <2>2 DEF ContradictionsOK, StoredContradictions
  <2> QED
    BY <2>1, <2>2
<1>14. \A p \in StoredContradictions(d) : n.contradictions[p] = d.contradictions[p]
  BY <1>4, <1>9 DEF StoredContradictions
<1>15. Follows(d, n)
  BY <1>7, <1>9, <1>14 DEF Follows
<1> QED
  BY <1>10, <1>11, <1>12, <1>13, <1>15 DEF n

\* What AddEvidence of a new document leaves alone, and what becomes of the rest.
LEMMA AddEvidenceFields ==
  ASSUME NEW d, ImageOK(d), NEW document \in EvidenceRecords, NEW now \in Nat,
         d.evidence[document.id] = Absent,
         NEW ingested,
         ingested = IF TrustClientTimestamps THEN document.ingested ELSE now,
         NEW n, n = AddEvidence(d, document, now)
  PROVE  /\ n.claims = d.claims /\ n.status = d.status
         /\ n.history = d.history /\ n.contradictions = d.contradictions
         /\ n.audit = d.audit \union
              {Event("evidence.ingested", document.id, "new", ingested)}
         /\ n.evidence[document.id] \in EvidenceRecords
         /\ SameDocument(n.evidence[document.id], document)
         /\ \A e \in EvidenceIds \ {document.id} :
              n.evidence[e] = d.evidence[e]
<1> DEFINE record == [document EXCEPT !.ingested = ingested]
<1>1. /\ document.id \in EvidenceIds /\ record \in EvidenceRecords
      /\ SameDocument(record, document)
  BY DEF EvidenceRecords, SameDocument
<1>2. n = [d EXCEPT
             !.evidence = [d.evidence EXCEPT ![document.id] = record],
             !.audit = d.audit \union
               {Event("evidence.ingested", document.id, "new", ingested)}]
  BY DEF AddEvidence, ImageOK
<1> HIDE DEF record
<1> QED
  BY <1>1, <1>2 DEF ImageOK

\* add_evidence of a document that is new or the same.
LEMMA AddEvidenceSound ==
  ASSUME NEW d, Sound(d), NEW document \in EvidenceRecords, NEW now \in Nat
  PROVE  /\ Sound(AddEvidence(d, document, now))
         /\ Follows(d, AddEvidence(d, document, now))
<1> DEFINE n == AddEvidence(d, document, now)
           e == document.id
           ingested == IF TrustClientTimestamps THEN document.ingested ELSE now
           record == [document EXCEPT !.ingested = ingested]
           table == [d.evidence EXCEPT ![e] = record]
           events == d.audit \union {Event("evidence.ingested", e, "new", ingested)}
<1> USE DEF Sound
<1>1. CASE d.evidence[e] # Absent
  BY <1>1, FollowsItself DEF AddEvidence
<1>2. CASE d.evidence[e] = Absent
  <2>1. e \in EvidenceIds /\ ingested \in Nat /\ record \in EvidenceRecords
    BY DEF EvidenceRecords
  <2>2. table \in [EvidenceIds -> EvidenceRecords \union {Absent}]
    BY <2>1, ImageFields
  <2>3. events \in SUBSET AuditEvents
    BY <2>1, ImageFields DEF Event, AuditEvents
  <2>4. n = [d EXCEPT !.evidence = table, !.audit = events]
    BY <1>2 DEF AddEvidence, ImageOK
  <2>5. /\ d.audit \subseteq events
        /\ \A f \in StoredEvidence(d) : table[f] = d.evidence[f]
    BY <1>2, ImageFields DEF StoredEvidence
  <2> HIDE DEF n, table, events
  <2>6. /\ n.claims = d.claims /\ n.status = d.status /\ n.history = d.history
        /\ n.evidence = table /\ n.contradictions = d.contradictions
        /\ n.audit = events
    BY <2>4 DEF ImageOK
  <2>7. ImageOK(n)
    BY <2>2, <2>3, <2>4 DEF ImageOK
  <2>8. HistoryOK(n) /\ ContradictionsOK(n)
    BY <2>6, HistoryFrame, ContradictionsFrame
  <2>9. \A f \in StoredEvidence(d) :
          f \in StoredEvidence(n) /\ n.evidence[f] = d.evidence[f]
    BY <2>5, <2>6 DEF StoredEvidence
  <2>10. SupportOK(n)
    BY <2>6, <2>9 DEF SupportOK, StoredClaims
  <2>11. Follows(d, n)
    BY <2>5, <2>6 DEF Follows
  <2> QED
    BY <2>7, <2>8, <2>10, <2>11 DEF n
<1> QED
  BY <1>1, <1>2

-----------------------------------------------------------------------------
(* ClaimLedger.record.                                                     *)

\* What the server stamps is not part of the fingerprint.
LEMMA StampedClaim ==
  ASSUME NEW c \in ClaimRecords, NEW now \in Nat
  PROVE  /\ Stamped(c, now) \in ClaimRecords
         /\ Stamped(c, now).id = c.id
         /\ Stamped(c, now).key = c.key
         /\ Stamped(c, now).supersedes = c.supersedes
         /\ Fingerprint(Stamped(c, now)) = Fingerprint(c)
<1> DEFINE s == Stamped(c, now)
<1>1. s \in ClaimRecords /\ s.id = c.id /\ s.key = c.key
      /\ s.supersedes = c.supersedes
  BY DEF Stamped, ClaimRecords, ClaimStatuses
<1>2. /\ DOMAIN s = DOMAIN c
      /\ \A f \in DOMAIN c \ {"id", "asserted", "status"} : s[f] = c[f]
  BY DEF Stamped, ClaimRecords
<1> QED
  BY <1>1, <1>2 DEF Fingerprint

\* A claim that is accepted and not stored already takes no identifier.
LEMMA FreshIdentifier ==
  ASSUME NEW d, NEW c, NEW now, AcceptsClaim(d, c, now), ~AlreadyStored(d, c)
  PROVE  c.id \notin StoredClaims(d)
  BY DEF AcceptsClaim, IdentifierTaken, AlreadyStored

\* The status changes that follow from a claim are changes of stored claims.
LEMMA ConsequencesType ==
  ASSUME NEW d, Sound(d), NEW c \in ClaimRecords,
         NEW rivals \in SUBSET StoredClaims(d), SupersedesSoundly(d, c),
         NEW n, StoredClaims(n) = StoredClaims(d) \union {c.id}
  PROVE  Consequences(d, c, rivals) \in Targets(n)
<1> DEFINE disputed == {e \in rivals : d.status[e] = "active"}
           self == IF rivals # {} /\ c.status = "active" THEN {c.id} ELSE {}
<1>1. /\ c.asserted \in Nat
      /\ \A e \in rivals : DetectedAt(c, d.claims[e]) \in Nat
  <2>1. c.asserted \in Nat
    BY DEF ClaimRecords
  <2>2. \A e \in rivals : d.claims[e] \in ClaimRecords
    BY ImageFields DEF Sound, StoredClaims
  <2>3. \A e \in rivals : d.claims[e].asserted \in Nat
    BY <2>2 DEF ClaimRecords
  <2> QED
    BY <2>1, <2>3, DetectedAtNat
<1>2. CASE c.supersedes = NoClaim
  <2>1. Consequences(d, c, rivals) =
          [e \in disputed \union self |->
            [status |-> "disputed",
             at |-> IF e = c.id THEN c.asserted ELSE DetectedAt(c, d.claims[e])]]
    BY <1>2 DEF Consequences
  <2>2. Consequences(d, c, rivals) \in
          [disputed \union self -> [status : ClaimStatuses, at : Nat]]
    BY <1>1, <2>1 DEF ClaimStatuses
  <2>3. disputed \union self \subseteq StoredClaims(n)
    OBVIOUS
  <2> QED
    BY <2>2, <2>3 DEF Targets
<1>3. CASE c.supersedes # NoClaim
  <2>1. Consequences(d, c, rivals) =
          [e \in disputed \union {c.supersedes} |->
            IF e = c.supersedes
            THEN [status |-> "superseded", at |-> c.asserted]
            ELSE [status |-> "disputed", at |-> DetectedAt(c, d.claims[e])]]
    BY <1>3 DEF Consequences
  <2>2. Consequences(d, c, rivals) \in
          [disputed \union {c.supersedes} -> [status : ClaimStatuses, at : Nat]]
    BY <1>1, <2>1 DEF ClaimStatuses
  <2>3. disputed \union {c.supersedes} \subseteq StoredClaims(n)
    BY <1>3 DEF SupersedesSoundly
  <2> QED
    BY <2>2, <2>3 DEF Targets
<1> QED
  BY <1>2, <1>3

\* The images record goes through for a claim c that is not stored already: c is
\* added, its contradictions are noted, and the statuses follow.
Noted(d, c) == AddContradictions(AddClaim(d, c), c, NewRivals(d, c))

Marked(d, c) ==
  SetClaimStatuses(Noted(d, c), Consequences(d, c, NewRivals(d, c)))

\* Each of these images is sound and follows the one before.
LEMMA RecordClaimImages ==
  ASSUME NEW d, Sound(d), NEW submitted \in ClaimRecords, NEW now \in Nat,
         AcceptsClaim(d, submitted, now), ~AlreadyStored(d, submitted),
         NEW c, c = Stamped(submitted, now)
  PROVE  /\ c \in ClaimRecords /\ c.id \in ClaimIds \ StoredClaims(d)
         /\ SupersedesSoundly(d, c)
         /\ Sound(AddClaim(d, c)) /\ Follows(d, AddClaim(d, c))
         /\ StoredClaims(AddClaim(d, c)) = StoredClaims(d) \union {c.id}
         /\ AddClaim(d, c).claims[c.id] = c
         /\ AddClaim(d, c).contradictions = d.contradictions
         /\ \A e \in StoredClaims(d) :
              /\ AddClaim(d, c).claims[e] = d.claims[e]
              /\ AddClaim(d, c).status[e] = d.status[e]
         /\ Sound(Noted(d, c)) /\ Follows(AddClaim(d, c), Noted(d, c))
         /\ StoredClaims(Noted(d, c)) = StoredClaims(d) \union {c.id}
         /\ Consequences(d, c, NewRivals(d, c)) \in Targets(Noted(d, c))
         /\ Sound(Marked(d, c)) /\ Follows(Noted(d, c), Marked(d, c))
         /\ RecordClaim(d, submitted, now) = Marked(d, c)
<1> DEFINE rivals == NewRivals(d, c)
           added == AddClaim(d, c)
<1>1. /\ c \in ClaimRecords
      /\ c.id = submitted.id /\ c.key = submitted.key
      /\ c.supersedes = submitted.supersedes
      /\ Fingerprint(c) = Fingerprint(submitted)
  BY StampedClaim
<1>2. c.id \in ClaimIds \ StoredClaims(d)
  BY <1>1, FreshIdentifier DEF ClaimRecords
<1>3. \A e \in StoredClaims(d) : Fingerprint(d.claims[e]) # Fingerprint(c)
  BY <1>1 DEF AlreadyStored
<1>4. Supported(d, c)
  BY DEF AcceptsClaim
<1>5. SupersedesSoundly(d, c)
  BY <1>1 DEF AcceptsClaim, SupersedesSoundly
<1>6. /\ Sound(added) /\ Follows(d, added)
      /\ StoredClaims(added) = StoredClaims(d) \union {c.id}
      /\ added.claims[c.id] = c
      /\ \A e \in StoredClaims(d) :
           added.claims[e] = d.claims[e] /\ added.status[e] = d.status[e]
      /\ added.contradictions = d.contradictions
  BY <1>1, <1>2, <1>3, <1>4, <1>5, AddClaimSound
<1>7. \A e \in rivals :
        /\ e \in StoredClaims(d)
        /\ Detect(c, c.status, d.claims[e], d.status[e]) # Agreement
        /\ d.contradictions[{c.id, e}] = Absent
  BY DEF NewRivals, Rivals
<1> HIDE DEF rivals, added
<1>8. /\ rivals \in SUBSET StoredClaims(added)
      /\ rivals \in SUBSET StoredClaims(d)
      /\ \A e \in rivals :
           /\ Detect(c, c.status, added.claims[e], added.status[e]) # Agreement
           /\ added.contradictions[{c.id, e}] = Absent
  BY <1>6, <1>7
<1>9. Noted(d, c) = AddContradictions(added, c, rivals)
  BY DEF Noted, added, rivals
<1>10. /\ Sound(Noted(d, c)) /\ Follows(added, Noted(d, c))
       /\ StoredClaims(Noted(d, c)) = StoredClaims(d) \union {c.id}
  <2> DEFINE m == AddContradictions(added, c, rivals)
  <2>1. Sound(m) /\ Follows(added, m) /\ StoredClaims(m) = StoredClaims(added)
    BY <1>1, <1>6, <1>8, AddContradictionsSound
  <2> HIDE DEF m
  <2> QED
    BY <1>6, <1>9, <2>1 DEF m
<1>11. Consequences(d, c, rivals) \in Targets(Noted(d, c))
  BY <1>1, <1>5, <1>8, <1>10, ConsequencesType
<1>12. Marked(d, c) = SetClaimStatuses(Noted(d, c), Consequences(d, c, rivals))
  BY DEF Marked, rivals
<1>13. Sound(Marked(d, c)) /\ Follows(Noted(d, c), Marked(d, c))
  BY <1>10, <1>11, <1>12, SetClaimStatusesSound
<1>14. RecordClaim(d, submitted, now) = Marked(d, c)
  BY DEF RecordClaim, Marked, Noted
<1> QED
  BY <1>1, <1>2, <1>5, <1>6, <1>10, <1>11, <1>13, <1>14 DEF added, rivals

\* record keeps an image sound and only adds to it, whatever the claim.
LEMMA RecordClaimSound ==
  ASSUME NEW d, Sound(d), NEW submitted \in ClaimRecords, NEW now \in Nat,
         AcceptsClaim(d, submitted, now)
  PROVE  /\ Sound(RecordClaim(d, submitted, now))
         /\ Follows(d, RecordClaim(d, submitted, now))
<1> DEFINE c == Stamped(submitted, now)
<1>1. CASE AlreadyStored(d, submitted)
  BY <1>1, FollowsItself DEF RecordClaim
<1>2. CASE ~AlreadyStored(d, submitted)
  <2>1. /\ Follows(d, AddClaim(d, c)) /\ Follows(AddClaim(d, c), Noted(d, c))
        /\ Sound(Marked(d, c)) /\ Follows(Noted(d, c), Marked(d, c))
        /\ RecordClaim(d, submitted, now) = Marked(d, c)
    BY <1>2, RecordClaimImages
  <2> HIDE DEF c
  <2>2. Follows(d, Marked(d, c))
    BY <2>1, FollowsTransitive
  <2> QED
    BY <2>1, <2>2
<1> QED
  BY <1>1, <1>2

-----------------------------------------------------------------------------
(* The inductive invariant.                                                *)

JobOK ==
  \/ job = Idle
  \/ /\ job \in [ingestion : Ingestions, next : Nat]
     /\ job.next \in 1..(Len(job.ingestion.claims) + 1)

\* Both images are sound, what the connection sees follows what is committed,
\* and outside of an ingestion the two are the same.
Inv ==
  /\ Sound(db) /\ Sound(disk)
  /\ Follows(disk, db)
  /\ job = Idle => db = disk
  /\ clock \in 0..MaxClock
  /\ JobOK

\* A new database is sound.
LEMMA EmptyImageSound == Sound(EmptyImage)
<1>1. ImageOK(EmptyImage)
  BY DEF ImageOK, EmptyImage
<1>2. /\ StoredClaims(EmptyImage) = {}
      /\ StoredContradictions(EmptyImage) = {}
  BY DEF EmptyImage, StoredClaims, StoredContradictions
<1>3. HistoryOK(EmptyImage)
  BY DEF EmptyImage, HistoryOK
<1>4. SupportOK(EmptyImage) /\ ContradictionsOK(EmptyImage)
  BY <1>2 DEF SupportOK, ContradictionsOK
<1> QED
  BY <1>1, <1>3, <1>4 DEF Sound

\* The invariant holds when the store is opened.
LEMMA InitInv == Init => Inv
<1> SUFFICES ASSUME Init PROVE Inv
  OBVIOUS
<1>1. Sound(db) /\ Sound(disk) /\ Follows(disk, db) /\ db = disk
  BY EmptyImageSound, FollowsItself DEF Init
<1>2. clock \in 0..MaxClock /\ JobOK
  BY LedgerAssumption DEF Init, JobOK
<1> QED
  BY <1>1, <1>2 DEF Inv

\* A call that is one transaction, if what it writes is sound.
LEMMA TransactStep ==
  ASSUME Inv, NEW image, Transact(image), Sound(image), Follows(db, image)
  PROVE  Inv' /\ Follows(disk, disk')
<1>1. db' = image /\ disk' = image /\ db = disk
  BY DEF Transact, Inv
<1>2. clock' \in 0..MaxClock /\ JobOK'
  BY DEF Transact, Inv, JobOK
<1> QED
  BY <1>1, <1>2, FollowsItself DEF Inv

\* A step that commits nothing and changes db to a sound image.
LEMMA WorkingStep ==
  ASSUME Inv, Sound(db'), Follows(disk, db'), UNCHANGED <<disk, clock>>,
         JobOK', job' = Idle => db' = disk
  PROVE  Inv' /\ Follows(disk, disk')
<1>1. clock' \in 0..MaxClock
  BY DEF Inv
<1> QED
  BY <1>1, FollowsItself DEF Inv

\* The claim an ingestion comes to next is a claim.
LEMMA NextClaimType ==
  ASSUME Inv, ClaimsLeft
  PROVE  /\ job \in [ingestion : Ingestions, next : Nat]
         /\ job.next \in 1..Len(job.ingestion.claims)
         /\ NextClaim \in ClaimRecords
<1>1. /\ job \in [ingestion : Ingestions, next : Nat]
      /\ job.next \in 1..(Len(job.ingestion.claims) + 1)
      /\ job.next <= Len(job.ingestion.claims)
  BY DEF Inv, JobOK, ClaimsLeft
<1>2. job.ingestion.claims \in Seq(ClaimRecords)
  BY <1>1, LedgerAssumption
<1>3. job.next \in 1..Len(job.ingestion.claims)
  BY <1>1, <1>2
<1> QED
  BY <1>1, <1>2, <1>3 DEF NextClaim

\* The invariant and the order of commits, action by action.
LEMMA PostClaimStep ==
  ASSUME Inv, NEW c \in Submissions, PostClaim(c)
  PROVE  Inv' /\ Follows(disk, disk')
<1>1. c \in ClaimRecords /\ clock \in Nat /\ Sound(db)
  BY LedgerAssumption DEF Inv
<1>2. AcceptsClaim(db, c, clock) /\ Transact(RecordClaim(db, c, clock))
  BY DEF PostClaim
<1> QED
  BY <1>1, <1>2, RecordClaimSound, TransactStep

\* An ingestion begins: nothing is committed yet.
LEMMA StartIngestionStep ==
  ASSUME Inv, NEW i \in Ingestions, StartIngestion(i)
  PROVE  Inv' /\ Follows(disk, disk')
<1>1. /\ i.document \in EvidenceRecords /\ i.claims \in Seq(ClaimRecords)
      /\ clock \in Nat
  BY LedgerAssumption DEF Inv
<1>2. /\ job = Idle /\ db' = AddEvidence(db, i.document, clock)
      /\ job' = [ingestion |-> i, next |-> 1]
      /\ UNCHANGED <<disk, clock>>
  BY DEF StartIngestion
<1>3. Sound(db') /\ Follows(db, db')
  BY <1>1, <1>2, AddEvidenceSound DEF Inv
<1>4. Follows(disk, db')
  BY <1>3, FollowsTransitive DEF Inv
<1>5. job' \in [ingestion : Ingestions, next : Nat] /\ job' # Idle
  BY <1>2, LedgerAssumption
<1>6. JobOK'
  BY <1>1, <1>2, <1>5 DEF JobOK
<1> QED
  BY <1>2, <1>3, <1>4, <1>5, <1>6, WorkingStep

\* One more claim of the statement, not committed either.
LEMMA IngestClaimStep ==
  ASSUME Inv, IngestClaim
  PROVE  Inv' /\ Follows(disk, disk')
<1>1. /\ job \in [ingestion : Ingestions, next : Nat]
      /\ job.next \in 1..Len(job.ingestion.claims)
      /\ NextClaim \in ClaimRecords /\ clock \in Nat
  BY NextClaimType, LedgerAssumption DEF IngestClaim, Inv
<1>2. /\ AcceptsClaim(db, NextClaim, clock)
      /\ db' = RecordClaim(db, NextClaim, clock)
      /\ job' = [job EXCEPT !.next = job.next + 1]
      /\ UNCHANGED <<disk, clock>>
  BY DEF IngestClaim
<1>3. Sound(db') /\ Follows(db, db')
  BY <1>1, <1>2, RecordClaimSound DEF Inv
<1>4. Follows(disk, db')
  BY <1>3, FollowsTransitive DEF Inv
<1>5. /\ job' \in [ingestion : Ingestions, next : Nat] /\ job' # Idle
      /\ job'.ingestion = job.ingestion /\ job'.next = job.next + 1
  BY <1>1, <1>2, LedgerAssumption
<1>6. Len(job.ingestion.claims) \in Nat
  BY <1>1, LedgerAssumption
<1>7. JobOK'
  BY <1>1, <1>5, <1>6 DEF JobOK
<1> QED
  BY <1>2, <1>3, <1>4, <1>5, <1>7, WorkingStep

\* RejectIngestion and Crash.
LEMMA RollBackStep ==
  ASSUME Inv, db' = disk, job' = Idle, UNCHANGED <<disk, clock>>
  PROVE  Inv' /\ Follows(disk, disk')
  BY FollowsItself, WorkingStep DEF Inv, JobOK

\* The commit of an ingestion: all of its steps at once.
LEMMA FinishIngestionStep ==
  ASSUME Inv, FinishIngestion
  PROVE  Inv' /\ Follows(disk, disk')
<1> DEFINE e == job.ingestion.document.id
           event == Event("ingestion.completed", e, "new", clock)
           events == db.audit \union {event}
<1>1. e \in EvidenceIds /\ clock \in Nat
  <2>1. job \in [ingestion : Ingestions, next : Nat]
    BY DEF FinishIngestion, Inv, JobOK
  <2>2. job.ingestion.document \in EvidenceRecords
    BY <2>1, LedgerAssumption
  <2> QED
    BY <2>2 DEF EvidenceRecords, Inv
<1>2. event \in AuditEvents
  BY <1>1 DEF Event, AuditEvents
<1>3. events \in SUBSET AuditEvents /\ db.audit \subseteq events
  BY <1>2, ImageFields DEF Inv, Sound
<1>4. db' = [db EXCEPT !.audit = events]
  BY DEF FinishIngestion, Inv, Sound, ImageOK
<1>5. disk' = db' /\ job' = Idle /\ clock' = clock
  BY DEF FinishIngestion
<1> HIDE DEF events
<1>6. /\ db'.claims = db.claims /\ db'.status = db.status
      /\ db'.history = db.history /\ db'.evidence = db.evidence
      /\ db'.contradictions = db.contradictions /\ db'.audit = events
  BY <1>4 DEF Inv, Sound, ImageOK
<1>7. ImageOK(db')
  BY <1>3, <1>4 DEF Inv, Sound, ImageOK
<1>8. HistoryOK(db') /\ SupportOK(db') /\ ContradictionsOK(db')
  BY <1>6, HistoryFrame, SupportFrame, ContradictionsFrame DEF Inv, Sound
<1>9. Sound(db')
  BY <1>7, <1>8 DEF Sound
<1>10. Follows(db, db')
  BY <1>3, <1>6 DEF Follows
<1>11. Follows(disk, disk') /\ Follows(disk', db')
  BY <1>5, <1>10, FollowsTransitive, FollowsItself DEF Inv
<1> QED
  BY <1>5, <1>9, <1>11 DEF Inv, JobOK

\* A verdict: two status changes, then the record is closed.
LEMMA ResolveContradictionStep ==
  ASSUME Inv, NEW pair \in Pairs, NEW accepted \in ClaimIds,
         ResolveContradiction(pair, accepted)
  PROVE  Inv' /\ Follows(disk, disk')
<1> DEFINE target == Verdict(pair, accepted, clock)
           n == SetClaimStatuses(db, target)
           m == Close(n, pair, "resolved", accepted, clock)
<1>1. /\ pair \in StoredContradictions(db)
      /\ db.contradictions[pair].status = "open"
      /\ accepted \in pair /\ Transact(m)
  BY DEF ResolveContradiction
<1>2. clock \in Nat /\ Sound(db)
  BY LedgerAssumption DEF Inv
<1>3. pair \subseteq StoredClaims(db)
  BY <1>1, <1>2 DEF Sound, ContradictionsOK
<1>4. target \in [pair -> [status : ClaimStatuses, at : Nat]]
  BY <1>2 DEF Verdict, ClaimStatuses
<1>5. target \in Targets(db)
  BY <1>3, <1>4 DEF Targets
<1> HIDE DEF target
<1>6. Sound(n) /\ Follows(db, n)
  BY <1>2, <1>5, SetClaimStatusesSound
<1>7. n.contradictions = db.contradictions
  BY <1>2, SetClaimStatusesFields DEF Sound
<1> HIDE DEF n
<1>8. pair \in StoredContradictions(n) /\ n.contradictions[pair].status = "open"
  BY <1>1, <1>7 DEF StoredContradictions
<1>9. Sound(m) /\ Follows(n, m)
  BY <1>1, <1>2, <1>6, <1>8, CloseSound
<1> HIDE DEF m
<1>10. Follows(db, m)
  BY <1>6, <1>9, FollowsTransitive
<1> QED
  BY <1>1, <1>9, <1>10, TransactStep

\* A dismissal changes the record alone.
LEMMA DismissContradictionStep ==
  ASSUME Inv, NEW pair \in Pairs, DismissContradiction(pair)
  PROVE  Inv' /\ Follows(disk, disk')
<1> DEFINE m == Close(db, pair, "dismissed", NoVerdict, clock)
<1>1. /\ pair \in StoredContradictions(db)
      /\ db.contradictions[pair].status = "open"
      /\ Transact(m)
  BY DEF DismissContradiction
<1>2. clock \in Nat /\ Sound(db)
  BY LedgerAssumption DEF Inv
<1>3. Sound(m) /\ Follows(db, m)
  BY <1>1, <1>2, CloseSound
<1> QED
  BY <1>1, <1>3, TransactStep

\* A status set by library code.
LEMMA SetClaimStatusStep ==
  ASSUME Inv, NEW c \in ClaimIds, NEW status \in ClaimStatuses,
         SetClaimStatus(c, status)
  PROVE  Inv' /\ Follows(disk, disk')
<1> DEFINE target == [e \in {c} |-> [status |-> status, at |-> clock]]
           n == SetClaimStatuses(db, target)
<1>1. c \in StoredClaims(db) /\ Transact(n)
  BY DEF SetClaimStatus
<1>2. clock \in Nat /\ Sound(db) /\ status \in ClaimStatuses
  BY LedgerAssumption DEF Inv
<1>3. target \in [{c} -> [status : ClaimStatuses, at : Nat]]
  BY <1>2
<1>4. target \in Targets(db)
  BY <1>1, <1>3 DEF Targets
<1> HIDE DEF target
<1>5. Sound(n) /\ Follows(db, n)
  BY <1>2, <1>4, SetClaimStatusesSound
<1> QED
  BY <1>1, <1>5, TransactStep

\* Time passes, or is set back.
LEMMA ClockStep ==
  ASSUME Inv, Tick \/ StepBack
  PROVE  Inv' /\ Follows(disk, disk')
<1>1. clock' \in 0..MaxClock /\ UNCHANGED <<db, disk, job>>
  BY LedgerAssumption DEF Tick, StepBack, Inv
<1> QED
  BY <1>1, FollowsItself DEF Inv, JobOK

\* Every step keeps the invariant, and what it commits follows what was there.
LEMMA InvStep ==
  ASSUME Inv, [Next]_vars
  PROVE  Inv' /\ Follows(disk, disk')
<1>1. CASE \E c \in Submissions : PostClaim(c)
  BY <1>1, PostClaimStep
<1>2. CASE \E i \in Ingestions : StartIngestion(i)
  BY <1>2, StartIngestionStep
<1>3. CASE IngestClaim
  BY <1>3, IngestClaimStep
<1>4. CASE RejectIngestion \/ Crash
  BY <1>4, RollBackStep DEF RejectIngestion, Crash
<1>5. CASE FinishIngestion
  BY <1>5, FinishIngestionStep
<1>6. CASE \E pair \in Pairs, accepted \in ClaimIds :
             ResolveContradiction(pair, accepted)
  BY <1>6, ResolveContradictionStep
<1>7. CASE \E pair \in Pairs : DismissContradiction(pair)
  BY <1>7, DismissContradictionStep
<1>8. CASE \E c \in ClaimIds, status \in ClaimStatuses :
             SetClaimStatus(c, status)
  BY <1>8, SetClaimStatusStep
<1>9. CASE Tick \/ StepBack
  BY <1>9, ClockStep
<1>10. CASE UNCHANGED vars
  BY <1>10, FollowsItself DEF vars, Inv, JobOK
<1> QED
  BY <1>1, <1>2, <1>3, <1>4, <1>5, <1>6, <1>7, <1>8, <1>9, <1>10 DEF Next

-----------------------------------------------------------------------------
(* The theorems.                                                           *)

\* The invariant holds in every reachable state.
THEOREM Invariance == Spec => []Inv
<1>1. Init => Inv
  BY InitInv
<1>2. Inv /\ [Next]_vars => Inv'
  BY InvStep
<1> QED
  BY <1>1, <1>2, PTL DEF Spec

\* The tables, the clock and the ingestion under way have their types, for any
\* claims, documents and length of the run.
THEOREM TypeCorrect == Spec => []TypeOK
<1>1. Inv => TypeOK
  BY DEF Inv, Sound, JobOK, TypeOK
<1> QED
  BY <1>1, Invariance, PTL

\* The status history of every claim is complete, strictly ordered in time and
\* ends with the present status, although a change may be asked for at a time
\* before the latest one and the clock may be set back.
THEOREM HistoryIsFaithful == Spec => []HistoryFaithful
<1>1. Inv => HistoryFaithful
  BY DEF Inv, Sound, HistoryFaithful
<1> QED
  BY <1>1, Invariance, PTL

\* Every stored claim rests on evidence that is stored, was known in time and is
\* trusted enough, and no two stored claims have the same content.
THEOREM SupportIsSound == Spec => []SupportSound
<1>1. Inv => SupportSound
  BY DEF Inv, Sound, SupportSound
<1> QED
  BY <1>1, Invariance, PTL

\* Every contradiction on record is one the detector finds between two stored
\* claims, in either order, and accepts one of the two exactly if it is resolved.
THEOREM ContradictionsAreSound == Spec => []ContradictionsSound
<1>1. Inv => ContradictionsSound
  BY DEF Inv, Sound, ContradictionsSound
<1> QED
  BY <1>1, Invariance, PTL

\* No step changes or removes what is committed, nor puts a row into a claim's
\* history before one that is there: not even the end of an ingestion that took
\* many steps, the last of which commits them all.
THEOREM CommittedStays == Spec => CommittedIsFinal
<1>1. Inv /\ [Next]_vars => Follows(disk, disk')
  BY InvStep
<1>2. Inv /\ [Next]_vars =>
        [ /\ \A e \in StoredEvidence(disk) : disk'.evidence[e] = disk.evidence[e]
          /\ \A c \in StoredClaims(disk) :
               /\ disk'.claims[c] = disk.claims[c]
               /\ disk.history[c] \subseteq disk'.history[c]
               /\ \A q \in disk.history[c] :
                    \A r \in disk'.history[c] \ disk.history[c] : q.at < r.at
          /\ \A p \in StoredContradictions(disk) :
               disk.contradictions[p].status # "open" =>
                 disk'.contradictions[p] = disk.contradictions[p]
          /\ disk.audit \subseteq disk'.audit ]_vars
  BY <1>1 DEF Follows
<1> QED
  BY <1>2, Invariance, PTL DEF Spec, CommittedIsFinal

-----------------------------------------------------------------------------
(* The past of an image.                                                   *)

\* The image new says the same as old of what was known at the instant k: its
\* claims are there, with the same rows up to k, and other claims came later.
SamePast(old, new, k) ==
  /\ \A c \in StoredClaims(old) :
       /\ new.claims[c] = old.claims[c]
       /\ {r \in new.history[c] : r.at <= k} = {r \in old.history[c] : r.at <= k}
  /\ \A c \in StoredClaims(new) \ StoredClaims(old) :
       ~(new.claims[c].asserted <= k)

\* Every change of target is asked for at a time after k.
After(target, k) == \A c \in DOMAIN target : k < target[c].at

\* Images with the same claims and histories have the same past.
LEMMA SamePastFrame ==
  ASSUME NEW d, NEW n, NEW k, n.claims = d.claims, n.history = d.history
  PROVE  SamePast(d, n, k)
  BY DEF SamePast, StoredClaims

\* What has the same past as an image with the same past has it too.
LEMMA SamePastTransitive ==
  ASSUME NEW d1, NEW d2, NEW d3, NEW k, SamePast(d1, d2, k), SamePast(d2, d3, k)
  PROVE  SamePast(d1, d3, k)
<1>1. ASSUME NEW c \in StoredClaims(d1)
      PROVE  /\ d3.claims[c] = d1.claims[c]
             /\ {r \in d3.history[c] : r.at <= k}
                  = {r \in d1.history[c] : r.at <= k}
  <2>1. c \in StoredClaims(d2)
    BY DEF SamePast, StoredClaims
  <2> QED
    BY <2>1 DEF SamePast
<1>2. ASSUME NEW c \in StoredClaims(d3) \ StoredClaims(d1)
      PROVE  ~(d3.claims[c].asserted <= k)
  BY <1>2 DEF SamePast
<1> QED
  BY <1>1, <1>2 DEF SamePast

\* The status a claim had in the past, if it was known by then, is in its past.
LEMMA StatusOfPast ==
  ASSUME NEW d, NEW n, ImageOK(d), HistoryOK(d), NEW k \in Nat,
         SamePast(d, n, k), NEW c \in StoredClaims(d), d.claims[c].asserted <= k
  PROVE  StatusAt(n, c, k) = StatusAt(d, c, k)
<1>1. {r \in d.history[c] : r.at <= k} # {}
  BY DEF HistoryOK, StoredClaims
<1>2. {r \in n.history[c] : r.at <= k} = {r \in d.history[c] : r.at <= k}
  BY DEF SamePast
<1> QED
  BY <1>1, <1>2 DEF StatusAt

\* A query about the past looks at the past only: a claim known by then has a
\* row from then, so the present status is not consulted.
LEMMA QueryOfPast ==
  ASSUME NEW d, NEW n, ImageOK(d), HistoryOK(d), NEW k \in Nat,
         SamePast(d, n, k),
         NEW key, NEW business, NEW statuses
  PROVE  QueryClaims(n, key, business, k, statuses)
           = QueryClaims(d, key, business, k, statuses)
<1> DEFINE known(i) ==
      {c \in StoredClaims(i) :
         /\ i.claims[c].key = key
         /\ i.claims[c].effective <= business
         /\ i.claims[c].asserted <= k
         /\ i.claims[c].expires > business
         /\ StatusAt(i, c, k) \in statuses}
<1>1. ASSUME NEW c \in StoredClaims(d), d.claims[c].asserted <= k
      PROVE  StatusAt(n, c, k) = StatusAt(d, c, k)
  BY <1>1, StatusOfPast
<1>2. \A c \in StoredClaims(d) :
        c \in StoredClaims(n) /\ n.claims[c] = d.claims[c]
  BY DEF SamePast, StoredClaims
<1>3. \A c \in StoredClaims(n) :
        n.claims[c].asserted <= k => c \in StoredClaims(d)
  BY DEF SamePast
<1>4. known(n) = known(d)
  BY <1>1, <1>2, <1>3
<1>5. \A c \in known(d) : StatusAt(n, c, k) = StatusAt(d, c, k)
  BY <1>1
<1>6. /\ QueryClaims(n, key, business, k, statuses) =
           {[id |-> c, status |-> StatusAt(n, c, k)] : c \in known(n)}
      /\ QueryClaims(d, key, business, k, statuses) =
           {[id |-> c, status |-> StatusAt(d, c, k)] : c \in known(d)}
  BY DEF QueryClaims
<1> HIDE DEF known
<1> QED
  BY <1>4, <1>5, <1>6

-----------------------------------------------------------------------------
(* The store methods leave the past alone.                                 *)

\* A change asked for after k is recorded after k.
LEMMA SetClaimStatusesPast ==
  ASSUME NEW d, ImageOK(d), HistoryOK(d), NEW target \in Targets(d),
         NEW k \in Nat, After(target, k)
  PROVE  SamePast(d, SetClaimStatuses(d, target), k)
<1> DEFINE n == SetClaimStatuses(d, target)
<1>1. n.claims = d.claims
  BY SetClaimStatusesFields
<1>2. ASSUME NEW c \in StoredClaims(d)
      PROVE  {r \in n.history[c] : r.at <= k} = {r \in d.history[c] : r.at <= k}
  <2>1. c \in ClaimIds
    BY DEF StoredClaims
  <2>2. CASE c \in Changed(d, target)
    <3> DEFINE row == NewRow(d, c, target[c])
    <3>1. n.history[c] = d.history[c] \union {row}
      BY <2>1, <2>2, SetClaimStatusesFields
    <3>2. target[c].at \in Nat /\ k < target[c].at
      BY <2>2, NewRowType DEF After, Changed
    <3>3. row.at = ChangeTime(d, c, target[c].at)
      BY DEF NewRow
    <3>4. row.at \in Nat /\ target[c].at <= row.at
      BY <3>2, <3>3, ChangeComesLast
    <3>5. ~(row.at <= k)
      BY <3>2, <3>4
    <3> HIDE DEF row, n
    <3> QED
      BY <3>1, <3>5
  <2>3. CASE c \notin Changed(d, target)
    BY <2>1, <2>3, SetClaimStatusesFields
  <2> QED
    BY <2>2, <2>3
<1> HIDE DEF n
<1>3. StoredClaims(n) = StoredClaims(d)
  BY <1>1 DEF StoredClaims
<1> QED
  BY <1>1, <1>2, <1>3 DEF SamePast, n

\* A claim asserted after k is not in the past.
LEMMA AddClaimPast ==
  ASSUME NEW d, ImageOK(d), NEW c \in ClaimRecords,
         c.id \notin StoredClaims(d), NEW k \in Nat, k < c.asserted
  PROVE  SamePast(d, AddClaim(d, c), k)
<1> DEFINE n == AddClaim(d, c)
<1>1. c.id \in ClaimIds /\ c.asserted \in Nat
  BY DEF ClaimRecords
<1>2. /\ n.claims[c.id] = c
      /\ \A e \in ClaimIds \ {c.id} :
           n.claims[e] = d.claims[e] /\ n.history[e] = d.history[e]
  BY <1>1 DEF AddClaim, ImageOK
<1>3. ~(c.asserted <= k)
  BY <1>1
<1> HIDE DEF n
<1>4. SamePast(d, n, k)
  BY <1>1, <1>2, <1>3 DEF SamePast, StoredClaims
<1> QED
  BY <1>4 DEF n

\* The consequences of a claim come no earlier than the claim.
LEMMA ConsequencesAfter ==
  ASSUME NEW d, Sound(d), NEW c \in ClaimRecords,
         NEW rivals \in SUBSET StoredClaims(d), NEW k \in Nat, k < c.asserted
  PROVE  After(Consequences(d, c, rivals), k)
<1>1. ASSUME NEW e \in rivals
      PROVE  k < DetectedAt(c, d.claims[e])
  <2>1. d.claims[e] \in ClaimRecords
    BY ImageFields DEF Sound, StoredClaims
  <2>2. c.asserted \in Nat /\ d.claims[e].asserted \in Nat
    BY <2>1 DEF ClaimRecords
  <2>3. /\ DetectedAt(c, d.claims[e]) \in Nat
        /\ c.asserted <= DetectedAt(c, d.claims[e])
    BY <2>2, DetectedAtNat
  <2> QED
    BY <2>2, <2>3
<1>2. CASE c.supersedes = NoClaim
  BY <1>1, <1>2 DEF Consequences, After
<1>3. CASE c.supersedes # NoClaim
  BY <1>1, <1>3 DEF Consequences, After
<1> QED
  BY <1>2, <1>3

\* A claim the server stamps with the present time changes nothing before it.
LEMMA RecordClaimPast ==
  ASSUME ~TrustClientTimestamps,
         NEW d, Sound(d), NEW submitted \in ClaimRecords, NEW now \in Nat,
         AcceptsClaim(d, submitted, now), NEW k \in Nat, k < now
  PROVE  SamePast(d, RecordClaim(d, submitted, now), k)
<1> DEFINE c == Stamped(submitted, now)
           rivals == NewRivals(d, c)
           added == AddClaim(d, c)
           noted == AddContradictions(added, c, rivals)
           marked == SetClaimStatuses(noted, Consequences(d, c, rivals))
<1>1. CASE AlreadyStored(d, submitted)
  BY <1>1, SamePastFrame DEF RecordClaim
<1>2. CASE ~AlreadyStored(d, submitted)
  <2>1. /\ c \in ClaimRecords /\ c.id = submitted.id /\ c.key = submitted.key
        /\ c.supersedes = submitted.supersedes
        /\ Fingerprint(c) = Fingerprint(submitted)
    BY StampedClaim
  <2>2. c.asserted = now
    BY DEF Stamped, ClaimRecords
  <2>3. Supported(d, c)
    BY <1>2 DEF AcceptsClaim
  <2>4. RecordClaim(d, submitted, now) = marked
    BY <1>2 DEF RecordClaim
  <2>5. \A e \in rivals :
          /\ e \in StoredClaims(d)
          /\ Detect(c, c.status, d.claims[e], d.status[e]) # Agreement
          /\ d.contradictions[{c.id, e}] = Absent
    BY DEF NewRivals, Rivals
  <2> HIDE DEF c, rivals
  <2>6. c.id \notin StoredClaims(d)
    BY <1>2, <2>1, FreshIdentifier
  <2>7. \A e \in StoredClaims(d) : Fingerprint(d.claims[e]) # Fingerprint(c)
    BY <1>2, <2>1 DEF AlreadyStored
  <2>8. SupersedesSoundly(d, c)
    BY <2>1 DEF AcceptsClaim, SupersedesSoundly
  <2>9. /\ Sound(added)
        /\ StoredClaims(added) = StoredClaims(d) \union {c.id}
        /\ added.claims[c.id] = c
        /\ \A e \in StoredClaims(d) :
             added.claims[e] = d.claims[e] /\ added.status[e] = d.status[e]
        /\ added.contradictions = d.contradictions
    BY <2>1, <2>3, <2>6, <2>7, <2>8, AddClaimSound
  <2>10. SamePast(d, added, k)
    BY <2>1, <2>2, <2>6, AddClaimPast DEF Sound
  <2> HIDE DEF added
  <2>11. /\ rivals \in SUBSET StoredClaims(added)
         /\ rivals \in SUBSET StoredClaims(d)
         /\ \A e \in rivals :
              /\ Detect(c, c.status, added.claims[e], added.status[e])
                   # Agreement
              /\ added.contradictions[{c.id, e}] = Absent
    BY <2>5, <2>9
  <2>12. /\ Sound(noted)
         /\ StoredClaims(noted) = StoredClaims(d) \union {c.id}
    BY <2>1, <2>9, <2>11, AddContradictionsSound
  <2>13. noted.claims = added.claims /\ noted.history = added.history
    BY <2>9 DEF AddContradictions, Sound, ImageOK
  <2>14. SamePast(added, noted, k)
    BY <2>13, SamePastFrame
  <2> HIDE DEF noted
  <2>15. Consequences(d, c, rivals) \in Targets(noted)
    BY <2>1, <2>8, <2>11, <2>12, ConsequencesType
  <2>16. After(Consequences(d, c, rivals), k)
    BY <2>1, <2>2, <2>11, ConsequencesAfter
  <2>17. SamePast(noted, marked, k)
    BY <2>12, <2>15, <2>16, SetClaimStatusesPast DEF Sound
  <2> HIDE DEF marked
  <2> QED
    BY <2>4, <2>10, <2>14, <2>17, SamePastTransitive
<1> QED
  BY <1>1, <1>2

-----------------------------------------------------------------------------
(* The steps.                                                              *)

\* A step leaves an instant before the present one in the past, and shows and
\* commits only images that agree about it with those before.
LEMMA PastStep ==
  ASSUME ~TrustClientTimestamps, ~ClockMayStepBack, Inv, [Next]_vars,
         NEW k \in Nat, k < clock
  PROVE  /\ SamePast(db, db', k) \/ db' = disk
         /\ disk' = disk \/ disk' = db'
         /\ k < clock'
<1>1. clock \in Nat /\ Sound(db)
  BY LedgerAssumption DEF Inv
<1>2. CASE \E c \in Submissions : PostClaim(c)
  <2>1. PICK c \in Submissions : PostClaim(c)
    BY <1>2
  <2>2. c \in ClaimRecords
    BY LedgerAssumption
  <2>3. SamePast(db, RecordClaim(db, c, clock), k)
    BY <1>1, <2>1, <2>2, RecordClaimPast DEF PostClaim
  <2> QED
    BY <2>1, <2>3 DEF PostClaim, Transact
<1>3. CASE \E i \in Ingestions : StartIngestion(i)
  <2>1. PICK i \in Ingestions : StartIngestion(i)
    BY <1>3
  <2>2. db' = AddEvidence(db, i.document, clock) /\ UNCHANGED <<disk, clock>>
    BY <2>1 DEF StartIngestion
  <2>3. db'.claims = db.claims /\ db'.history = db.history
    BY <1>1, <2>2 DEF AddEvidence, Sound, ImageOK
  <2> QED
    BY <2>2, <2>3, SamePastFrame
<1>4. CASE IngestClaim
  <2>1. NextClaim \in ClaimRecords
    BY <1>4, NextClaimType DEF IngestClaim
  <2>2. SamePast(db, RecordClaim(db, NextClaim, clock), k)
    BY <1>1, <1>4, <2>1, RecordClaimPast DEF IngestClaim
  <2> QED
    BY <1>4, <2>2 DEF IngestClaim
<1>5. CASE RejectIngestion \/ Crash
  BY <1>5 DEF RejectIngestion, Crash
<1>6. CASE FinishIngestion
  <2>1. db'.claims = db.claims /\ db'.history = db.history
    BY <1>1, <1>6 DEF FinishIngestion, Sound, ImageOK
  <2> QED
    BY <1>6, <2>1, SamePastFrame DEF FinishIngestion
<1>7. CASE \E pair \in Pairs, accepted \in ClaimIds :
             ResolveContradiction(pair, accepted)
  <2>1. PICK pair \in Pairs, accepted \in ClaimIds :
          ResolveContradiction(pair, accepted)
    BY <1>7
  <2> DEFINE target == Verdict(pair, accepted, clock)
             n == SetClaimStatuses(db, target)
             m == Close(n, pair, "resolved", accepted, clock)
  <2>2. pair \subseteq StoredClaims(db)
    BY <1>1, <2>1 DEF ResolveContradiction, Sound, ContradictionsOK
  <2>3. target \in [pair -> [status : ClaimStatuses, at : Nat]]
    BY <1>1 DEF Verdict, ClaimStatuses
  <2>4. target \in Targets(db)
    BY <2>2, <2>3 DEF Targets
  <2>5. After(target, k)
    BY DEF After, Verdict
  <2>6. Transact(m)
    BY <2>1 DEF ResolveContradiction
  <2> HIDE DEF target
  <2>7. SamePast(db, n, k) /\ Sound(n)
    BY <1>1, <2>4, <2>5, SetClaimStatusesPast, SetClaimStatusesSound DEF Sound
  <2> HIDE DEF n
  <2>8. m.claims = n.claims /\ m.history = n.history
    BY <2>7 DEF Close, Sound, ImageOK
  <2>9. SamePast(n, m, k)
    BY <2>8, SamePastFrame
  <2> HIDE DEF m
  <2>10. SamePast(db, m, k)
    BY <2>7, <2>9, SamePastTransitive
  <2> QED
    BY <2>6, <2>10 DEF Transact
<1>8. CASE \E pair \in Pairs : DismissContradiction(pair)
  <2>1. PICK pair \in Pairs : DismissContradiction(pair)
    BY <1>8
  <2> DEFINE m == Close(db, pair, "dismissed", NoVerdict, clock)
  <2>2. Transact(m)
    BY <2>1 DEF DismissContradiction
  <2>3. m.claims = db.claims /\ m.history = db.history
    BY <1>1 DEF Close, Sound, ImageOK
  <2>4. SamePast(db, m, k)
    BY <2>3, SamePastFrame
  <2> HIDE DEF m
  <2> QED
    BY <2>2, <2>4 DEF Transact
<1>9. CASE \E c \in ClaimIds, status \in ClaimStatuses :
             SetClaimStatus(c, status)
  <2>1. PICK c \in ClaimIds, status \in ClaimStatuses :
          SetClaimStatus(c, status)
    BY <1>9
  <2> DEFINE target == [e \in {c} |-> [status |-> status, at |-> clock]]
             n == SetClaimStatuses(db, target)
  <2>2. c \in StoredClaims(db) /\ Transact(n)
    BY <2>1 DEF SetClaimStatus
  <2>3. target \in [{c} -> [status : ClaimStatuses, at : Nat]]
    BY <1>1, LedgerAssumption
  <2>4. target \in Targets(db)
    BY <2>2, <2>3 DEF Targets
  <2>5. After(target, k)
    BY DEF After
  <2> HIDE DEF target
  <2>6. SamePast(db, n, k)
    BY <1>1, <2>4, <2>5, SetClaimStatusesPast DEF Sound
  <2> HIDE DEF n
  <2> QED
    BY <2>2, <2>6 DEF Transact
<1>10. CASE Tick \/ StepBack
  BY <1>1, <1>10, SamePastFrame DEF Tick, StepBack
<1>11. CASE UNCHANGED vars
  BY <1>11, SamePastFrame DEF vars
<1> QED
  BY <1>2, <1>3, <1>4, <1>5, <1>6, <1>7, <1>8, <1>9, <1>10, <1>11 DEF Next

=============================================================================
