------------------------ MODULE SourceIngestionProofs ------------------------
(***************************************************************************)
(* Why an ingestion is ever rejected, for any statements the parser makes,  *)
(* any posted claims, both timestamp modes and any clock.                   *)
(***************************************************************************)
EXTENDS SourceIngestion, LedgerStatusProofs, WellFoundedInduction,
        SequenceTheorems

\* Induction over the natural numbers in a set, instead of in a predicate.
LEMMA NaturalInduction ==
  ASSUME NEW S, 0 \in S, \A k \in Nat : k \in S => k + 1 \in S
  PROVE  Nat \subseteq S
<1> SUFFICES ASSUME Nat \ S # {} PROVE FALSE
  OBVIOUS
<1> DEFINE R == {ss \in Nat \X Nat : ss[1] < ss[2]}
           T == Nat \ S
<1>1. IsWellFoundedOn(R, Nat)
  BY NatLessThanWellFounded DEF OpToRel
<1>2. PICK n \in T : \A m \in T : ~(<<m, n>> \in R)
  <2>1. T \subseteq Nat /\ T # {}
    OBVIOUS
  <2> HIDE DEF R, T
  <2> QED
    BY <1>1, <2>1, WFMin
<1>3. n # 0
  OBVIOUS
<1>4. n - 1 \in Nat /\ n - 1 < n
  BY <1>3
<1>5. <<n - 1, n>> \in R
  BY <1>4
<1>6. n - 1 \in S
  BY <1>2, <1>4, <1>5
<1>7. (n - 1) + 1 \in S
  BY <1>4, <1>6
<1> QED
  BY <1>7

-----------------------------------------------------------------------------
(* The parser.                                                             *)

\* The claims of a statement are made of its figures and of its document.
IsParsed(c, document) ==
  \E table, row, cell : c = ParsedClaim(table, document, row, cell)

IsIssue(o) == \E code, row : o = Issue(code, row)

\* Sequences of what the cells of a document may yield, and of its claims.
OutcomesOK(s, document) ==
  /\ \E T : s \in Seq(T)
  /\ \A k \in 1..Len(s) : IsIssue(s[k]) \/ IsParsed(s[k], document)

ClaimsOK(s, document) ==
  /\ \E T : s \in Seq(T)
  /\ \A k \in 1..Len(s) : IsParsed(s[k], document)

\* Every claim of a statement is one the parser makes of its document.
AllParsed ==
  \A i \in Ingestions : \A k \in 1..Len(i.claims) :
    IsParsed(i.claims[k], i.document)

LEMMA RowOutcomesOK ==
  ASSUME NEW table, NEW document, NEW row, Len(row.cells) \in Nat,
         \A j \in 1..Len(row.cells) :
           row.cells[j].raw.form \in {"missing", "garbled", "figure"}
  PROVE  OutcomesOK(RowOutcomes(table, document, row), document)
<1>1. CASE row.label \notin DOMAIN Catalog
  <2> DEFINE issue == Issue("unknown_label", row)
  <2>1. RowOutcomes(table, document, row) = <<issue>>
    BY <1>1 DEF RowOutcomes
  <2>2. IsIssue(issue)
    BY DEF IsIssue
  <2> HIDE DEF issue
  <2> DEFINE s == <<issue>>
  <2>3. s \in Seq({issue}) /\ \A k \in 1..Len(s) : s[k] = issue
    OBVIOUS
  <2>4. RowOutcomes(table, document, row) = s
    BY <2>1
  <2> HIDE DEF s
  <2>5. \A k \in 1..Len(s) : IsIssue(s[k])
    BY <2>2, <2>3
  <2>6. \E T : s \in Seq(T)
    BY <2>3
  <2> QED
    BY <2>4, <2>5, <2>6 DEF OutcomesOK
<1>2. CASE row.label \in DOMAIN Catalog
  <2> DEFINE n == Len(row.cells)
             outcome(k) == CellOutcome(table, document, row, row.cells[k])
             s == [k \in 1..n |-> outcome(k)]
             T == {outcome(k) : k \in 1..n}
  <2>1. RowOutcomes(table, document, row) = s
    BY <1>2 DEF RowOutcomes
  <2>2. \A k \in 1..n : IsIssue(outcome(k)) \/ IsParsed(outcome(k), document)
    BY DEF CellOutcome, IsIssue, IsParsed
  <2>3. n \in Nat
    OBVIOUS
  <2> HIDE DEF n, outcome
  <2>4. s \in Seq(T) /\ Len(s) = n /\ \A k \in 1..n : s[k] = outcome(k)
    BY <2>3
  <2> HIDE DEF s, T
  <2> QED
    BY <2>1, <2>2, <2>4 DEF OutcomesOK
<1> QED
  BY <1>1, <1>2

LEMMA ConcatOutcomes ==
  ASSUME NEW document, NEW s, NEW t,
         OutcomesOK(s, document), OutcomesOK(t, document)
  PROVE  OutcomesOK(s \o t, document)
<1>1. PICK T : s \in Seq(T)
  BY DEF OutcomesOK
<1>2. PICK U : t \in Seq(U)
  BY DEF OutcomesOK
<1> DEFINE W == T \union U
<1>3. s \in Seq(W) /\ t \in Seq(W)
  BY <1>1, <1>2, SeqMonotonic
<1> HIDE DEF W
<1>4. /\ s \o t \in Seq(W)
      /\ Len(s) \in Nat /\ Len(t) \in Nat
      /\ Len(s \o t) = Len(s) + Len(t)
      /\ \A k \in 1..Len(s) + Len(t) :
           (s \o t)[k] = IF k <= Len(s) THEN s[k] ELSE t[k - Len(s)]
  BY <1>3
<1>5. ASSUME NEW k \in 1..Len(s \o t)
      PROVE  IsIssue((s \o t)[k]) \/ IsParsed((s \o t)[k], document)
  <2>1. CASE k <= Len(s)
    BY <1>4, <2>1 DEF OutcomesOK
  <2>2. CASE ~(k <= Len(s))
    <3>1. k - Len(s) \in 1..Len(t)
      BY <1>4, <2>2
    <3>2. (s \o t)[k] = t[k - Len(s)]
      BY <1>4, <2>2
    <3> QED
      BY <3>1, <3>2 DEF OutcomesOK
  <2> QED
    BY <2>1, <2>2
<1> QED
  BY <1>4, <1>5 DEF OutcomesOK

\* What the first rows of the table yield.
Yields(yielded, n, table, document) ==
  yielded = [k \in 0..n |->
               IF k = 0 THEN <<>>
               ELSE yielded[k - 1] \o RowOutcomes(table, document, table.rows[k])]

LEMMA YieldsExist ==
  ASSUME NEW table, NEW document
  PROVE  \A n \in Nat : \E yielded : Yields(yielded, n, table, document)
<1> DEFINE And(s, k) == s \o RowOutcomes(table, document, table.rows[k])
           S == {n \in Nat : \E yielded : Yields(yielded, n, table, document)}
<1>1. 0 \in S
  <2> DEFINE none == [k \in 0..0 |-> <<>>]
  <2>1. Yields(none, 0, table, document)
    BY DEF Yields
  <2> QED
    BY <2>1
<1>2. ASSUME NEW n \in Nat, n \in S PROVE n + 1 \in S
  <2>1. PICK yielded : Yields(yielded, n, table, document)
    BY <1>2
  <2> DEFINE more == [k \in 0..(n + 1) |->
                        IF k = n + 1 THEN And(yielded[n], n + 1)
                        ELSE yielded[k]]
  <2>2. \A k \in 0..n : yielded[k] = IF k = 0 THEN <<>>
                                     ELSE And(yielded[k - 1], k)
    BY <2>1 DEF Yields
  <2>3. \A k \in 0..(n + 1) :
          more[k] = IF k = 0 THEN <<>> ELSE And(more[k - 1], k)
    <3> HIDE DEF And
    <3> QED
      BY <2>2
  <2>4. Yields(more, n + 1, table, document)
    BY <2>3 DEF Yields
  <2> QED
    BY <2>4
<1> HIDE DEF S
<1>3. Nat \subseteq S
  BY <1>1, <1>2, NaturalInduction
<1> QED
  BY <1>3 DEF S

LEMMA OutcomesAre ==
  ASSUME NEW table, NEW document, Len(table.rows) \in Nat
  PROVE  \E yielded : /\ Yields(yielded, Len(table.rows), table, document)
                      /\ Outcomes(table, document) = yielded[Len(table.rows)]
<1> DEFINE yielded[k \in 0..Len(table.rows)] ==
             IF k = 0 THEN <<>>
             ELSE yielded[k - 1] \o RowOutcomes(table, document, table.rows[k])
<1>1. \E f : Yields(f, Len(table.rows), table, document)
  BY YieldsExist, Zenon
<1>2. Yields(yielded, Len(table.rows), table, document)
  BY <1>1 DEF Yields
<1>3. Outcomes(table, document) = yielded[Len(table.rows)]
  BY DEF Outcomes
<1> HIDE DEF yielded
<1> QED
  BY <1>2, <1>3

LEMMA NoOutcomes ==
  ASSUME NEW document
  PROVE  OutcomesOK(<<>>, document) /\ ClaimsOK(<<>>, document)
<1>1. <<>> \in Seq({}) /\ Len(<<>>) = 0
  OBVIOUS
<1> QED
  BY <1>1 DEF OutcomesOK, ClaimsOK

LEMMA TableOutcomesOK ==
  ASSUME NEW table, NEW document, IsTable(table)
  PROVE  OutcomesOK(Outcomes(table, document), document)
<1>1. Len(table.rows) \in Nat
  BY DEF IsTable
<1>2. PICK yielded : /\ Yields(yielded, Len(table.rows), table, document)
                     /\ Outcomes(table, document) = yielded[Len(table.rows)]
  BY <1>1, OutcomesAre, Zenon
<1> DEFINE n == Len(table.rows)
           S == {k \in Nat : k <= n => OutcomesOK(yielded[k], document)}
<1>3. /\ \A k \in 1..n :
           yielded[k] = yielded[k - 1]
                          \o RowOutcomes(table, document, table.rows[k])
      /\ yielded[0] = <<>>
  <2> DEFINE And(t, k) == t \o RowOutcomes(table, document, table.rows[k])
  <2>1. yielded = [k \in 0..n |-> IF k = 0 THEN <<>> ELSE And(yielded[k - 1], k)]
    BY <1>2 DEF Yields
  <2>2. n \in Nat
    BY <1>1
  <2> HIDE DEF And, n
  <2>3. yielded[0] = <<>> /\ \A k \in 1..n : yielded[k] = And(yielded[k - 1], k)
    BY <2>1, <2>2
  <2> QED
    BY <2>3 DEF And
<1>4. 0 \in S
  BY <1>3, NoOutcomes
<1>5. ASSUME NEW k \in Nat, k \in S PROVE k + 1 \in S
  <2>1. CASE k + 1 <= n
    <3>1. k + 1 \in 1..n /\ k <= n
      BY <1>1, <2>1
    <3>2. OutcomesOK(yielded[k], document)
      BY <1>5, <3>1
    <3>3. OutcomesOK(RowOutcomes(table, document, table.rows[k + 1]), document)
      <4>1. \E row : /\ row = table.rows[k + 1]
                     /\ Len(row.cells) \in Nat
                     /\ \A j \in 1..Len(row.cells) :
                          row.cells[j].raw.form \in {"missing", "garbled", "figure"}
        BY <3>1 DEF IsTable
      <4> QED
        BY <4>1, RowOutcomesOK, Zenon
    <3>4. yielded[k + 1] = yielded[k]
                             \o RowOutcomes(table, document, table.rows[k + 1])
      <4>1. (k + 1) - 1 = k
        OBVIOUS
      <4> QED
        BY <1>3, <3>1, <4>1
    <3>5. OutcomesOK(yielded[k]
                       \o RowOutcomes(table, document, table.rows[k + 1]),
                     document)
      BY <3>2, <3>3, ConcatOutcomes, Zenon
    <3>6. OutcomesOK(yielded[k + 1], document)
      BY <3>4, <3>5, Zenon
    <3> QED
      BY <3>6
  <2>2. CASE ~(k + 1 <= n)
    BY <2>2
  <2> QED
    BY <2>1, <2>2
<1> HIDE DEF S
<1>6. Nat \subseteq S
  BY <1>4, <1>5, NaturalInduction
<1> QED
  BY <1>1, <1>2, <1>6 DEF S

\* Where an outcome is appended.
Put(parsed, outcome) ==
  IF "code" \in DOMAIN outcome
  THEN [parsed EXCEPT !.issues = Append(@, outcome)]
  ELSE [parsed EXCEPT !.claims = Append(@, outcome)]

Sorts(sorted, n, outcomes) ==
  sorted = [k \in 0..n |->
              IF k = 0 THEN [claims |-> <<>>, issues |-> <<>>]
              ELSE Put(sorted[k - 1], outcomes[k])]

LEMMA SortsExist ==
  ASSUME NEW outcomes
  PROVE  \A n \in Nat : \E sorted : Sorts(sorted, n, outcomes)
<1> DEFINE Empty == [claims |-> <<>>, issues |-> <<>>]
           S == {n \in Nat : \E sorted : Sorts(sorted, n, outcomes)}
<1>1. 0 \in S
  <2> DEFINE none == [k \in 0..0 |-> Empty]
  <2>1. Sorts(none, 0, outcomes)
    BY DEF Sorts
  <2> QED
    BY <2>1
<1>2. ASSUME NEW n \in Nat, n \in S PROVE n + 1 \in S
  <2>1. PICK sorted : Sorts(sorted, n, outcomes)
    BY <1>2
  <2> DEFINE more == [k \in 0..(n + 1) |->
                        IF k = n + 1 THEN Put(sorted[n], outcomes[n + 1])
                        ELSE sorted[k]]
  <2>2. \A k \in 0..n : sorted[k] = IF k = 0 THEN Empty
                                    ELSE Put(sorted[k - 1], outcomes[k])
    BY <2>1 DEF Sorts
  <2>3. \A k \in 0..(n + 1) :
          more[k] = IF k = 0 THEN Empty ELSE Put(more[k - 1], outcomes[k])
    <3> HIDE DEF Empty
    <3> QED
      BY <2>2
  <2>4. Sorts(more, n + 1, outcomes)
    BY <2>3 DEF Sorts
  <2> QED
    BY <2>4
<1> HIDE DEF S
<1>3. Nat \subseteq S
  BY <1>1, <1>2, NaturalInduction
<1> QED
  BY <1>3 DEF S

LEMMA SortedIs ==
  ASSUME NEW outcomes, Len(outcomes) \in Nat
  PROVE  \E sorted : /\ Sorts(sorted, Len(outcomes), outcomes)
                     /\ Sorted(outcomes) = sorted[Len(outcomes)]
<1> DEFINE sorted[k \in 0..Len(outcomes)] ==
             IF k = 0 THEN [claims |-> <<>>, issues |-> <<>>]
             ELSE IF "code" \in DOMAIN outcomes[k]
             THEN [sorted[k - 1] EXCEPT !.issues = Append(@, outcomes[k])]
             ELSE [sorted[k - 1] EXCEPT !.claims = Append(@, outcomes[k])]
<1>1. \E f : Sorts(f, Len(outcomes), outcomes)
  BY SortsExist, Zenon
<1>2. Sorts(sorted, Len(outcomes), outcomes)
  BY <1>1 DEF Sorts, Put
<1>3. Sorted(outcomes) = sorted[Len(outcomes)]
  BY DEF Sorted
<1> HIDE DEF sorted
<1> QED
  BY <1>2, <1>3

\* The claims that were appended are parsed ones.
ParsedOK(parsed, document) ==
  \E claims, issues :
    /\ parsed = [claims |-> claims, issues |-> issues]
    /\ ClaimsOK(claims, document)

LEMMA AppendClaim ==
  ASSUME NEW document, NEW claims, NEW c,
         ClaimsOK(claims, document), IsParsed(c, document)
  PROVE  ClaimsOK(Append(claims, c), document)
<1>1. PICK T : claims \in Seq(T)
  BY DEF ClaimsOK
<1> DEFINE W == T \union {c}
<1>2. claims \in Seq(W) /\ c \in W
  BY <1>1, SeqMonotonic
<1> HIDE DEF W
<1>3. /\ Append(claims, c) \in Seq(W)
      /\ Len(claims) \in Nat
      /\ Len(Append(claims, c)) = Len(claims) + 1
      /\ \A k \in 1..Len(claims) + 1 :
           Append(claims, c)[k] = IF k <= Len(claims) THEN claims[k] ELSE c
  BY <1>2
<1>4. ASSUME NEW k \in 1..Len(Append(claims, c))
      PROVE  IsParsed(Append(claims, c)[k], document)
  <2>1. CASE k <= Len(claims)
    BY <1>3, <2>1 DEF ClaimsOK
  <2>2. CASE ~(k <= Len(claims))
    BY <1>3, <2>2
  <2> QED
    BY <2>1, <2>2
<1> QED
  BY <1>3, <1>4 DEF ClaimsOK

LEMMA PutOutcome ==
  ASSUME NEW document, NEW parsed, NEW outcome, ParsedOK(parsed, document),
         IsIssue(outcome) \/ IsParsed(outcome, document)
  PROVE  ParsedOK(Put(parsed, outcome), document)
<1>1. PICK claims, issues :
        /\ parsed = [claims |-> claims, issues |-> issues]
        /\ ClaimsOK(claims, document)
  BY DEF ParsedOK
<1>2. CASE "code" \in DOMAIN outcome
  <2>1. Put(parsed, outcome)
          = [claims |-> claims, issues |-> Append(issues, outcome)]
    BY <1>1, <1>2 DEF Put
  <2> QED
    BY <1>1, <2>1 DEF ParsedOK
<1>3. CASE "code" \notin DOMAIN outcome
  <2>1. Put(parsed, outcome)
          = [claims |-> Append(claims, outcome), issues |-> issues]
    BY <1>1, <1>3 DEF Put
  <2>2. IsParsed(outcome, document)
    <3>1. ~IsIssue(outcome)
      BY <1>3 DEF IsIssue, Issue
    <3> QED
      BY <3>1
  <2>3. ClaimsOK(Append(claims, outcome), document)
    BY <1>1, <2>2, AppendClaim
  <2> QED
    BY <2>1, <2>3 DEF ParsedOK
<1> QED
  BY <1>2, <1>3

LEMMA SortedOK ==
  ASSUME NEW document, NEW outcomes, OutcomesOK(outcomes, document)
  PROVE  ParsedOK(Sorted(outcomes), document)
<1>1. Len(outcomes) \in Nat
  BY DEF OutcomesOK
<1>2. PICK sorted : /\ Sorts(sorted, Len(outcomes), outcomes)
                    /\ Sorted(outcomes) = sorted[Len(outcomes)]
  BY <1>1, SortedIs, Zenon
<1> DEFINE n == Len(outcomes)
           S == {k \in Nat : k <= n => ParsedOK(sorted[k], document)}
<1>3. /\ \A k \in 1..n : sorted[k] = Put(sorted[k - 1], outcomes[k])
      /\ sorted[0] = [claims |-> <<>>, issues |-> <<>>]
  BY <1>1, <1>2 DEF Sorts
<1>4. 0 \in S
  BY <1>3, NoOutcomes DEF ParsedOK
<1>5. ASSUME NEW k \in Nat, k \in S PROVE k + 1 \in S
  <2>1. CASE k + 1 <= n
    <3>1. k + 1 \in 1..n /\ k <= n /\ (k + 1) - 1 = k
      BY <1>1, <2>1
    <3>2. ParsedOK(sorted[k], document)
      BY <1>5, <3>1
    <3>3. IsIssue(outcomes[k + 1]) \/ IsParsed(outcomes[k + 1], document)
      BY <3>1 DEF OutcomesOK
    <3>4. sorted[k + 1] = Put(sorted[k], outcomes[k + 1])
      BY <1>3, <3>1
    <3> QED
      BY <3>2, <3>3, <3>4, PutOutcome
  <2>2. CASE ~(k + 1 <= n)
    BY <2>2
  <2> QED
    BY <2>1, <2>2
<1> HIDE DEF S
<1>6. Nat \subseteq S
  BY <1>4, <1>5, NaturalInduction
<1> QED
  BY <1>1, <1>2, <1>6 DEF S

\* What is ingested is made by the parser.
LEMMA StatementsParsed == AllParsed
<1>1. ASSUME NEW f \in Filings,
             NEW i, i = FilingStatement(f.descriptor, f.fetched, f.table),
             NEW k \in 1..Len(i.claims)
      PROVE  IsParsed(i.claims[k], i.document)
  <2> DEFINE document == FilingEvidence(f.descriptor, f.fetched)
  <2>1. IsTable(f.table)
    BY SourcesAssumption
  <2>2. i.document = document /\ i.claims = Parse(f.table, document).claims
    BY <1>1 DEF FilingStatement
  <2> HIDE DEF document
  <2>3. ParsedOK(Parse(f.table, document), document)
    BY <2>1, TableOutcomesOK, SortedOK DEF Parse
  <2>4. ClaimsOK(Parse(f.table, document).claims, document)
    BY <2>3 DEF ParsedOK
  <2> QED
    BY <1>1, <2>2, <2>4 DEF ClaimsOK
<1>2. ASSUME NEW o \in Observations, NEW i, i = ObservationStatement(o)
      PROVE  Len(i.claims) = 0
  BY <1>2 DEF ObservationStatement
<1>3. ASSUME NEW i \in Ingestions, NEW k \in 1..Len(i.claims)
      PROVE  IsParsed(i.claims[k], i.document)
  <2>1. \/ \E f \in Filings : i = FilingStatement(f.descriptor, f.fetched, f.table)
        \/ \E o \in Observations : i = ObservationStatement(o)
    BY SourcesAssumption
  <2>2. CASE \E f \in Filings : i = FilingStatement(f.descriptor, f.fetched, f.table)
    BY <1>1, <1>3, <2>2
  <2>3. CASE \E o \in Observations : i = ObservationStatement(o)
    BY <1>2, <1>3, <2>3
  <2> QED
    BY <2>1, <2>2, <2>3
<1> QED
  BY <1>3 DEF AllParsed

-----------------------------------------------------------------------------
(* Where the stored claims come from.                                      *)

\* What the claim c has from the identifier it is given, and from the document.
FigureOf(c, document) ==
  /\ \E subject, predicate, end, value :
       /\ c.id = <<subject, predicate, end, value, document.id>>
       /\ c.key = <<subject, predicate>>
       /\ c.effective = end
       /\ c.value = value
  /\ c.evidence = {document.id}
  /\ c.expires = Never
  /\ c.kind = "decimal"
  /\ c.confidence = ConfidenceIn(document)
  /\ c.supersedes = NoClaim

\* The document is stored as it is.
Held(d, document) ==
  /\ document.id \in StoredEvidence(d)
  /\ SameDocument(d.evidence[document.id], document)

\* The claim is under a posted claim's identifier, or it is a figure of a stored
\* document.
Sourced(d, c) ==
  \/ c.id \in {s.id : s \in Submissions}
  \/ \E i \in Ingestions : FigureOf(c, i.document) /\ Held(d, i.document)

AllSourced(d) == \A c \in StoredClaims(d) : Sourced(d, d.claims[c])

\* Every stored claim has its source, and the document of the ingestion under
\* way is stored.
SourceInv ==
  /\ AllSourced(db) /\ AllSourced(disk)
  /\ job # Idle => Held(db, job.ingestion.document)

-----------------------------------------------------------------------------
(* Claims the parser makes.                                                *)

LEMMA ParsedFigure ==
  ASSUME NEW table, NEW document, NEW row, NEW cell, NEW c,
         c = ParsedClaim(table, document, row, cell)
  PROVE  FigureOf(c, document) /\ c.asserted = document.observed
<1> DEFINE metric == Catalog[row.label]
           value == ValueOf(table, metric, cell.raw)
<1>1. /\ c.id = <<table.subject, metric.predicate, cell.end, value, document.id>>
      /\ c.key = <<table.subject, metric.predicate>>
      /\ c.effective = cell.end
      /\ c.value = value
      /\ c.evidence = {document.id}
      /\ c.expires = Never
      /\ c.kind = "decimal"
      /\ c.confidence = ConfidenceIn(document)
      /\ c.supersedes = NoClaim
      /\ c.asserted = document.observed
  BY DEF ParsedClaim, ParsedId
<1> HIDE DEF metric, value
<1> QED
  BY <1>1 DEF FigureOf

\* The server's stamp does not change what a claim has from its figure.
LEMMA StampedFigure ==
  ASSUME NEW c \in ClaimRecords, NEW now \in Nat, NEW document,
         FigureOf(c, document)
  PROVE  FigureOf(Stamped(c, now), document)
<1>1. LET s == Stamped(c, now)
      IN  /\ s.id = c.id /\ s.key = c.key /\ s.effective = c.effective
          /\ s.value = c.value /\ s.evidence = c.evidence
          /\ s.expires = c.expires /\ s.kind = c.kind
          /\ s.confidence = c.confidence /\ s.supersedes = c.supersedes
  BY DEF Stamped, ClaimRecords
<1> QED
  BY <1>1 DEF FigureOf

\* The identifier of a claim names its figure and the document.
LEMMA SameFigure ==
  ASSUME NEW c, NEW e, NEW document, NEW other,
         FigureOf(c, document), FigureOf(e, other), c.id = e.id
  PROVE  /\ document.id = other.id
         /\ c.key = e.key /\ c.effective = e.effective /\ c.value = e.value
         /\ c.evidence = e.evidence /\ c.expires = e.expires
         /\ c.kind = e.kind /\ c.supersedes = e.supersedes
<1>1. PICK s1, p1, t1, v1 :
        /\ c.id = <<s1, p1, t1, v1, document.id>>
        /\ c.key = <<s1, p1>> /\ c.effective = t1 /\ c.value = v1
  BY DEF FigureOf
<1>2. PICK s2, p2, t2, v2 :
        /\ e.id = <<s2, p2, t2, v2, other.id>>
        /\ e.key = <<s2, p2>> /\ e.effective = t2 /\ e.value = v2
  BY DEF FigureOf
<1>3. <<s1, p1, t1, v1, document.id>> = <<s2, p2, t2, v2, other.id>>
  BY <1>1, <1>2
<1>4. s1 = s2 /\ p1 = p2 /\ t1 = t2 /\ v1 = v2 /\ document.id = other.id
  BY <1>3
<1> QED
  BY <1>1, <1>2, <1>4 DEF FigureOf

\* Two documents stored under one identifier are trusted alike.
LEMMA HeldAlike ==
  ASSUME NEW d, ImageOK(d), NEW document \in EvidenceRecords,
         NEW other \in EvidenceRecords,
         Held(d, document), Held(d, other), document.id = other.id
  PROVE  ConfidenceIn(document) = ConfidenceIn(other)
<1>1. d.evidence[document.id] \in EvidenceRecords
  BY ImageFields DEF Held, StoredEvidence
<1>2. /\ d.evidence[document.id].trust = document.trust
      /\ d.evidence[document.id].trust = other.trust
  BY <1>1 DEF Held, SameDocument, EvidenceRecords
<1> QED
  BY <1>2 DEF ConfidenceIn

\* Two claims that agree on what only a fingerprint compares have one.
LEMMA SameFingerprint ==
  ASSUME NEW c \in ClaimRecords, NEW e \in ClaimRecords,
         c.key = e.key, c.period = e.period, c.effective = e.effective,
         c.expires = e.expires, c.kind = e.kind, c.unit = e.unit,
         c.value = e.value, c.detail = e.detail, c.evidence = e.evidence,
         c.confidence = e.confidence, c.supersedes = e.supersedes
  PROVE  Fingerprint(c) = Fingerprint(e)
<1>1. /\ DOMAIN c = DOMAIN e
      /\ DOMAIN c = {"id", "key", "period", "effective", "expires", "kind",
                     "unit", "value", "detail", "evidence", "confidence",
                     "supersedes", "asserted", "status"}
  BY DEF ClaimRecords
<1>2. \A f \in DOMAIN c \ {"id", "asserted", "status"} : c[f] = e[f]
  BY <1>1
<1> QED
  BY <1>1, <1>2 DEF Fingerprint

-----------------------------------------------------------------------------
(* Steps.                                                                  *)

LEMMA HeldStays ==
  ASSUME NEW d, NEW n, Follows(d, n), NEW document, Held(d, document)
  PROVE  Held(n, document)
  BY DEF Follows, Held, StoredEvidence

LEMMA SourcedStays ==
  ASSUME NEW d, NEW n, Follows(d, n), NEW c, Sourced(d, c)
  PROVE  Sourced(n, c)
  BY HeldStays DEF Sourced

\* A step that stores no claim.
LEMMA NothingSourced ==
  ASSUME NEW d, NEW n, Follows(d, n), n.claims = d.claims, AllSourced(d)
  PROVE  AllSourced(n)
<1>1. ASSUME NEW c \in StoredClaims(n)
      PROVE  Sourced(n, n.claims[c])
  <2>1. c \in StoredClaims(d) /\ n.claims[c] = d.claims[c]
    BY DEF StoredClaims
  <2> QED
    BY <2>1, SourcedStays DEF AllSourced
<1> QED
  BY <1>1 DEF AllSourced

\* record of a claim that has its source.
LEMMA RecordClaimSourced ==
  ASSUME NEW d, Sound(d), AllSourced(d), NEW submitted \in ClaimRecords,
         NEW now \in Nat, AcceptsClaim(d, submitted, now),
         Sourced(d, Stamped(submitted, now))
  PROVE  AllSourced(RecordClaim(d, submitted, now))
<1> DEFINE n == RecordClaim(d, submitted, now)
           c == Stamped(submitted, now)
<1>1. CASE AlreadyStored(d, submitted)
  BY <1>1 DEF RecordClaim
<1>2. CASE ~AlreadyStored(d, submitted)
  <2>1. Recorded(d, c, NewRivals(d, c), n)
    BY <1>2, RecordClaimFields
  <2>2. Follows(d, n)
    BY RecordClaimSound
  <2>3. Sourced(d, c)
    OBVIOUS
  <2> HIDE DEF n, c
  <2>4. ASSUME NEW e \in StoredClaims(n)
        PROVE  Sourced(n, n.claims[e])
    <3>1. CASE e = c.id
      BY <2>1, <2>2, <2>3, <3>1, SourcedStays DEF Recorded
    <3>2. CASE e # c.id
      <4>1. e \in StoredClaims(d) /\ n.claims[e] = d.claims[e]
        BY <2>1, <2>4, <3>2 DEF Recorded
      <4> QED
        BY <2>2, <4>1, SourcedStays DEF AllSourced
    <3> QED
      BY <3>1, <3>2
  <2>5. AllSourced(n)
    BY <2>4 DEF AllSourced
  <2> QED
    BY <2>5 DEF n
<1> QED
  BY <1>1, <1>2

\* A call that is one transaction.
LEMMA TransactSourced ==
  ASSUME SourceInv, NEW image, Transact(image), AllSourced(image)
  PROVE  SourceInv'
  BY DEF Transact, SourceInv

LEMMA PostClaimSourced ==
  ASSUME Inv, SourceInv, NEW c \in Submissions, PostClaim(c)
  PROVE  SourceInv'
<1>1. c \in ClaimRecords /\ clock \in Nat /\ Sound(db)
  BY LedgerAssumption DEF Inv
<1>2. AcceptsClaim(db, c, clock) /\ Transact(RecordClaim(db, c, clock))
  BY DEF PostClaim
<1>3. Sourced(db, Stamped(c, clock))
  BY <1>1, StampedClaim DEF Sourced
<1>4. AllSourced(RecordClaim(db, c, clock))
  BY <1>1, <1>2, <1>3, RecordClaimSourced DEF SourceInv
<1> QED
  BY <1>2, <1>4, TransactSourced

LEMMA StartIngestionSourced ==
  ASSUME Inv, SourceInv, NEW i \in Ingestions, StartIngestion(i)
  PROVE  SourceInv'
<1>1. i.document \in EvidenceRecords /\ clock \in Nat /\ Sound(db)
  BY LedgerAssumption DEF Inv
<1>2. /\ job' = [ingestion |-> i, next |-> 1]
      /\ db' = AddEvidence(db, i.document, clock) /\ disk' = disk
      /\ AcceptsEvidence(db, i.document)
  BY DEF StartIngestion
<1>3. Follows(db, db')
  BY <1>1, <1>2, AddEvidenceSound
<1>4. db'.claims = db.claims /\ Held(db', i.document)
  <2>1. CASE db.evidence[i.document.id] # Absent
    <3>1. db' = db
      BY <1>2, <2>1 DEF AddEvidence
    <3>2. SameDocument(db.evidence[i.document.id], i.document)
      BY <1>2, <2>1 DEF AcceptsEvidence
    <3>3. i.document.id \in StoredEvidence(db)
      BY <1>1, <2>1 DEF StoredEvidence, EvidenceRecords
    <3> QED
      BY <3>1, <3>2, <3>3 DEF Held
  <2>2. CASE db.evidence[i.document.id] = Absent
    <3> DEFINE ingested == IF TrustClientTimestamps THEN i.document.ingested
                           ELSE clock
    <3>1. /\ db'.claims = db.claims
          /\ db'.evidence[i.document.id] \in EvidenceRecords
          /\ SameDocument(db'.evidence[i.document.id], i.document)
      <4>1. ImageOK(db)
        BY <1>1 DEF Sound
      <4>2. \A n : n = AddEvidence(db, i.document, clock) =>
              /\ n.claims = db.claims
              /\ n.evidence[i.document.id] \in EvidenceRecords
              /\ SameDocument(n.evidence[i.document.id], i.document)
        BY <1>1, <2>2, <4>1, AddEvidenceFields
      <4> QED
        BY <1>2, <4>2
    <3>2. i.document.id \in StoredEvidence(db')
      BY <1>1, <3>1, LedgerAssumption DEF StoredEvidence, EvidenceRecords
    <3> QED
      BY <3>1, <3>2 DEF Held
  <2> QED
    BY <2>1, <2>2
<1>5. AllSourced(db')
  BY <1>3, <1>4, NothingSourced DEF SourceInv
<1>6. job'.ingestion = i
  BY <1>2
<1> QED
  BY <1>2, <1>4, <1>5, <1>6 DEF SourceInv

\* The next claim is a figure of the ingestion's document, which is stored.
LEMMA NextClaimFigure ==
  ASSUME Inv, SourceInv, ClaimsLeft
  PROVE  /\ job.ingestion \in Ingestions
         /\ NextClaim \in ClaimRecords
         /\ FigureOf(NextClaim, job.ingestion.document)
         /\ NextClaim.asserted = job.ingestion.document.observed
         /\ Held(db, job.ingestion.document)
<1>1. /\ job \in [ingestion : Ingestions, next : Nat]
      /\ job.next \in 1..Len(job.ingestion.claims)
      /\ NextClaim \in ClaimRecords
  BY NextClaimType
<1>2. PICK table, row, cell :
        NextClaim = ParsedClaim(table, job.ingestion.document, row, cell)
  BY <1>1, StatementsParsed DEF AllParsed, IsParsed, NextClaim
<1>3. /\ FigureOf(NextClaim, job.ingestion.document)
      /\ NextClaim.asserted = job.ingestion.document.observed
  BY <1>2, ParsedFigure
<1> QED
  BY <1>1, <1>3 DEF SourceInv, ClaimsLeft

LEMMA IngestClaimSourced ==
  ASSUME Inv, SourceInv, IngestClaim
  PROVE  SourceInv'
<1>1. /\ job \in [ingestion : Ingestions, next : Nat]
      /\ NextClaim \in ClaimRecords /\ clock \in Nat /\ Sound(db)
  BY NextClaimType, LedgerAssumption DEF IngestClaim, Inv
<1>2. /\ AcceptsClaim(db, NextClaim, clock)
      /\ db' = RecordClaim(db, NextClaim, clock)
      /\ job' = [job EXCEPT !.next = job.next + 1]
      /\ disk' = disk /\ job # Idle /\ ClaimsLeft
  BY DEF IngestClaim, ClaimsLeft
<1>3. /\ job.ingestion \in Ingestions
      /\ FigureOf(NextClaim, job.ingestion.document)
      /\ Held(db, job.ingestion.document)
  BY <1>2, NextClaimFigure
<1>4. Sourced(db, Stamped(NextClaim, clock))
  BY <1>1, <1>3, StampedFigure DEF Sourced
<1>5. AllSourced(db') /\ Follows(db, db')
  BY <1>1, <1>2, <1>4, RecordClaimSourced, RecordClaimSound DEF SourceInv
<1>6. job'.ingestion = job.ingestion
  BY <1>1, <1>2
<1>7. Held(db', job'.ingestion.document)
  BY <1>3, <1>5, <1>6, HeldStays
<1> QED
  BY <1>2, <1>5, <1>7 DEF SourceInv

LEMMA FinishIngestionSourced ==
  ASSUME Inv, SourceInv, FinishIngestion
  PROVE  SourceInv'
<1> DEFINE event == Event("ingestion.completed", job.ingestion.document.id,
                          "new", clock)
<1>1. /\ db' = [db EXCEPT !.audit = @ \union {event}]
      /\ disk' = db' /\ job' = Idle
  BY DEF FinishIngestion
<1> HIDE DEF event
<1>2. /\ db'.claims = db.claims /\ db'.history = db.history
      /\ db'.evidence = db.evidence
      /\ db'.contradictions = db.contradictions
      /\ db'.audit = db.audit \union {event}
  BY <1>1 DEF Inv, Sound, ImageOK
<1>3. Follows(db, db')
  BY <1>2 DEF Follows
<1>4. AllSourced(db')
  BY <1>2, <1>3, NothingSourced DEF SourceInv
<1> QED
  BY <1>1, <1>4 DEF SourceInv

LEMMA ResolveContradictionSourced ==
  ASSUME Inv, SourceInv, NEW pair \in Pairs, NEW accepted \in ClaimIds,
         ResolveContradiction(pair, accepted)
  PROVE  SourceInv'
<1> DEFINE image == Close(SetClaimStatuses(db, Verdict(pair, accepted, clock)),
                          pair, "resolved", accepted, clock)
<1>1. /\ pair \in StoredContradictions(db)
      /\ db.contradictions[pair].status = "open"
      /\ accepted \in pair /\ Transact(image)
  BY DEF ResolveContradiction
<1>2. clock \in Nat /\ Sound(db)
  BY LedgerAssumption DEF Inv
<1>3. Follows(db, image) /\ image.claims = db.claims
  BY <1>1, <1>2, VerdictFields
<1> HIDE DEF image
<1> QED
  BY <1>1, <1>3, NothingSourced, TransactSourced DEF SourceInv

LEMMA DismissContradictionSourced ==
  ASSUME Inv, SourceInv, NEW pair \in Pairs, DismissContradiction(pair)
  PROVE  SourceInv'
<1> DEFINE image == Close(db, pair, "dismissed", NoVerdict, clock)
<1>1. /\ pair \in StoredContradictions(db)
      /\ db.contradictions[pair].status = "open"
      /\ Transact(image)
  BY DEF DismissContradiction
<1>2. clock \in Nat /\ Sound(db)
  BY LedgerAssumption DEF Inv
<1>3. Follows(db, image)
  BY <1>1, <1>2, CloseSound
<1>4. image.claims = db.claims
  BY <1>1, <1>2, CloseFields DEF Sound, ContradictionStatuses
<1> HIDE DEF image
<1> QED
  BY <1>1, <1>3, <1>4, NothingSourced, TransactSourced DEF SourceInv

LEMMA SetClaimStatusSourced ==
  ASSUME Inv, SourceInv, NEW c \in ClaimIds, NEW status \in ClaimStatuses,
         SetClaimStatus(c, status)
  PROVE  SourceInv'
<1> DEFINE target == [e \in {c} |-> [status |-> status, at |-> clock]]
           image == SetClaimStatuses(db, target)
<1>1. c \in StoredClaims(db) /\ Transact(image)
  BY DEF SetClaimStatus
<1>2. clock \in Nat /\ Sound(db)
  BY LedgerAssumption DEF Inv
<1>3. target \in Targets(db)
  <2>1. target \in [{c} -> [status : ClaimStatuses, at : Nat]]
    BY <1>2
  <2> QED
    BY <1>1, <2>1 DEF Targets
<1> HIDE DEF target
<1>4. Follows(db, image) /\ image.claims = db.claims
  BY <1>2, <1>3, SetClaimStatusesSound, SetClaimStatusesFields DEF Sound
<1> HIDE DEF image
<1> QED
  BY <1>1, <1>4, NothingSourced, TransactSourced DEF SourceInv

LEMMA SourceStep ==
  ASSUME Inv, SourceInv, [Next]_vars
  PROVE  SourceInv'
<1>1. CASE \E c \in Submissions : PostClaim(c)
  BY <1>1, PostClaimSourced
<1>2. CASE \E i \in Ingestions : StartIngestion(i)
  BY <1>2, StartIngestionSourced
<1>3. CASE IngestClaim
  BY <1>3, IngestClaimSourced
<1>4. CASE RejectIngestion \/ Crash
  BY <1>4 DEF RejectIngestion, Crash, SourceInv
<1>5. CASE FinishIngestion
  BY <1>5, FinishIngestionSourced
<1>6. CASE \E pair \in Pairs, accepted \in ClaimIds :
             ResolveContradiction(pair, accepted)
  BY <1>6, ResolveContradictionSourced
<1>7. CASE \E pair \in Pairs : DismissContradiction(pair)
  BY <1>7, DismissContradictionSourced
<1>8. CASE \E c \in ClaimIds, status \in ClaimStatuses :
             SetClaimStatus(c, status)
  BY <1>8, SetClaimStatusSourced
<1>9. CASE Tick \/ StepBack
  BY <1>9 DEF Tick, StepBack, SourceInv
<1>10. CASE UNCHANGED vars
  BY <1>10 DEF vars, SourceInv
<1> QED
  BY <1>1, <1>2, <1>3, <1>4, <1>5, <1>6, <1>7, <1>8, <1>9, <1>10 DEF Next

-----------------------------------------------------------------------------
(* The causes.                                                             *)

\* The identifier of a parsed claim is taken by a posted claim, or by the same
\* figure printed in another way.
LEMMA TakenForCause ==
  ASSUME NEW d, Sound(d), AllSourced(d), NEW i \in Ingestions,
         Held(d, i.document), NEW c \in ClaimRecords, FigureOf(c, i.document),
         IdentifierTaken(d, c)
  PROVE  \/ \E e \in StoredClaims(d) : PrintedTwice(c, d.claims[e])
         \/ c.id \in {s.id : s \in Submissions}
<1> DEFINE e == d.claims[c.id]
<1>1. /\ c.id \in StoredClaims(d) /\ Fingerprint(e) # Fingerprint(c)
      /\ e \in ClaimRecords /\ e.id = c.id
  BY ImageFields DEF IdentifierTaken, Sound, HistoryOK, StoredClaims
<1> HIDE DEF e
<1>2. Sourced(d, e)
  BY <1>1 DEF AllSourced, e
<1>3. CASE e.id \in {s.id : s \in Submissions}
  BY <1>1, <1>3
<1>4. CASE \E j \in Ingestions : FigureOf(e, j.document) /\ Held(d, j.document)
  <2>1. PICK j \in Ingestions : FigureOf(e, j.document) /\ Held(d, j.document)
    BY <1>4
  <2>2. /\ i.document.id = j.document.id
        /\ c.key = e.key /\ c.effective = e.effective /\ c.value = e.value
        /\ c.evidence = e.evidence /\ c.expires = e.expires
        /\ c.kind = e.kind /\ c.supersedes = e.supersedes
    BY <1>1, <2>1, SameFigure
  <2>3. i.document \in EvidenceRecords /\ j.document \in EvidenceRecords
    BY LedgerAssumption
  <2>4. ConfidenceIn(i.document) = ConfidenceIn(j.document)
    BY <2>1, <2>2, <2>3, HeldAlike DEF Sound
  <2>5. c.confidence = e.confidence
    BY <2>1, <2>4 DEF FigureOf
  <2>6. c.period # e.period \/ c.unit # e.unit \/ c.detail # e.detail
    BY <1>1, <2>2, <2>5, SameFingerprint
  <2>7. PrintedTwice(c, e)
    BY <2>2, <2>6 DEF PrintedTwice
  <2> QED
    BY <1>1, <2>7 DEF e
<1> QED
  BY <1>2, <1>3, <1>4 DEF Sourced

\* A parsed claim lacks support only if its document comes from the future.
LEMMA SupportedByItsDocument ==
  ASSUME NEW d, Sound(d), NEW now \in Nat, NEW document \in EvidenceRecords,
         Held(d, document), NEW c \in ClaimRecords, FigureOf(c, document),
         c.asserted = document.observed,
         \A e \in c.evidence : d.evidence[e].ingested <= now
  PROVE  Supported(d, Stamped(c, now))
<1> DEFINE s == Stamped(c, now)
           stored == d.evidence[document.id]
<1>1. /\ s.evidence = c.evidence /\ s.confidence = c.confidence
      /\ s.asserted = IF TrustClientTimestamps THEN c.asserted ELSE now
  BY DEF Stamped, ClaimRecords
<1>2. /\ document.id \in StoredEvidence(d)
      /\ stored \in EvidenceRecords
      /\ stored.observed = document.observed
      /\ stored.trust = document.trust
  BY ImageFields DEF Held, StoredEvidence, SameDocument, EvidenceRecords, Sound
<1>3. c.evidence = {document.id} /\ c.confidence = ConfidenceIn(document)
  BY DEF FigureOf
<1>4. /\ stored.ingested \in Nat /\ stored.observed \in Nat
      /\ stored.trust \in Nat /\ stored.ingested <= now
  BY <1>2, <1>3 DEF EvidenceRecords
<1> HIDE DEF s, stored
<1>5. KnowledgeTime(stored) <= s.asserted
  BY <1>1, <1>2, <1>4 DEF KnowledgeTime
<1>6. s.confidence <= stored.trust
  BY <1>1, <1>2, <1>3, <1>4 DEF ConfidenceIn
<1> QED
  BY <1>1, <1>2, <1>3, <1>5, <1>6 DEF Supported, s, stored

LEMMA RejectedForCause ==
  ASSUME Inv, SourceInv
  PROVE  RejectedOnlyForCause
<1> SUFFICES ASSUME ClaimsLeft, ~AcceptsClaim(db, NextClaim, clock),
                    ~ClockBeforeEvidence(NextClaim)
             PROVE  \/ \E c \in StoredClaims(db) :
                         PrintedTwice(NextClaim, db.claims[c])
                    \/ NextClaim.id \in {c.id : c \in Submissions}
  BY DEF RejectedOnlyForCause
<1> DEFINE document == job.ingestion.document
<1>1. /\ job.ingestion \in Ingestions
      /\ NextClaim \in ClaimRecords
      /\ FigureOf(NextClaim, document)
      /\ NextClaim.asserted = document.observed
      /\ Held(db, document)
  BY NextClaimFigure
<1>2. document \in EvidenceRecords /\ clock \in Nat /\ Sound(db)
  BY <1>1, LedgerAssumption DEF Inv
<1>3. SupersedesSoundly(db, NextClaim)
  BY <1>1 DEF SupersedesSoundly, FigureOf
<1>4. Supported(db, Stamped(NextClaim, clock))
  <2>1. document.id \in StoredEvidence(db)
        /\ NextClaim.evidence = {document.id}
    BY <1>1 DEF Held, FigureOf
  <2>2. db.evidence[document.id] \in EvidenceRecords
    BY <1>2, <2>1, ImageFields DEF StoredEvidence, Sound
  <2>3. db.evidence[document.id].ingested \in Nat
    BY <2>2 DEF EvidenceRecords
  <2>4. ~(clock < db.evidence[document.id].ingested)
    BY <2>1 DEF ClockBeforeEvidence
  <2>5. \A e \in NextClaim.evidence : db.evidence[e].ingested <= clock
    BY <1>2, <2>1, <2>3, <2>4
  <2> QED
    BY <1>1, <1>2, <2>5, SupportedByItsDocument
<1>5. IdentifierTaken(db, NextClaim)
  BY <1>3, <1>4 DEF AcceptsClaim
<1> QED
  BY <1>1, <1>2, <1>5, TakenForCause DEF SourceInv

-----------------------------------------------------------------------------
(* The theorem.                                                            *)

\* An ingestion is only ever rejected because a figure is printed twice in
\* different ways, because a caller took the identifier, or because the clock
\* was set back before the arrival of the document, whatever the filings, their
\* tables and the posted claims.
THEOREM RejectionsHaveCauses == Spec => []RejectedOnlyForCause
<1>1. Init => SourceInv
  BY DEF Init, SourceInv, AllSourced, EmptyImage, StoredClaims
<1>2. Inv /\ SourceInv /\ [Next]_vars => SourceInv'
  BY SourceStep
<1>3. Inv /\ SourceInv => RejectedOnlyForCause
  BY RejectedForCause
<1> QED
  BY <1>1, <1>2, <1>3, Invariance, PTL DEF Spec
=============================================================================
