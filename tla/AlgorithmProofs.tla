---------------------------- MODULE AlgorithmProofs ----------------------------
(***************************************************************************)
(* The contradiction detector, the statement parser, the audit chain, the  *)
(* bounded fetch and the calculators, for any claims, tolerances, figures, *)
(* histories, damaged tables, bodies, amounts, rates and series.           *)
(***************************************************************************)
EXTENDS AlgorithmCheck, FiniteSetTheorems, WellFoundedInduction,
        SequenceTheorems, TLAPS

\* Induction over the natural numbers in a set, instead of in a predicate.
LEMMA NaturalInduction ==
  ASSUME NEW S, 0 \in S, \A k \in Nat : k \in S => k + 1 \in S
  PROVE  Nat \subseteq S
<1> SUFFICES ASSUME Nat \ S # {} PROVE FALSE
  OBVIOUS
<1> DEFINE R == {ss \in Nat \X Nat : ss[1] < ss[2]}
           T == Nat \ S
<1>0. IsWellFoundedOn(R, Nat)
  BY NatLessThanWellFounded DEF OpToRel
<1>1. PICK n \in T : \A m \in T : ~(<<m, n>> \in R)
  <2>1. T \subseteq Nat /\ T # {}
    OBVIOUS
  <2> HIDE DEF R, T
  <2> QED
    BY <1>0, <2>1, WFMin
<1>2. n # 0
  OBVIOUS
<1>3. n - 1 \in Nat /\ n - 1 < n
  BY <1>2
<1>4. <<n - 1, n>> \in R
  BY <1>3
<1>5. n - 1 \in S
  BY <1>1, <1>3, <1>4
<1>6. (n - 1) + 1 \in S
  BY <1>3, <1>5
<1> QED
  BY <1>6

-----------------------------------------------------------------------------
(* The detector.                                                           *)

\* Whatever has been picked is an input.
Picked == first \in Inputs /\ (second = Open \/ second \in Seconds(first))

LEMMA PickedAlways == Spec => []Picked
<1>1. Init => Picked
  BY DEF Init, Picked
<1>2. Picked /\ [Next]_vars => Picked'
  BY DEF Picked, Next, Pick, vars
<1> QED
  BY <1>1, <1>2, PTL DEF Spec

LEMMA PickedCompared ==
  ASSUME Picked, InputOf("detect")
  PROVE  /\ first.claim \in Compared /\ second \in Compared
         /\ DOMAIN second = Fields
         /\ first.claim.value \in Int /\ second.value \in Int
<1>1. first \in Inputs /\ first.algorithm = "detect" /\ second \in Seconds(first)
  BY DEF Picked, InputOf
<1>2. first.claim \in Compared
  BY <1>1 DEF Compared
<1>3. second \in Compared
  BY <1>1, AlgorithmAssumption
<1> QED
  BY <1>2, <1>3, AlgorithmAssumption

LEMMA DetectSymmetric ==
  ASSUME NEW left, NEW right, left.value \in Int, right.value \in Int
  PROVE  Answer(left, right) = Answer(right, left)
<1>1. Comparable(left, left.status, right, right.status)
        <=> Comparable(right, right.status, left, left.status)
  BY DEF Comparable, SameReportingContext
<1>2. DecimalSeverity(left.value, right.value)
        = DecimalSeverity(right.value, left.value)
  BY DetectorAssumption
  DEF DecimalSeverity, WithinTolerance, IsMaterial, Delta, Baseline, Larger, Abs
<1> QED
  BY <1>1, <1>2 DEF Answer, Detect

-----------------------------------------------------------------------------
(* The severity of a disagreement.                                         *)

\* As an amount moves away, the baseline grows at most as fast as the
\* disagreement.
LEMMA BaselineGrows ==
  ASSUME NEW a \in Int, NEW b \in Int, NEW c \in Int,
         (a <= b /\ b <= c) \/ (a >= b /\ b >= c)
  PROVE  /\ Delta(a, b) \in Nat /\ Delta(a, c) \in Nat
         /\ Baseline(a, b) \in Nat /\ Baseline(a, c) \in Nat
         /\ Delta(a, b) <= Delta(a, c)
         /\ Baseline(a, b) <= Baseline(a, c)
         /\ Baseline(a, c) - Baseline(a, b) <= Delta(a, c) - Delta(a, b)
BY DEF Delta, Baseline, Larger, Abs

\* A fraction of at most the whole grows no faster.
LEMMA FractionGrows ==
  ASSUME NEW r \in Nat, r <= 1000, NEW d \in Nat, NEW e \in Nat,
         NEW x \in Nat, NEW y \in Nat, d <= e, x <= y, y - x <= e - d
  PROVE  /\ x * r \in Nat /\ y * r \in Nat
         /\ y * r - x * r <= e * 1000 - d * 1000
<1>1. PICK w \in Nat : y = x + w
  <2>1. y - x \in Nat /\ y = x + (y - x)
    OBVIOUS
  <2> QED
    BY <2>1
<1>2. x * r \in Nat /\ w * r \in Nat
  OBVIOUS
<1>3. y * r = x * r + w * r
  BY <1>1
<1>4. w * r <= w * 1000
  BY <1>1
<1>5. w * 1000 <= e * 1000 - d * 1000
  BY <1>1
<1> QED
  BY <1>2, <1>3, <1>4, <1>5

\* With tolerances of at most the whole amount, a disagreement stays one and
\* stays material as it grows.
LEMMA DecimalMonotone ==
  ASSUME RelativeTolerance <= 1000, MaterialRelativeDelta <= 1000,
         NEW a \in Int, NEW b \in Int, NEW c \in Int,
         (a <= b /\ b <= c) \/ (a >= b /\ b >= c)
  PROVE  /\ WithinTolerance(a, c) => WithinTolerance(a, b)
         /\ IsMaterial(a, b) => IsMaterial(a, c)
<1> DEFINE d == Delta(a, b)
           e == Delta(a, c)
           x == Baseline(a, b)
           y == Baseline(a, c)
<1>1. /\ d \in Nat /\ e \in Nat /\ x \in Nat /\ y \in Nat
      /\ d <= e /\ x <= y /\ y - x <= e - d
  BY BaselineGrows
<1>2. /\ WithinTolerance(a, b) <=>
           d <= AbsoluteTolerance \/ d * 1000 <= x * RelativeTolerance
      /\ WithinTolerance(a, c) <=>
           e <= AbsoluteTolerance \/ e * 1000 <= y * RelativeTolerance
      /\ IsMaterial(a, b) <=> d * 1000 >= x * MaterialRelativeDelta
      /\ IsMaterial(a, c) <=> e * 1000 >= y * MaterialRelativeDelta
  BY DEF WithinTolerance, IsMaterial
<1> HIDE DEF d, e, x, y
<1>3. /\ x * RelativeTolerance \in Nat /\ y * RelativeTolerance \in Nat
      /\ y * RelativeTolerance - x * RelativeTolerance <= e * 1000 - d * 1000
  BY <1>1, FractionGrows, DetectorAssumption
<1>4. /\ x * MaterialRelativeDelta \in Nat /\ y * MaterialRelativeDelta \in Nat
      /\ y * MaterialRelativeDelta - x * MaterialRelativeDelta
           <= e * 1000 - d * 1000
  BY <1>1, FractionGrows, DetectorAssumption
<1>5. WithinTolerance(a, c) => WithinTolerance(a, b)
  BY <1>1, <1>2, <1>3, DetectorAssumption
<1>6. IsMaterial(a, b) => IsMaterial(a, c)
  BY <1>1, <1>2, <1>4
<1> QED
  BY <1>5, <1>6

LEMMA RankMonotone ==
  ASSUME RelativeTolerance <= 1000, MaterialRelativeDelta <= 1000,
         NEW claim, NEW other, DOMAIN other = Fields, other.kind = "decimal",
         NEW further \in Int, claim.value \in Int, other.value \in Int,
         \/ claim.value <= other.value /\ other.value <= further
         \/ claim.value >= other.value /\ other.value >= further
  PROVE  Rank(Answer(claim, other))
           <= Rank(Answer(claim, [other EXCEPT !.value = further]))
<1> DEFINE moved == [other EXCEPT !.value = further]
<1>1. /\ moved.id = other.id /\ moved.key = other.key
      /\ moved.period = other.period /\ moved.effective = other.effective
      /\ moved.kind = other.kind /\ moved.unit = other.unit
      /\ moved.supersedes = other.supersedes /\ moved.status = other.status
      /\ moved.value = further
  BY DEF Fields
<1> HIDE DEF moved
<1>2. Comparable(claim, claim.status, other, other.status)
        <=> Comparable(claim, claim.status, moved, moved.status)
  BY <1>1 DEF Comparable, SameReportingContext
<1>3. Rank(DecimalSeverity(claim.value, other.value))
        <= Rank(DecimalSeverity(claim.value, further))
  <2>1. /\ WithinTolerance(claim.value, further)
             => WithinTolerance(claim.value, other.value)
        /\ IsMaterial(claim.value, other.value)
             => IsMaterial(claim.value, further)
    <3>1. ASSUME NEW a \in Int, NEW b \in Int,
                 (a <= b /\ b <= further) \/ (a >= b /\ b >= further)
          PROVE  /\ WithinTolerance(a, further) => WithinTolerance(a, b)
                 /\ IsMaterial(a, b) => IsMaterial(a, further)
      BY <3>1, DecimalMonotone
    <3> QED
      BY <3>1
  <2> QED
    BY <2>1 DEF DecimalSeverity, Rank, Agreement
<1>4. Rank(Agreement) <= Rank(Agreement) /\ Rank("material") <= Rank("material")
      /\ Rank("warning") <= Rank("warning")
  BY DEF Rank, Agreement
<1>5. Rank(Answer(claim, other)) <= Rank(Answer(claim, moved))
  BY <1>1, <1>2, <1>3, <1>4 DEF Answer, Detect
<1> QED
  BY <1>5 DEF moved

-----------------------------------------------------------------------------
(* The theorems about the detector.                                        *)

\* Whether and how severely two claims contradict each other does not depend on
\* which of them came first, for any claims and tolerances.
THEOREM ArrivalIsIrrelevant == Spec => []OrderOfArrivalIrrelevant
<1>1. Picked => OrderOfArrivalIrrelevant
  BY PickedCompared, DetectSymmetric DEF OrderOfArrivalIrrelevant
<1> QED
  BY <1>1, PickedAlways, PTL

\* If neither relative tolerance is more than the whole amount, a larger
\* disagreement is never reported as a milder one.
THEOREM SeverityIsMonotone ==
  ASSUME RelativeTolerance <= 1000, MaterialRelativeDelta <= 1000
  PROVE  Spec => []SeverityMonotone
<1>1. Picked => SeverityMonotone
  BY PickedCompared, RankMonotone, AlgorithmAssumption DEF SeverityMonotone
<1> QED
  BY <1>1, PickedAlways, PTL

-----------------------------------------------------------------------------
(* The statement parser.                                                   *)

\* A table of one figure yields its claim.
LEMMA OneOutcome ==
  ASSUME NEW table, NEW document, NEW row, NEW claim, table.rows = <<row>>,
         RowOutcomes(table, document, row) = <<claim>>
  PROVE  Outcomes(table, document) = <<claim>>
<1> DEFINE yielded[k \in 0..Len(table.rows)] ==
             IF k = 0 THEN <<>>
             ELSE yielded[k - 1] \o RowOutcomes(table, document, table.rows[k])
<1>1. yielded = [k \in 0..Len(table.rows) |->
                   IF k = 0 THEN <<>>
                   ELSE yielded[k - 1]
                          \o RowOutcomes(table, document, table.rows[k])]
  <2> DEFINE one == [k \in 0..1 |-> IF k = 0 THEN <<>> ELSE <<claim>>]
             And(s, k) == s \o RowOutcomes(table, document, table.rows[k])
  <2>1. Len(table.rows) = 1 /\ table.rows[1] = row
    OBVIOUS
  <2>2. one[0] = <<>> /\ one[1] = <<claim>>
    OBVIOUS
  <2>3. And(<<>>, 1) = <<claim>>
    BY <2>1
  <2> HIDE DEF And
  <2>4. one = [k \in 0..1 |-> IF k = 0 THEN <<>> ELSE And(one[k - 1], k)]
    BY <2>2, <2>3
  <2>5. \E f : f = [k \in 0..Len(table.rows) |->
                      IF k = 0 THEN <<>> ELSE And(f[k - 1], k)]
    BY <2>1, <2>4
  <2> QED
    BY <2>5 DEF And
<1>2. Outcomes(table, document) = yielded[Len(table.rows)]
  BY DEF Outcomes
<1> HIDE DEF yielded
<1>3. Len(table.rows) = 1 /\ table.rows[1] = row
  OBVIOUS
<1>4. yielded[0] = <<>>
  BY <1>1, <1>3
<1>5. yielded[1] = yielded[0] \o <<claim>>
  <2> DEFINE And(s, k) == s \o RowOutcomes(table, document, table.rows[k])
  <2>1. yielded = [k \in 0..1 |-> IF k = 0 THEN <<>> ELSE And(yielded[k - 1], k)]
    BY <1>1, <1>3
  <2> HIDE DEF And
  <2>2. yielded[1] = And(yielded[0], 1)
    BY <2>1
  <2> QED
    BY <1>3, <2>2 DEF And
<1> QED
  BY <1>2, <1>3, <1>4, <1>5

LEMMA OneSorted ==
  ASSUME NEW claim, "code" \notin DOMAIN claim
  PROVE  Sorted(<<claim>>).claims = <<claim>>
<1> DEFINE outcomes == <<claim>>
           Empty == [claims |-> <<>>, issues |-> <<>>]
           Put(s, o) == IF "code" \in DOMAIN o
                        THEN [s EXCEPT !.issues = Append(@, o)]
                        ELSE [s EXCEPT !.claims = Append(@, o)]
           sorted[k \in 0..Len(outcomes)] ==
             IF k = 0 THEN [claims |-> <<>>, issues |-> <<>>]
             ELSE IF "code" \in DOMAIN outcomes[k]
             THEN [sorted[k - 1] EXCEPT !.issues = Append(@, outcomes[k])]
             ELSE [sorted[k - 1] EXCEPT !.claims = Append(@, outcomes[k])]
<1>1. Len(outcomes) = 1 /\ outcomes[1] = claim
  OBVIOUS
<1>2. Put(Empty, claim).claims = <<claim>>
  OBVIOUS
<1>3. sorted = [k \in 0..Len(outcomes) |->
                  IF k = 0 THEN Empty ELSE Put(sorted[k - 1], outcomes[k])]
  <2> DEFINE one == [k \in 0..1 |-> IF k = 0 THEN Empty ELSE Put(Empty, claim)]
  <2> HIDE DEF outcomes, Empty, Put
  <2>1. one[0] = Empty /\ one[1] = Put(Empty, claim)
    OBVIOUS
  <2>2. one = [k \in 0..1 |-> IF k = 0 THEN Empty ELSE Put(one[k - 1], outcomes[k])]
    BY <1>1, <2>1
  <2>3. \E f : f = [k \in 0..Len(outcomes) |->
                      IF k = 0 THEN Empty ELSE Put(f[k - 1], outcomes[k])]
    BY <1>1, <2>2
  <2> QED
    BY <2>3 DEF Empty, Put
<1>4. Sorted(outcomes) = sorted[Len(outcomes)]
  BY DEF Sorted
<1> HIDE DEF sorted, outcomes, Empty, Put
<1>5. sorted[0] = Empty /\ sorted[1] = Put(sorted[0], claim)
  BY <1>1, <1>3
<1> QED
  BY <1>1, <1>2, <1>4, <1>5 DEF outcomes

LEMMA OneClaim ==
  ASSUME NEW table, NEW document, NEW row, NEW cell,
         table.rows = <<row>>, row.cells = <<cell>>,
         row.label \in DOMAIN Catalog, cell.raw.form = "figure"
  PROVE  Parse(table, document).claims[1]
           = ParsedClaim(table, document, row, cell)
<1> DEFINE claim == ParsedClaim(table, document, row, cell)
<1>1. "code" \notin DOMAIN claim
  BY DEF ParsedClaim
<1>2. CellOutcome(table, document, row, cell) = claim
  BY DEF CellOutcome
<1> HIDE DEF claim
<1>3. RowOutcomes(table, document, row) = <<claim>>
  <2>1. Len(row.cells) = 1 /\ row.cells[1] = cell
    OBVIOUS
  <2>2. RowOutcomes(table, document, row)
          = [k \in 1..1 |-> CellOutcome(table, document, row, row.cells[k])]
    BY <2>1 DEF RowOutcomes
  <2> QED
    BY <1>2, <2>1, <2>2
<1>4. Outcomes(table, document) = <<claim>>
  BY <1>3, OneOutcome
<1>5. Parse(table, document).claims = <<claim>>
  BY <1>1, <1>4, OneSorted DEF Parse
<1>6. Parse(table, document).claims[1] = claim
  BY <1>5
<1> QED
  BY <1>6 DEF claim

\* The sign of a figure, and its amount.
Signed(figure) == IF figure.bracketed THEN -figure.amount ELSE figure.amount

\* The unit of the claim, with its currency.
UnitsOf(figure) ==
  LET unit == IF figure.percent THEN "percent" ELSE Catalog[figure.label].unit
  IN  <<IF unit \in {"currency", "currency_per_share"} THEN "THB" ELSE Unstated,
        unit>>

IsFigure(figure, scale) ==
  /\ figure \in [algorithm : {"parse"}, label : DOMAIN Catalog,
                 amount : Int, bracketed : BOOLEAN, percent : BOOLEAN]
  /\ Catalog[figure.label].scaled \in BOOLEAN
  /\ Catalog[figure.label].scaled
       <=> Catalog[figure.label].unit # "currency_per_share"
  /\ scale \in DOMAIN Multiplier
  /\ figure.amount % Multiplier[scale] = 0

\* Dividing the amount by the scale and multiplying it again gives it back.
LEMMA ScaledBack ==
  ASSUME NEW scale \in DOMAIN Multiplier, NEW n \in Int,
         n % Multiplier[scale] = 0
  PROVE  /\ (n \div Multiplier[scale]) * Multiplier[scale] = n
         /\ (-(n \div Multiplier[scale])) * Multiplier[scale] = -n
         /\ n \div Multiplier[scale] \in Int
<1> DEFINE m == Multiplier[scale]
<1>1. m \in {1, 1000, 1000000, 1000000000} /\ n % m = 0
  BY DEF Multiplier
<1> HIDE DEF m
<1>2. (n \div m) * m = n /\ (-(n \div m)) * m = -n /\ n \div m \in Int
  <2>1. CASE m = 1
    BY <1>1, <2>1
  <2>2. CASE m = 1000
    BY <1>1, <2>2
  <2>3. CASE m = 1000000
    BY <1>1, <2>3
  <2>4. CASE m = 1000000000
    BY <1>1, <2>4
  <2> QED
    BY <1>1, <2>1, <2>2, <2>3, <2>4
<1> QED
  BY <1>2 DEF m

\* What the claim of a figure has: its value does not depend on the scale.
ClaimOf(c, figure, filing) ==
  /\ c.id = <<"company", Catalog[figure.label].predicate, 1, Signed(figure),
              filing>>
  /\ c.key = <<"company", Catalog[figure.label].predicate>>
  /\ c.period = <<Unstated, 1>> /\ c.effective = 1
  /\ c.kind = "decimal" /\ c.unit = UnitsOf(figure)
  /\ c.value = Signed(figure) /\ c.supersedes = NoClaim

LEMMA ClaimOfFigure ==
  ASSUME NEW figure, NEW scale, NEW filing, IsFigure(figure, scale)
  PROVE  ClaimOf(ClaimFrom(figure, filing, scale), figure, filing)
<1> DEFINE raw == [form |-> "figure", amount |-> PrintedAmount(figure, scale),
                   bracketed |-> figure.bracketed, percent |-> figure.percent,
                   spelling |-> "plain"]
           cell == [start |-> Unstated, end |-> 1, raw |-> raw]
           row == [label |-> figure.label, unit |-> Unstated, cells |-> <<cell>>]
           table == [subject |-> "company", type |-> "income", currency |-> "THB",
                     scale |-> scale, rows |-> <<row>>]
           document == [id |-> filing, observed |-> 0, trust |-> 95]
           metric == Catalog[figure.label]
           c == ParsedClaim(table, document, row, cell)
<1>1. /\ figure.label \in DOMAIN Catalog /\ figure.amount \in Int
      /\ figure.bracketed \in BOOLEAN /\ figure.percent \in BOOLEAN
      /\ metric.scaled <=> metric.unit # "currency_per_share"
      /\ scale \in DOMAIN Multiplier
      /\ figure.amount % Multiplier[scale] = 0
  BY DEF IsFigure
<1>2. /\ raw.form = "figure" /\ raw.amount = PrintedAmount(figure, scale)
      /\ raw.bracketed = figure.bracketed /\ raw.percent = figure.percent
  OBVIOUS
<1>3. cell.raw = raw /\ cell.end = 1 /\ cell.start = Unstated
  OBVIOUS
<1>4. row.label = figure.label /\ row.unit = Unstated /\ row.cells = <<cell>>
  OBVIOUS
<1>5. /\ table.subject = "company" /\ table.currency = "THB"
      /\ table.scale = scale /\ table.rows = <<row>>
  OBVIOUS
<1>6. document.id = filing
  OBVIOUS
<1>7. ClaimFrom(figure, filing, scale) = Parse(table, document).claims[1]
  BY DEF ClaimFrom
<1> HIDE DEF raw, cell, row, table, document
<1>8. Parse(table, document).claims[1] = c
  BY <1>1, <1>2, <1>3, <1>4, <1>5, OneClaim
<1>9. ValueOf(table, metric, raw) = Signed(figure)
  <2>1. CASE figure.percent
    BY <1>2, <2>1 DEF ValueOf, Printed, PrintedAmount, Signed
  <2>2. CASE ~figure.percent /\ metric.unit = "currency_per_share"
    BY <1>1, <1>2, <2>2 DEF ValueOf, Printed, PrintedAmount, Signed
  <2>3. CASE ~figure.percent /\ metric.unit # "currency_per_share"
    <3> DEFINE q == figure.amount \div Multiplier[scale]
    <3>1. raw.amount = q /\ metric.scaled /\ ~raw.percent
      BY <1>1, <1>2, <2>3 DEF PrintedAmount
    <3>2. /\ q * Multiplier[scale] = figure.amount
          /\ (-q) * Multiplier[scale] = -figure.amount
      BY <1>1, ScaledBack
    <3>3. ValueOf(table, metric, raw) = Printed(raw) * Multiplier[scale]
      BY <1>5, <3>1 DEF ValueOf
    <3> HIDE DEF q
    <3>4. CASE figure.bracketed
      BY <1>2, <3>1, <3>2, <3>3, <3>4 DEF Printed, Signed
    <3>5. CASE ~figure.bracketed
      BY <1>2, <3>1, <3>2, <3>3, <3>5 DEF Printed, Signed
    <3> QED
      BY <3>4, <3>5
  <2> QED
    BY <2>1, <2>2, <2>3
<1>10. UnitOf(row, metric, raw)
         = IF figure.percent THEN "percent" ELSE metric.unit
  BY <1>2, <1>4 DEF UnitOf
<1>11. /\ c.id = ParsedId("company", metric, cell, Signed(figure), document)
       /\ c.key = <<"company", metric.predicate>>
       /\ c.period = <<Unstated, 1>> /\ c.effective = 1
       /\ c.kind = "decimal"
       /\ c.unit = <<CurrencyOf(table, UnitOf(row, metric, raw)),
                     UnitOf(row, metric, raw)>>
       /\ c.value = Signed(figure) /\ c.supersedes = NoClaim
  <2> HIDE DEF metric
  <2>1. Catalog[row.label] = metric
    BY <1>4 DEF metric
  <2>2. /\ c.id = ParsedId(table.subject, metric, cell,
                           ValueOf(table, metric, cell.raw), document)
        /\ c.key = <<table.subject, metric.predicate>>
        /\ c.period = <<cell.start, cell.end>> /\ c.effective = cell.end
        /\ c.kind = "decimal"
        /\ c.unit = <<CurrencyOf(table, UnitOf(row, metric, cell.raw)),
                      UnitOf(row, metric, cell.raw)>>
        /\ c.value = ValueOf(table, metric, cell.raw)
        /\ c.supersedes = NoClaim
    BY <2>1 DEF ParsedClaim
  <2> QED
    BY <1>3, <1>5, <1>9, <2>2
<1>12. c.unit = UnitsOf(figure)
  BY <1>5, <1>10, <1>11 DEF CurrencyOf, UnitsOf
<1>13. c.id = <<"company", metric.predicate, 1, Signed(figure), filing>>
  BY <1>3, <1>6, <1>11 DEF ParsedId
<1>14. c = ClaimFrom(figure, filing, scale)
  BY <1>7, <1>8
<1> HIDE DEF c
<1>15. ClaimOf(c, figure, filing)
  BY <1>11, <1>12, <1>13 DEF ClaimOf
<1> QED
  BY <1>14, <1>15

\* An amount does not disagree with itself, and disagrees with its opposite.
LEMMA OppositeDisagrees ==
  ASSUME RelativeTolerance < 2000, NEW n \in Int, 2 * Abs(n) > AbsoluteTolerance
  PROVE  /\ DecimalSeverity(n, n) = Agreement
         /\ DecimalSeverity(n, -n) # Agreement
         /\ DecimalSeverity(-n, n) # Agreement
<1>1. AbsoluteTolerance \in Nat /\ RelativeTolerance \in Nat
  BY DetectorAssumption
<1>2. PICK a \in Nat \ {0} : a = Abs(n)
  BY <1>1 DEF Abs
<1>3. /\ Delta(n, n) = 0 /\ Delta(n, -n) = 2 * a /\ Delta(-n, n) = 2 * a
      /\ Baseline(n, -n) = a /\ Baseline(-n, n) = a
  BY <1>2 DEF Delta, Baseline, Larger, Abs
<1>4. a * RelativeTolerance < (2 * a) * 1000
  <2>1. PICK d \in Nat \ {0} : RelativeTolerance = 2000 - d
    <3>1. 2000 - RelativeTolerance \in Nat \ {0}
      BY <1>1
    <3>2. RelativeTolerance = 2000 - (2000 - RelativeTolerance)
      BY <1>1
    <3> QED
      BY <3>1, <3>2
  <2>2. a * d > 0 /\ a * d \in Nat
    BY <1>2, <2>1
  <2>3. a * RelativeTolerance = 2000 * a - a * d
    BY <1>2, <2>1
  <2> QED
    BY <2>2, <2>3
<1>5. WithinTolerance(n, n)
  BY <1>1, <1>3 DEF WithinTolerance
<1>6. ~WithinTolerance(n, -n) /\ ~WithinTolerance(-n, n)
  BY <1>1, <1>2, <1>3, <1>4 DEF WithinTolerance
<1> QED
  BY <1>5, <1>6 DEF DecimalSeverity, Agreement

LEMMA ScalesAgree ==
  ASSUME \A subject, predicate, end, value, document :
           NoClaim # <<subject, predicate, end, value, document>>,
         RelativeTolerance < 2000, Picked
  PROVE  ScaleInvariant
<1> DEFINE turned == Opposite(first)
           left == ClaimFrom(first, "original", second.left)
           right == ClaimFrom(first, "amended", second.right)
           opposite == ClaimFrom(turned, "amended", second.right)
           amount == Signed(first)
<1> SUFFICES ASSUME InputOf("parse")
             PROVE  /\ Detect(left, "active", right, "active") = Agreement
                    /\ Detect(left, "active", opposite, "active") # Agreement
  BY DEF ScaleInvariant
<1>1. first \in Inputs /\ first.algorithm = "parse" /\ second \in Seconds(first)
  BY DEF Picked, InputOf
<1>2. /\ IsFigure(first, second.left) /\ IsFigure(first, second.right)
      /\ 2 * Abs(first.amount) > AbsoluteTolerance
  BY <1>1, AlgorithmAssumption DEF IsFigure
<1>3. /\ first.amount \in Int /\ first.bracketed \in BOOLEAN
      /\ IsFigure(turned, second.right)
      /\ turned.label = first.label /\ turned.percent = first.percent
      /\ turned.amount = first.amount
      /\ turned.bracketed <=> ~first.bracketed
  <2>1. first \in [algorithm : {"parse"}, label : DOMAIN Catalog,
                   amount : Int, bracketed : BOOLEAN, percent : BOOLEAN]
    BY <1>2 DEF IsFigure
  <2>2. turned = [algorithm |-> first.algorithm, label |-> first.label,
                  amount |-> first.amount, bracketed |-> ~first.bracketed,
                  percent |-> first.percent]
    BY <2>1 DEF Opposite
  <2>3. turned \in [algorithm : {"parse"}, label : DOMAIN Catalog,
                    amount : Int, bracketed : BOOLEAN, percent : BOOLEAN]
    BY <2>1, <2>2
  <2>4. /\ turned.label = first.label /\ turned.percent = first.percent
        /\ turned.amount = first.amount
        /\ turned.bracketed <=> ~first.bracketed
    <3>1. /\ turned.label = first.label /\ turned.percent = first.percent
          /\ turned.amount = first.amount
      BY <2>2
    <3>2. turned.bracketed <=> ~first.bracketed
      <4> DEFINE other == ~first.bracketed
      <4>1. turned = [algorithm |-> first.algorithm, label |-> first.label,
                      amount |-> first.amount, bracketed |-> other,
                      percent |-> first.percent]
        BY <2>2
      <4>2. other \in BOOLEAN /\ (other <=> ~first.bracketed)
        OBVIOUS
      <4> HIDE DEF turned, other
      <4>3. turned.bracketed = other
        BY <4>1
      <4> QED
        BY <4>2, <4>3
    <3> QED
      BY <3>1, <3>2
  <2> HIDE DEF turned
  <2>5. IsFigure(turned, second.right)
    BY <1>2, <2>3, <2>4 DEF IsFigure
  <2> QED
    BY <2>1, <2>4, <2>5
<1> HIDE DEF turned
<1>4. UnitsOf(turned) = UnitsOf(first) /\ Signed(turned) = -amount
      /\ amount \in Int
  BY <1>3 DEF UnitsOf, Signed
<1>5. /\ ClaimOf(left, first, "original")
      /\ ClaimOf(right, first, "amended")
      /\ ClaimOf(opposite, turned, "amended")
  BY <1>2, <1>3, ClaimOfFigure
<1>6. 2 * Abs(amount) > AbsoluteTolerance
  BY <1>2, <1>3, DetectorAssumption DEF Signed, Abs
<1> HIDE DEF left, right, opposite, amount
<1>7. /\ left.value = amount /\ right.value = amount /\ opposite.value = -amount
      /\ left.kind = "decimal" /\ right.kind = "decimal"
      /\ opposite.kind = "decimal"
      /\ left.unit = UnitsOf(first) /\ right.unit = UnitsOf(first)
      /\ opposite.unit = UnitsOf(first)
  BY <1>4, <1>5 DEF ClaimOf, amount
<1>8. Comparable(left, "active", opposite, "active")
  <2>1. left.id # opposite.id
    BY <1>5 DEF ClaimOf
  <2>2. left.supersedes # opposite.id /\ opposite.supersedes # left.id
    BY <1>5 DEF ClaimOf
  <2>3. left.key = opposite.key /\ SameReportingContext(left, opposite)
    BY <1>3, <1>5 DEF ClaimOf, SameReportingContext
  <2> QED
    BY <2>1, <2>2, <2>3 DEF Comparable
<1>9. /\ DecimalSeverity(left.value, right.value) = Agreement
      /\ DecimalSeverity(left.value, opposite.value) # Agreement
  <2>1. /\ DecimalSeverity(amount, amount) = Agreement
        /\ DecimalSeverity(amount, -amount) # Agreement
    BY <1>4, <1>6, OppositeDisagrees
  <2> QED
    BY <1>7, <2>1
<1>10. Detect(left, "active", right, "active") = Agreement
  BY <1>7, <1>9 DEF Detect
<1>11. Detect(left, "active", opposite, "active") # Agreement
  BY <1>7, <1>8, <1>9 DEF Detect
<1> QED
  BY <1>10, <1>11

\* A figure printed in two filings in different scales does not contradict
\* itself and contradicts its opposite, for any catalog that scales all but the
\* amounts per share, any figure, any two scales and any tolerances below 200 %.
\* The first hypothesis says that an identifier is never null.
THEOREM ScaleIsIrrelevant ==
  ASSUME \A subject, predicate, end, value, document :
           NoClaim # <<subject, predicate, end, value, document>>,
         RelativeTolerance < 2000
  PROVE  Spec => []ScaleInvariant
<1>1. Picked => ScaleInvariant
  BY ScalesAgree
<1> QED
  BY <1>1, PickedAlways, PTL

-----------------------------------------------------------------------------
(* The bounded fetch.                                                      *)

\* The bytes of the first k chunks, and those that are kept of them.
Sizes(size, n, chunks) ==
  size = [k \in 0..n |-> IF k = 0 THEN 0 ELSE size[k - 1] + chunks[k]]

Keeps(kept, n, chunks, max) ==
  kept = [k \in 0..n |->
            IF k = 0 THEN 0
            ELSE IF kept[k - 1] = TooLong \/ kept[k - 1] + chunks[k] > max
            THEN TooLong
            ELSE kept[k - 1] + chunks[k]]

LEMMA SizesExist ==
  ASSUME NEW chunks PROVE \A n \in Nat : \E size : Sizes(size, n, chunks)
<1> DEFINE S == {n \in Nat : \E size : Sizes(size, n, chunks)}
<1>1. 0 \in S
  <2> DEFINE none == [k \in 0..0 |-> 0]
  <2>1. Sizes(none, 0, chunks)
    BY DEF Sizes
  <2> QED
    BY <2>1
<1>2. ASSUME NEW n \in Nat, n \in S PROVE n + 1 \in S
  <2>1. PICK size : Sizes(size, n, chunks)
    BY <1>2
  <2> DEFINE more == [k \in 0..(n + 1) |->
                        IF k = n + 1 THEN size[n] + chunks[n + 1] ELSE size[k]]
  <2>2. \A k \in 0..n : size[k] = IF k = 0 THEN 0 ELSE size[k - 1] + chunks[k]
    BY <2>1 DEF Sizes
  <2>3. \A k \in 0..(n + 1) :
          more[k] = IF k = 0 THEN 0 ELSE more[k - 1] + chunks[k]
    BY <2>2
  <2>4. Sizes(more, n + 1, chunks)
    BY <2>3 DEF Sizes
  <2> QED
    BY <2>4
<1> HIDE DEF S
<1>3. Nat \subseteq S
  BY <1>1, <1>2, NaturalInduction
<1> QED
  BY <1>3 DEF S

LEMMA KeptExist ==
  ASSUME NEW chunks, NEW max
  PROVE  \A n \in Nat : \E kept : Keeps(kept, n, chunks, max)
<1> DEFINE Rest(bytes, k) ==
             IF bytes = TooLong \/ bytes + chunks[k] > max THEN TooLong
             ELSE bytes + chunks[k]
           S == {n \in Nat : \E kept : Keeps(kept, n, chunks, max)}
<1>1. 0 \in S
  <2> DEFINE none == [k \in 0..0 |-> 0]
  <2>1. Keeps(none, 0, chunks, max)
    BY DEF Keeps
  <2> QED
    BY <2>1
<1>2. ASSUME NEW n \in Nat, n \in S PROVE n + 1 \in S
  <2>1. PICK kept : Keeps(kept, n, chunks, max)
    BY <1>2
  <2> DEFINE more == [k \in 0..(n + 1) |->
                        IF k = n + 1 THEN Rest(kept[n], n + 1) ELSE kept[k]]
  <2>2. \A k \in 0..n : kept[k] = IF k = 0 THEN 0 ELSE Rest(kept[k - 1], k)
    BY <2>1 DEF Keeps
  <2>3. \A k \in 0..(n + 1) :
          more[k] = IF k = 0 THEN 0 ELSE Rest(more[k - 1], k)
    <3> HIDE DEF Rest
    <3> QED
      BY <2>2
  <2>4. Keeps(more, n + 1, chunks, max)
    BY <2>3 DEF Keeps
  <2> QED
    BY <2>4
<1> HIDE DEF S
<1>3. Nat \subseteq S
  BY <1>1, <1>2, NaturalInduction
<1> QED
  BY <1>3 DEF S

LEMMA BodySizeIs ==
  ASSUME NEW chunks \in Seq(Nat)
  PROVE  \E size : /\ Sizes(size, Len(chunks), chunks)
                   /\ BodySize(chunks) = size[Len(chunks)]
<1> DEFINE size[k \in 0..Len(chunks)] ==
             IF k = 0 THEN 0 ELSE size[k - 1] + chunks[k]
<1>1. \E f : Sizes(f, Len(chunks), chunks)
  <2>1. Len(chunks) \in Nat
    OBVIOUS
  <2> QED
    BY <2>1, SizesExist, Zenon
<1>2. Sizes(size, Len(chunks), chunks)
  BY <1>1 DEF Sizes
<1>3. BodySize(chunks) = size[Len(chunks)]
  BY DEF BodySize
<1> HIDE DEF size
<1> QED
  BY <1>2, <1>3

LEMMA ReadBodyIs ==
  ASSUME NEW chunks \in Seq(Nat), NEW max
  PROVE  \E kept : /\ Keeps(kept, Len(chunks), chunks, max)
                   /\ ReadBody(chunks, max) = kept[Len(chunks)]
<1> DEFINE kept[k \in 0..Len(chunks)] ==
             IF k = 0 THEN 0
             ELSE IF kept[k - 1] = TooLong \/ kept[k - 1] + chunks[k] > max
             THEN TooLong
             ELSE kept[k - 1] + chunks[k]
<1>1. \E f : Keeps(f, Len(chunks), chunks, max)
  <2>1. Len(chunks) \in Nat
    OBVIOUS
  <2> QED
    BY <2>1, KeptExist, Zenon
<1>2. Keeps(kept, Len(chunks), chunks, max)
  BY <1>1 DEF Keeps
<1>3. ReadBody(chunks, max) = kept[Len(chunks)]
  BY DEF ReadBody
<1> HIDE DEF kept
<1> QED
  BY <1>2, <1>3

\* The bytes that are kept are all there are, up to the limit.
LEMMA ReadsWhole ==
  ASSUME NEW chunks \in Seq(Nat), NEW max \in Nat
  PROVE  /\ BodySize(chunks) \in Nat
         /\ ReadBody(chunks, max) =
              IF BodySize(chunks) <= max THEN BodySize(chunks) ELSE TooLong
<1>1. PICK size : /\ Sizes(size, Len(chunks), chunks)
                  /\ BodySize(chunks) = size[Len(chunks)]
  BY BodySizeIs
<1>2. PICK kept : /\ Keeps(kept, Len(chunks), chunks, max)
                  /\ ReadBody(chunks, max) = kept[Len(chunks)]
  BY ReadBodyIs
<1> DEFINE n == Len(chunks)
           S == {k \in Nat : k <= n =>
                   /\ size[k] \in Nat
                   /\ kept[k] = IF size[k] <= max THEN size[k] ELSE TooLong}
<1>3. n \in Nat /\ \A k \in 1..n : chunks[k] \in Nat
  OBVIOUS
<1> HIDE DEF n
<1>4. \A k \in 0..n : size[k] = IF k = 0 THEN 0 ELSE size[k - 1] + chunks[k]
  BY <1>1 DEF Sizes, n
<1>5. \A k \in 0..n :
        kept[k] = IF k = 0 THEN 0
                  ELSE IF kept[k - 1] = TooLong \/ kept[k - 1] + chunks[k] > max
                  THEN TooLong
                  ELSE kept[k - 1] + chunks[k]
  BY <1>2 DEF Keeps, n
<1>6. 0 \in S
  BY <1>3, <1>4, <1>5
<1>7. ASSUME NEW k \in Nat, k \in S PROVE k + 1 \in S
  <2> SUFFICES ASSUME k + 1 <= n
               PROVE  /\ size[k + 1] \in Nat
                      /\ kept[k + 1] =
                           IF size[k + 1] <= max THEN size[k + 1] ELSE TooLong
    OBVIOUS
  <2>1. /\ size[k] \in Nat
        /\ kept[k] = IF size[k] <= max THEN size[k] ELSE TooLong
    BY <1>3, <1>7
  <2>2. chunks[k + 1] \in Nat
    BY <1>3
  <2>3. size[k + 1] = size[k] + chunks[k + 1]
    BY <1>3, <1>4
  <2>4. kept[k + 1] = IF kept[k] = TooLong \/ kept[k] + chunks[k + 1] > max
                      THEN TooLong ELSE kept[k] + chunks[k + 1]
    BY <1>3, <1>5
  <2> QED
    BY <2>1, <2>2, <2>3, <2>4 DEF TooLong
<1> HIDE DEF S
<1>8. Nat \subseteq S
  BY <1>6, <1>7, NaturalInduction
<1>9. /\ size[n] \in Nat
      /\ kept[n] = IF size[n] <= max THEN size[n] ELSE TooLong
  BY <1>3, <1>8 DEF S
<1> QED
  BY <1>1, <1>2, <1>9 DEF n

LEMMA FetchesWhole == Picked => FetchWholeOrNothing
<1> SUFFICES ASSUME Picked, InputOf("fetch")
             PROVE  LET size == BodySize(second.chunks)
                        usable == /\ second.success /\ second.supported
                                  /\ ~second.redirect
                                  /\ ~(second.broken /\ second.noticed)
                                  /\ size <= first.max
                    IN  Fetch(first.uri, second, first) =
                          IF usable THEN [fetched |-> TRUE, bytes |-> size]
                          ELSE NotFetched
  BY DEF FetchWholeOrNothing
<1>1. first \in Inputs /\ first.algorithm = "fetch" /\ second \in Seconds(first)
  BY DEF Picked, InputOf
<1>2. /\ first.max \in Nat
      /\ ValidUri(first.uri, first)
      /\ second.chunks \in Seq(Nat)
      /\ {second.success, second.supported, second.redirect, second.broken,
          second.noticed}
           \subseteq BOOLEAN
  BY <1>1, AlgorithmAssumption
<1>3. /\ BodySize(second.chunks) \in Nat
      /\ ReadBody(second.chunks, first.max) =
           IF BodySize(second.chunks) <= first.max
           THEN BodySize(second.chunks) ELSE TooLong
  BY <1>2, ReadsWhole
<1> DEFINE size == BodySize(second.chunks)
           bytes == ReadBody(second.chunks, first.max)
           usable == /\ second.success /\ second.supported
                     /\ ~second.redirect
                     /\ ~(second.broken /\ second.noticed)
                     /\ size <= first.max
<1>4. usable => bytes = size /\ bytes # TooLong
  BY <1>3 DEF TooLong
<1>5. ~(size <= first.max) => bytes = TooLong
  BY <1>3
<1>6. Fetch(first.uri, second, first) =
        IF \/ second.redirect \/ ~second.success \/ ~second.supported
           \/ bytes = TooLong \/ (second.broken /\ second.noticed)
        THEN NotFetched ELSE [fetched |-> TRUE, bytes |-> bytes]
  BY <1>2, Zenon DEF Fetch
<1> HIDE DEF size, bytes
<1>7. Fetch(first.uri, second, first) =
        IF usable THEN [fetched |-> TRUE, bytes |-> size] ELSE NotFetched
  <2>1. CASE usable
    <3>1. bytes = size /\ bytes # TooLong
      BY <1>4, <2>1, Zenon
    <3> QED
      BY <1>6, <2>1, <3>1, Zenon
  <2>2. CASE ~usable
    BY <1>5, <1>6, <2>2, Zenon
  <2> QED
    BY <2>1, <2>2, Zenon
<1> QED
  BY <1>7, Zenon DEF size

THEOREM FetchesAreWhole == Spec => []FetchWholeOrNothing
  BY FetchesWhole, PickedAlways, PTL

-----------------------------------------------------------------------------
(* The audit chain.                                                        *)

\* The hash before the k-th row.
Before(rows, k) == IF k = 1 THEN NoHash ELSE rows[k - 1].hash

\* The row of an event after a hash.
RowOf(event, previous) ==
  [body |-> event.body, payload |-> event.payload,
   payloadHash |-> Sha256(event.payload), previous |-> previous,
   hash |-> EventHash(event.body, previous, Sha256(event.payload))]

\* The rows are those of the first n events.
ChainOf(rows, n, events) ==
  /\ \E T : rows \in Seq(T)
  /\ Len(rows) = n
  /\ \A k \in 1..n : rows[k] = RowOf(events[k], Before(rows, k))

\* The rows after the first k events, for every k.
Grows(rows, n, events) ==
  rows = [k \in 0..n |->
            IF k = 0 THEN <<>>
            ELSE AppendAuditEvent(rows[k - 1], events[k].body, events[k].payload)]

LEMMA RowsExist ==
  ASSUME NEW events PROVE \A n \in Nat : \E rows : Grows(rows, n, events)
<1> DEFINE Added(table, k) ==
             AppendAuditEvent(table, events[k].body, events[k].payload)
           S == {n \in Nat : \E rows : Grows(rows, n, events)}
<1>1. 0 \in S
  <2> DEFINE none == [k \in 0..0 |-> <<>>]
  <2>1. Grows(none, 0, events)
    BY DEF Grows
  <2> QED
    BY <2>1
<1>2. ASSUME NEW n \in Nat, n \in S PROVE n + 1 \in S
  <2>1. PICK rows : Grows(rows, n, events)
    BY <1>2
  <2> DEFINE more == [k \in 0..(n + 1) |->
                        IF k = n + 1 THEN Added(rows[n], n + 1) ELSE rows[k]]
  <2>2. \A k \in 0..n : rows[k] = IF k = 0 THEN <<>> ELSE Added(rows[k - 1], k)
    BY <2>1 DEF Grows
  <2>3. \A k \in 0..(n + 1) :
          more[k] = IF k = 0 THEN <<>> ELSE Added(more[k - 1], k)
    <3> HIDE DEF Added
    <3> QED
      BY <2>2
  <2>4. Grows(more, n + 1, events)
    BY <2>3 DEF Grows
  <2> QED
    BY <2>4
<1> HIDE DEF S
<1>3. Nat \subseteq S
  BY <1>1, <1>2, NaturalInduction
<1> QED
  BY <1>3 DEF S

LEMMA RowsAre ==
  ASSUME NEW events, Len(events) \in Nat
  PROVE  \E rows : /\ Grows(rows, Len(events), events)
                   /\ Chain(events) = rows[Len(events)]
<1> DEFINE rows[k \in 0..Len(events)] ==
             IF k = 0 THEN <<>>
             ELSE AppendAuditEvent(rows[k - 1], events[k].body, events[k].payload)
<1>1. \E f : Grows(f, Len(events), events)
  BY RowsExist, Zenon
<1>2. Grows(rows, Len(events), events)
  BY <1>1 DEF Grows
<1>3. Chain(events) = rows[Len(events)]
  BY DEF Chain
<1> HIDE DEF rows
<1> QED
  BY <1>2, <1>3

\* An appended event continues the chain.
LEMMA ChainExtends ==
  ASSUME NEW events, NEW n \in Nat, NEW table, ChainOf(table, n, events)
  PROVE  ChainOf(AppendAuditEvent(table, events[n + 1].body,
                                  events[n + 1].payload), n + 1, events)
<1> DEFINE row == RowOf(events[n + 1], LastHash(table))
           longer == Append(table, row)
<1>1. AppendAuditEvent(table, events[n + 1].body, events[n + 1].payload) = longer
  BY DEF AppendAuditEvent, RowOf
<1>2. PICK T : table \in Seq(T)
  BY DEF ChainOf
<1>3. Len(table) = n
  BY DEF ChainOf
<1>4. LastHash(table) = Before(longer, n + 1)
  <2> HIDE DEF row
  <2>1. CASE n = 0
    BY <1>2, <1>3, <2>1 DEF LastHash, Before
  <2>2. CASE n # 0
    <3>1. table # <<>>
      BY <1>2, <1>3, <2>2
    <3>2. longer[n] = table[n]
      BY <1>2, <1>3, <2>2
    <3> QED
      BY <1>3, <2>2, <3>1, <3>2 DEF LastHash, Before
  <2> QED
    BY <2>1, <2>2
<1> HIDE DEF row
<1>5. /\ longer \in Seq(T \union {row})
      /\ Len(longer) = n + 1
      /\ longer[n + 1] = row
      /\ \A k \in 1..n : longer[k] = table[k]
  <2>1. table \in Seq(T \union {row})
    BY <1>2, SeqMonotonic, Zenon
  <2> QED
    BY <1>3, <2>1
<1> HIDE DEF longer
<1>6. \A k \in 1..n : Before(longer, k) = Before(table, k)
  BY <1>5 DEF Before
<1>7. \A k \in 1..n : table[k] = RowOf(events[k], Before(table, k))
  BY DEF ChainOf
<1>8. \A k \in 1..(n + 1) : longer[k] = RowOf(events[k], Before(longer, k))
  <2> TAKE k \in 1..(n + 1)
  <2>1. CASE k = n + 1
    BY <1>4, <1>5, <2>1 DEF row
  <2>2. CASE k \in 1..n
    BY <1>5, <1>6, <1>7, <2>2
  <2> QED
    BY <2>1, <2>2
<1>9. \E U : longer \in Seq(U)
  BY <1>5
<1> QED
  BY <1>1, <1>5, <1>8, <1>9 DEF ChainOf

LEMMA ChainIs ==
  ASSUME NEW events, Len(events) \in Nat
  PROVE  ChainOf(Chain(events), Len(events), events)
<1> DEFINE n == Len(events)
<1>1. PICK rows : Grows(rows, n, events) /\ Chain(events) = rows[n]
  BY RowsAre
<1> DEFINE S == {k \in Nat : k <= n => ChainOf(rows[k], k, events)}
<1>2. n \in Nat
  OBVIOUS
<1> HIDE DEF n
<1>3. \A k \in 0..n :
        rows[k] = IF k = 0 THEN <<>>
                  ELSE AppendAuditEvent(rows[k - 1], events[k].body,
                                        events[k].payload)
  BY <1>1 DEF Grows
<1>4. 0 \in S
  <2>1. rows[0] = <<>>
    BY <1>2, <1>3
  <2>2. <<>> \in Seq({}) /\ Len(<<>>) = 0
    OBVIOUS
  <2>3. ChainOf(<<>>, 0, events)
    BY <2>2 DEF ChainOf
  <2> QED
    BY <2>1, <2>3
<1>5. ASSUME NEW k \in Nat, k \in S PROVE k + 1 \in S
  <2> SUFFICES ASSUME k + 1 <= n PROVE ChainOf(rows[k + 1], k + 1, events)
    OBVIOUS
  <2>1. ChainOf(rows[k], k, events)
    BY <1>2, <1>5
  <2>2. rows[k + 1] = AppendAuditEvent(rows[k], events[k + 1].body,
                                       events[k + 1].payload)
    BY <1>2, <1>3
  <2> QED
    BY <2>1, <2>2, ChainExtends
<1> HIDE DEF S
<1>6. Nat \subseteq S
  BY <1>4, <1>5, NaturalInduction
<1> QED
  BY <1>1, <1>2, <1>6 DEF S, n

-----------------------------------------------------------------------------
(* Damaged chains.                                                         *)

LEMMA SameDigest ==
  /\ \A x, y : Sha256(x) = Sha256(y) => x = y
  /\ \A b1, b2, p1, p2, h1, h2 :
       EventHash(b1, p1, h1) = EventHash(b2, p2, h2) =>
         b1 = b2 /\ p1 = p2 /\ h1 = h2
<1>1. \A x, y : Sha256(x) = Sha256(y) => x = y
  <2> SUFFICES ASSUME NEW x, NEW y, Sha256(x) = Sha256(y) PROVE x = y
    OBVIOUS
  <2>1. Sha256(x).digest = x /\ Sha256(y).digest = y
    BY DEF Sha256
  <2> QED
    BY <2>1, Zenon
<1>2. ASSUME NEW b1, NEW b2, NEW p1, NEW p2, NEW h1, NEW h2,
             EventHash(b1, p1, h1) = EventHash(b2, p2, h2)
      PROVE  b1 = b2 /\ p1 = p2 /\ h1 = h2
  <2> DEFINE r1 == [body |-> b1, previous |-> p1, payloadHash |-> h1]
             r2 == [body |-> b2, previous |-> p2, payloadHash |-> h2]
  <2>1. r1 = r2
    BY <1>1, <1>2, Zenon DEF EventHash
  <2>2. /\ r1.body = b1 /\ r1.previous = p1 /\ r1.payloadHash = h1
        /\ r2.body = b2 /\ r2.previous = p2 /\ r2.payloadHash = h2
    OBVIOUS
  <2> HIDE DEF r1, r2
  <2> QED
    BY <2>1, <2>2, Zenon
<1> QED
  BY <1>1, <1>2, Zenon

\* A row that a damaged table may hold: one of the fields of each kind that the
\* chain has, and the digest of the chain that stands for the row.
RowOK(row) ==
  row = [body |-> row.body, payload |-> row.payload,
         payloadHash |-> row.payloadHash, previous |-> row.previous,
         hash |-> row.hash]

\* No two rows of the chain have the same hash, and none has that before the
\* first row.
Linked(rows, n) ==
  /\ \A k \in 1..n : rows[k].hash # NoHash
  /\ \A j, k \in 1..n : rows[j].hash = rows[k].hash => j = k

LEMMA HashOfRow ==
  ASSUME NEW events, NEW n \in Nat, NEW rows, ChainOf(rows, n, events),
         NEW k \in 1..n
  PROVE  /\ RowOK(rows[k])
         /\ rows[k].payloadHash = Sha256(rows[k].payload)
         /\ rows[k].previous = Before(rows, k)
         /\ rows[k].hash =
              EventHash(rows[k].body, rows[k].previous, rows[k].payloadHash)
<1>1. rows[k] = RowOf(events[k], Before(rows, k))
  BY DEF ChainOf
<1> DEFINE row == RowOf(events[k], Before(rows, k))
<1>2. /\ row.body = events[k].body
      /\ row.payload = events[k].payload
      /\ row.payloadHash = Sha256(events[k].payload)
      /\ row.previous = Before(rows, k)
      /\ row.hash = EventHash(events[k].body, Before(rows, k),
                              Sha256(events[k].payload))
  BY DEF RowOf
<1>3. RowOK(row)
  BY DEF RowOK, RowOf
<1> HIDE DEF row
<1> QED
  BY <1>1, <1>2, <1>3 DEF row

LEMMA ChainLinked ==
  ASSUME NEW events, NEW n \in Nat, NEW rows, ChainOf(rows, n, events),
         \A k \in 1..n : rows[k].hash # NoHash
  PROVE  Linked(rows, n)
<1> DEFINE S == {j \in Nat : j \in 1..n =>
                   \A k \in 1..n : rows[j].hash = rows[k].hash => j = k}
<1>1. 0 \in S
  OBVIOUS
<1>2. ASSUME NEW i \in Nat, i \in S PROVE i + 1 \in S
  <2> SUFFICES ASSUME i + 1 \in 1..n, NEW k \in 1..n,
                      rows[i + 1].hash = rows[k].hash
               PROVE  i + 1 = k
    OBVIOUS
  <2>1. Before(rows, i + 1) = Before(rows, k)
    <3>1. rows[i + 1].previous = rows[k].previous
      <4>1. EventHash(rows[i + 1].body, rows[i + 1].previous,
                      rows[i + 1].payloadHash)
              = EventHash(rows[k].body, rows[k].previous, rows[k].payloadHash)
        BY HashOfRow
      <4> QED
        BY <4>1, SameDigest
    <3> QED
      BY <3>1, HashOfRow
  <2>2. CASE i = 0
    <3>1. k = 1 \/ rows[k - 1].hash = NoHash
      BY <2>1, <2>2 DEF Before
    <3>2. k = 1 \/ k - 1 \in 1..n
      OBVIOUS
    <3> QED
      BY <2>2, <3>1, <3>2
  <2>3. CASE i # 0
    <3>1. i \in 1..n /\ i + 1 # 1 /\ (i + 1) - 1 = i
      BY <2>3
    <3>2. k # 1 /\ rows[i].hash = rows[k - 1].hash
      BY <2>1, <3>1 DEF Before
    <3>3. i = k - 1
      BY <1>2, <3>1, <3>2
    <3> QED
      BY <3>3
  <2> QED
    BY <2>2, <2>3
<1> HIDE DEF S
<1>3. Nat \subseteq S
  BY <1>1, <1>2, NaturalInduction
<1> QED
  BY <1>3 DEF S, Linked

\* A row of a damaged table has the hash of a row of the chain.
LEMMA DamagedRow ==
  ASSUME NEW rows, \A r \in Range(rows) : RowOK(r), NEW row \in Damaged(rows)
  PROVE  RowOK(row) /\ \E other \in Range(rows) : row.hash = other.hash
<1>1. CASE row \in Range(rows)
  BY <1>1
<1>2. CASE row \notin Range(rows)
  <2>1. PICK r \in Range(rows), o \in Range(rows) :
          \/ row = [r EXCEPT !.body = o.body]
          \/ row = [r EXCEPT !.payload = o.payload]
          \/ row = [r EXCEPT !.payloadHash = o.payloadHash]
          \/ row = [r EXCEPT !.previous = o.previous]
          \/ row = [r EXCEPT !.hash = o.hash]
    BY <1>2 DEF Damaged
  <2>2. RowOK(r)
    OBVIOUS
  <2>3. RowOK(row) /\ (row.hash = r.hash \/ row.hash = o.hash)
    BY <2>1, <2>2 DEF RowOK
  <2> QED
    BY <2>3
<1> QED
  BY <1>1, <1>2

\* What is verified of a row, without the prefix that LastHash is taken of.
LEMMA ValidRows ==
  ASSUME NEW T, NEW rows \in Seq(T)
  PROVE  ChainValid(rows) <=>
           \A k \in 1..Len(rows) :
             /\ rows[k].payloadHash = Sha256(rows[k].payload)
             /\ rows[k].previous = Before(rows, k)
             /\ rows[k].hash =
                  EventHash(rows[k].body, rows[k].previous, rows[k].payloadHash)
<1>1. ASSUME NEW k \in 1..Len(rows)
      PROVE  LastHash(SubSeq(rows, 1, k - 1)) = Before(rows, k)
  <2>1. CASE k = 1
    <3>1. SubSeq(rows, 1, k - 1) = <<>>
      BY <2>1
    <3> QED
      BY <2>1, <3>1 DEF LastHash, Before
  <2>2. CASE k # 1
    <3> DEFINE earlier == SubSeq(rows, 1, k - 1)
    <3>1. earlier # <<>> /\ Len(earlier) = k - 1 /\ earlier[k - 1] = rows[k - 1]
      BY <2>2
    <3> HIDE DEF earlier
    <3>2. LastHash(earlier) = rows[k - 1].hash
      BY <3>1 DEF LastHash
    <3> QED
      BY <2>2, <3>2 DEF Before, earlier
  <2> QED
    BY <2>1, <2>2
<1>2. DOMAIN rows = 1..Len(rows)
  OBVIOUS
<1> QED
  BY <1>1, <1>2 DEF ChainValid, ChainErrors

LEMMA PrefixRows ==
  ASSUME NEW T, NEW rows \in Seq(T), NEW U, NEW chain \in Seq(U)
  PROVE  IsPrefix(rows, chain) <=>
           /\ Len(rows) <= Len(chain)
           /\ \A k \in 1..Len(rows) : rows[k] = chain[k]
<1>1. ASSUME Len(rows) <= Len(chain)
      PROVE  SubSeq(rows, 1, Len(rows)) = SubSeq(chain, 1, Len(rows)) <=>
               \A k \in 1..Len(rows) : rows[k] = chain[k]
  <2> DEFINE W == T \union U
             n == Len(rows)
             one == SubSeq(rows, 1, n)
             two == SubSeq(chain, 1, n)
  <2>1. rows \in Seq(W) /\ chain \in Seq(W)
    BY SeqMonotonic
  <2>2. n \in Nat
    OBVIOUS
  <2>3. /\ one \in Seq(W) /\ two \in Seq(W) /\ Len(one) = n /\ Len(two) = n
        /\ \A k \in 1..n : one[k] = rows[k] /\ two[k] = chain[k]
    BY <1>1, <2>1, <2>2
  <2> HIDE DEF W, n, one, two
  <2>4. one = two <=> \A k \in 1..n : one[k] = two[k]
    BY <2>3, SeqEqual
  <2> QED
    BY <2>3, <2>4 DEF one, two, n
<1> QED
  BY <1>1 DEF IsPrefix

\* The rows of a prefix of the chain are in order.
LEMMA PrefixValid ==
  ASSUME NEW events, NEW n \in Nat, NEW chain, ChainOf(chain, n, events),
         NEW T, NEW rows \in Seq(T), Len(rows) <= n,
         \A k \in 1..Len(rows) : rows[k] = chain[k]
  PROVE  ChainValid(rows)
<1>1. ASSUME NEW k \in 1..Len(rows)
      PROVE  Before(rows, k) = Before(chain, k)
  BY DEF Before
<1>2. \A k \in 1..Len(rows) : k \in 1..n
  OBVIOUS
<1>3. ASSUME NEW k \in 1..Len(rows)
      PROVE  /\ rows[k].payloadHash = Sha256(rows[k].payload)
             /\ rows[k].previous = Before(rows, k)
             /\ rows[k].hash =
                  EventHash(rows[k].body, rows[k].previous, rows[k].payloadHash)
  <2>1. /\ chain[k].payloadHash = Sha256(chain[k].payload)
        /\ chain[k].previous = Before(chain, k)
        /\ chain[k].hash =
             EventHash(chain[k].body, chain[k].previous, chain[k].payloadHash)
    BY <1>2, HashOfRow
  <2> QED
    BY <1>1, <2>1
<1> QED
  BY <1>3, ValidRows

\* Every row has the hash of a row of the chain.
MadeOf(rows, chain, n) ==
  \A k \in 1..Len(rows) :
    RowOK(rows[k]) /\ \E j \in 1..n : rows[k].hash = chain[j].hash

\* If all the rows verify, and each has the hash of a row of the chain, they are
\* the first rows of the chain.
LEMMA ValidPrefix ==
  ASSUME NEW events, NEW n \in Nat, NEW chain, ChainOf(chain, n, events),
         Linked(chain, n), NEW T, NEW rows \in Seq(T), ChainValid(rows),
         MadeOf(rows, chain, n)
  PROVE  /\ Len(rows) <= n
         /\ \A k \in 1..Len(rows) : rows[k] = chain[k]
<1> DEFINE m == Len(rows)
           S == {k \in Nat : k \in 1..m => k <= n /\ rows[k] = chain[k]}
<1>1. m \in Nat
  OBVIOUS
<1>2. \A k \in 1..m :
        /\ rows[k].payloadHash = Sha256(rows[k].payload)
        /\ rows[k].previous = Before(rows, k)
        /\ rows[k].hash =
             EventHash(rows[k].body, rows[k].previous, rows[k].payloadHash)
  BY ValidRows
<1>3. \A k \in 1..m :
        RowOK(rows[k]) /\ \E j \in 1..n : rows[k].hash = chain[j].hash
  BY DEF MadeOf
<1>chain. \A j \in 1..n :
        /\ RowOK(chain[j])
        /\ chain[j].payloadHash = Sha256(chain[j].payload)
        /\ chain[j].previous = Before(chain, j)
        /\ chain[j].hash =
             EventHash(chain[j].body, chain[j].previous, chain[j].payloadHash)
  BY HashOfRow
<1> HIDE DEF m
\* A row is the one whose hash it has.
<1>4. ASSUME NEW k \in 1..m, NEW j \in 1..n, rows[k].hash = chain[j].hash
      PROVE  rows[k] = chain[j] /\ Before(rows, k) = Before(chain, j)
  <2>1. /\ RowOK(chain[j])
        /\ chain[j].payloadHash = Sha256(chain[j].payload)
        /\ chain[j].previous = Before(chain, j)
        /\ chain[j].hash =
             EventHash(chain[j].body, chain[j].previous, chain[j].payloadHash)
    BY <1>chain
  <2>2. /\ rows[k].body = chain[j].body
        /\ rows[k].previous = chain[j].previous
        /\ rows[k].payloadHash = chain[j].payloadHash
    BY <1>2, <1>4, <2>1, SameDigest
  <2>3. rows[k].payload = chain[j].payload
    BY <1>2, <2>1, <2>2, SameDigest
  <2>4. rows[k] = chain[j]
    BY <1>3, <1>4, <2>1, <2>2, <2>3 DEF RowOK
  <2> QED
    BY <1>2, <2>1, <2>2, <2>4
<1>5. 0 \in S
  OBVIOUS
<1>6. ASSUME NEW i \in Nat, i \in S PROVE i + 1 \in S
  <2> SUFFICES ASSUME i + 1 \in 1..m
               PROVE  i + 1 <= n /\ rows[i + 1] = chain[i + 1]
    OBVIOUS
  <2>1. PICK j \in 1..n : rows[i + 1].hash = chain[j].hash
    BY <1>3
  <2>2. rows[i + 1] = chain[j] /\ Before(rows, i + 1) = Before(chain, j)
    BY <1>4, <2>1
  <2>3. CASE i = 0
    <3>1. Before(rows, i + 1) = NoHash
      BY <2>3 DEF Before
    <3>2. j = 1 \/ j - 1 \in 1..n
      OBVIOUS
    <3>3. j = 1
      BY <2>2, <3>1, <3>2 DEF Before, Linked
    <3> QED
      BY <2>2, <2>3, <3>3
  <2>4. CASE i # 0
    <3>1. i \in 1..m /\ i <= n /\ rows[i] = chain[i]
      BY <1>1, <1>6, <2>4
    <3>2. Before(rows, i + 1) = chain[i].hash
      BY <2>4, <3>1 DEF Before
    <3>3. i \in 1..n
      BY <2>4, <3>1
    <3>4. j # 1 /\ chain[j - 1].hash = chain[i].hash
      BY <2>2, <3>2, <3>3 DEF Before, Linked
    <3>5. j - 1 \in 1..n
      BY <3>4
    <3>6. j - 1 = i
      BY <3>3, <3>4, <3>5 DEF Linked
    <3> QED
      BY <2>2, <3>6
  <2> QED
    BY <2>3, <2>4
<1> HIDE DEF S
<1>7. Nat \subseteq S
  BY <1>5, <1>6, NaturalInduction
<1>8. \A k \in 1..m : k <= n /\ rows[k] = chain[k]
  BY <1>7 DEF S
<1> QED
  BY <1>1, <1>8 DEF m

LEMMA DamageFound == Picked => DamageDetected
<1> SUFFICES ASSUME Picked, InputOf("verify")
             PROVE  ChainValid(second) <=> IsPrefix(second, Chain(first.events))
  BY DEF DamageDetected
<1> DEFINE events == first.events
           chain == Chain(events)
           n == Len(events)
<1>1. /\ events \in Seq(Range(events))
      /\ second \in Seq(Damaged(chain))
      /\ \A row \in Range(chain) : row.hash # NoHash
  BY AlgorithmAssumption DEF Picked, InputOf
<1>2. n \in Nat
  BY <1>1
<1>3. ChainOf(chain, n, events)
  BY <1>2, ChainIs
<1> HIDE DEF n, chain, events
<1>4. PICK U : chain \in Seq(U)
  BY <1>3 DEF ChainOf
<1>5. Len(chain) = n /\ Range(chain) = {chain[k] : k \in 1..n}
  BY <1>3, <1>4 DEF ChainOf, Range
<1>6. \A row \in Range(chain) : RowOK(row)
  <2> SUFFICES ASSUME NEW k \in 1..n PROVE RowOK(chain[k])
    BY <1>5
  <2> QED
    BY <1>2, <1>3, HashOfRow
<1>7. Linked(chain, n)
  BY <1>1, <1>2, <1>3, <1>5, ChainLinked
<1>8. ASSUME NEW k \in 1..Len(second)
      PROVE  RowOK(second[k]) /\ \E j \in 1..n : second[k].hash = chain[j].hash
  <2>1. second[k] \in Damaged(chain)
    BY <1>1, ElementOfSeq
  <2>2. RowOK(second[k]) /\ \E row \in Range(chain) : second[k].hash = row.hash
    BY <1>6, <2>1, DamagedRow
  <2> QED
    BY <1>5, <2>2
<1>9. IsPrefix(second, chain) <=>
        /\ Len(second) <= n
        /\ \A k \in 1..Len(second) : second[k] = chain[k]
  BY <1>1, <1>4, <1>5, PrefixRows
<1>10. ASSUME ChainValid(second) PROVE IsPrefix(second, chain)
  <2>1. /\ Len(second) <= n
        /\ \A k \in 1..Len(second) : second[k] = chain[k]
    <3> DEFINE T == Damaged(chain)
    <3>1. second \in Seq(T)
      BY <1>1
    <3> HIDE DEF T
    <3>2. MadeOf(second, chain, n)
      BY <1>8 DEF MadeOf
    <3> QED
      BY <1>2, <1>3, <1>7, <1>10, <3>1, <3>2, ValidPrefix
  <2> QED
    BY <1>9, <2>1
<1>11. IsPrefix(second, chain) => ChainValid(second)
  BY <1>1, <1>2, <1>3, <1>9, PrefixValid
<1> QED
  BY <1>10, <1>11 DEF chain, events

\* Whatever rows of a chain of any length are changed, lost, repeated or
\* exchanged, the chain verifies only if it is the beginning of the original one.
THEOREM DamageIsDetected == Spec => []DamageDetected
  BY DamageFound, PickedAlways, PTL

-----------------------------------------------------------------------------
(* Rational numbers.                                                       *)

Positive == Nat \ {0}

\* What was divided can be divided out.
LEMMA Quotient ==
  ASSUME NEW g \in Positive, NEW a \in Int
  PROVE  (g * a) \div g = a
  BY DEF Positive


LEMMA RemainderSmaller ==
  ASSUME NEW m \in Nat, NEW n \in Nat, n # 0
  PROVE  m % n \in Nat /\ m % n < n
  OBVIOUS

\* The equation of GreatestDivisor, for numbers up to a bound.
IsEuclid(f, bound) ==
  \A m \in Nat : /\ f[0][m] = m
                  /\ \A n \in 1..bound : f[n][m] = f[m % n][n]

LEMMA EuclidExists ==
  ASSUME NEW bound \in Nat
  PROVE  \E f : IsEuclid(f, bound)
<1> DEFINE S == {b \in Nat : \E f : IsEuclid(f, b)}
<1>1. 0 \in S
  <2> DEFINE g == [n \in Nat |-> [m \in Nat |-> m]]
  <2>1. IsEuclid(g, 0)
    BY DEF IsEuclid
  <2> QED
    BY <2>1
<1>2. ASSUME NEW b \in Nat, b \in S PROVE b + 1 \in S
  <2>1. PICK f : IsEuclid(f, b)
    BY <1>2
  <2> DEFINE g == [n \in Nat |-> IF n = b + 1 THEN [m \in Nat |-> f[m % n][n]]
                                 ELSE f[n]]
  <2>2. \A n \in 0..b : g[n] = f[n]
    OBVIOUS
  <2>3. \A m \in Nat : g[b + 1][m] = f[m % (b + 1)][b + 1]
    OBVIOUS
  <2> HIDE DEF g
  <2>4. ASSUME NEW n \in 1..(b + 1), NEW m \in Nat
        PROVE  g[n][m] = g[m % n][n]
    <3>1. m % n \in Nat /\ m % n < n
      BY RemainderSmaller
    <3>2. g[m % n] = f[m % n]
      BY <2>2, <3>1
    <3>3. CASE n = b + 1
      BY <2>3, <3>2, <3>3
    <3>4. CASE n # b + 1
      <4>1. n \in 1..b
        BY <3>4
      <4>2. f[n][m] = f[m % n][n]
        BY <2>1, <4>1 DEF IsEuclid
      <4>3. g[n] = f[n]
        BY <2>2, <4>1
      <4> QED
        BY <3>2, <4>2, <4>3
    <3> QED
      BY <3>3, <3>4
  <2>5. IsEuclid(g, b + 1)
    <3>1. ASSUME NEW m \in Nat PROVE g[0][m] = m
      <4>1. g[0] = f[0]
        BY <2>2
      <4> QED
        BY <2>1, <4>1 DEF IsEuclid
    <3> QED
      BY <2>4, <3>1 DEF IsEuclid
  <2> QED
    BY <2>5
<1> HIDE DEF S
<1>3. Nat \subseteq S
  BY <1>1, <1>2, NaturalInduction
<1> QED
  BY <1>3 DEF S

LEMMA EuclidUnique ==
  ASSUME NEW c \in Nat, NEW d \in Nat, NEW f, NEW g,
         IsEuclid(f, c), IsEuclid(g, d), NEW k \in Nat, k <= c, k <= d,
         NEW l \in Nat
  PROVE  f[k][l] = g[k][l]
<1> DEFINE S == {b \in Nat : \A n \in 0..b, m \in Nat :
                   n <= c /\ n <= d => f[n][m] = g[n][m]}
<1>1. 0 \in S
  <2>1. \A m \in Nat : f[0][m] = m /\ g[0][m] = m
    BY DEF IsEuclid
  <2>2. \A n \in 0..0 : n = 0
    OBVIOUS
  <2> QED
    BY <2>1, <2>2
<1>2. ASSUME NEW b \in Nat, b \in S PROVE b + 1 \in S
  <2>1. ASSUME NEW m \in Nat, b + 1 <= c, b + 1 <= d
        PROVE  f[b + 1][m] = g[b + 1][m]
    <3>1. m % (b + 1) \in Nat /\ m % (b + 1) < b + 1
      BY RemainderSmaller
    <3>2. f[m % (b + 1)][b + 1] = g[m % (b + 1)][b + 1]
      BY <1>2, <2>1, <3>1
    <3>3. b + 1 \in 1..c /\ b + 1 \in 1..d
      BY <2>1
    <3>4. f[b + 1][m] = f[m % (b + 1)][b + 1]
      BY <3>3 DEF IsEuclid
    <3>5. g[b + 1][m] = g[m % (b + 1)][b + 1]
      BY <3>3 DEF IsEuclid
    <3> QED
      BY <3>2, <3>4, <3>5
  <2> QED
    BY <1>2, <2>1
<1> HIDE DEF S
<1>3. k \in S
  BY <1>1, <1>2, NaturalInduction
<1> QED
  BY <1>3 DEF S

\* Euclid's algorithm ends.
LEMMA DivisorIs ==
  ASSUME NEW m \in Nat, NEW n \in Nat
  PROVE  GreatestDivisor[n][m] =
           IF n = 0 THEN m ELSE GreatestDivisor[m % n][n]
<1> DEFINE F(b) == CHOOSE f : IsEuclid(f, b)
           g == [k \in Nat |-> [l \in Nat |-> F(k)[k][l]]]
<1>1. \A b \in Nat : IsEuclid(F(b), b)
  BY EuclidExists
<1> HIDE DEF F
<1>2. \A c, d, k, l \in Nat : k <= c /\ k <= d => F(c)[k][l] = F(d)[k][l]
  BY <1>1, EuclidUnique
<1>3. ASSUME NEW l \in Nat, NEW k \in Nat
      PROVE  F(k)[k][l] = IF k = 0 THEN l ELSE g[l % k][k]
  <2>1. CASE k = 0
    BY <1>1, <2>1 DEF IsEuclid
  <2>2. CASE k # 0
    <3>1. l % k \in Nat /\ l % k <= k
      BY <2>2, RemainderSmaller
    <3>2. g[l % k][k] = F(l % k)[l % k][k]
      BY <3>1
    <3>3. k \in 1..k
      BY <2>2
    <3>4. F(k)[k][l] = F(k)[l % k][k]
      BY <1>1, <3>3 DEF IsEuclid
    <3>5. F(l % k)[l % k][k] = F(k)[l % k][k]
      BY <1>2, <3>1
    <3> QED
      BY <2>2, <3>2, <3>4, <3>5
  <2> QED
    BY <2>1, <2>2
<1>4. g = [k \in Nat |-> [l \in Nat |-> IF k = 0 THEN l ELSE g[l % k][k]]]
  <2> DEFINE R(k) == [l \in Nat |-> IF k = 0 THEN l ELSE g[l % k][k]]
  <2>1. ASSUME NEW k \in Nat PROVE [l \in Nat |-> F(k)[k][l]] = R(k)
    <3> HIDE DEF g
    <3> QED
      BY <1>3
  <2>2. g = [k \in Nat |-> R(k)]
    <3> HIDE DEF R
    <3> QED
      BY <2>1
  <2> QED
    BY <2>2
<1>5. \E f : f = [k \in Nat |-> [l \in Nat |-> IF k = 0 THEN l ELSE f[l % k][k]]]
  BY <1>4
<1>6. GreatestDivisor =
        [k \in Nat |-> [l \in Nat |-> IF k = 0 THEN l
                                      ELSE GreatestDivisor[l % k][k]]]
  <2> HIDE DEF g
  <2> QED
    BY <1>5 DEF GreatestDivisor
<1> QED
  BY <1>6

\* g divides m and n, and is a combination of them.
IsDivisor(g, m, n) ==
  /\ g \in Nat
  /\ \E a, b \in Nat : m = g * a /\ n = g * b
  /\ \E x, y \in Int : g = x * m + y * n

LEMMA DivisorStep ==
  ASSUME NEW g, NEW m \in Nat, NEW n \in Nat, NEW q \in Nat, NEW r \in Nat,
         m = n * q + r, IsDivisor(g, n, r)
  PROVE  IsDivisor(g, m, n)
<1>1. PICK a \in Nat, b \in Nat : n = g * a /\ r = g * b
  BY DEF IsDivisor
<1>2. PICK x \in Int, y \in Int : g = x * n + y * r
  BY DEF IsDivisor
<1>3. g \in Nat
  BY DEF IsDivisor
<1>4. a * q + b \in Nat /\ m = g * (a * q + b)
  <2>1. a * q \in Nat
    OBVIOUS
  <2>2. g * (a * q + b) = (g * a) * q + g * b
    BY <1>3
  <2> QED
    BY <1>1, <2>1, <2>2
<1>5. x - y * q \in Int /\ g = y * m + (x - y * q) * n
  <2>1. y * q \in Int
    OBVIOUS
  <2>2. y * m + (x - y * q) * n = (y * (n * q) + y * r) + (x * n - (y * q) * n)
    OBVIOUS
  <2>3. y * (n * q) = (y * q) * n
    OBVIOUS
  <2>4. y * (n * q) \in Int /\ y * r \in Int /\ x * n \in Int
    OBVIOUS
  <2> QED
    BY <1>2, <2>1, <2>2, <2>3, <2>4
<1> QED
  BY <1>1, <1>3, <1>4, <1>5 DEF IsDivisor

\* What Euclid's algorithm finds is a common divisor and a combination.
LEMMA DivisorDivides ==
  ASSUME NEW m \in Nat, NEW n \in Nat
  PROVE  IsDivisor(GreatestDivisor[n][m], m, n)
<1> DEFINE S == {b \in Nat : \A k \in 0..b, l \in Nat :
                               IsDivisor(GreatestDivisor[k][l], l, k)}
<1>1. ASSUME NEW l \in Nat PROVE IsDivisor(GreatestDivisor[0][l], l, 0)
  <2>1. GreatestDivisor[0][l] = l
    BY DivisorIs
  <2>2. l = l * 1 /\ 0 = l * 0 /\ l = 1 * l + 0 * 0
    OBVIOUS
  <2> QED
    BY <2>1, <2>2 DEF IsDivisor
<1>2. 0 \in S
  <2>1. \A k \in 0..0 : k = 0
    OBVIOUS
  <2> QED
    BY <1>1, <2>1
<1>3. ASSUME NEW b \in Nat, b \in S PROVE b + 1 \in S
  <2>1. ASSUME NEW l \in Nat PROVE IsDivisor(GreatestDivisor[b + 1][l], l, b + 1)
    <3> DEFINE k == b + 1
    <3>1. k \in Nat /\ k # 0
      OBVIOUS
    <3> HIDE DEF k
    <3>2. l % k \in Nat /\ l % k < k /\ l \div k \in Nat
          /\ l = k * (l \div k) + (l % k)
      BY <3>1
    <3>3. l % k \in 0..b
      BY <3>2 DEF k
    <3>4. IsDivisor(GreatestDivisor[l % k][k], k, l % k)
      BY <1>3, <3>1, <3>3
    <3>5. GreatestDivisor[k][l] = GreatestDivisor[l % k][k]
      BY <3>1, DivisorIs
    <3> QED
      BY <3>1, <3>2, <3>4, <3>5, DivisorStep DEF k
  <2> QED
    BY <1>3, <2>1
<1> HIDE DEF S
<1>4. n \in S
  BY <1>2, <1>3, NaturalInduction
<1> QED
  BY <1>4 DEF S

\* Numerator and denominator are relatively prime: one is a combination.
Prime(a, b) == \E x, y \in Int : x * a + y * b = 1

LEMMA Cancel ==
  ASSUME NEW g \in Positive, NEW a \in Int, NEW b \in Int, g * a = g * b
  PROVE  a = b
  BY Quotient

LEMMA RatioReduced ==
  ASSUME NEW n \in Int, NEW d \in Positive
  PROVE  \E g \in Positive, a \in Int, b \in Positive :
           /\ n = g * a /\ d = g * b /\ Prime(a, b)
           /\ Ratio(n, d) = [num |-> a, den |-> b]
<1> DEFINE s == IF n < 0 THEN -n ELSE n
           g == GreatestDivisor[d][s]
<1>1. s \in Nat /\ d \in Nat /\ d # 0
  BY DEF Positive
<1>2. IsDivisor(g, s, d)
  BY <1>1, DivisorDivides
<1>3. Ratio(n, d) = [num |-> n \div g, den |-> d \div g]
  BY DEF Ratio
<1> HIDE DEF s, g
<1>4. PICK e \in Nat, b \in Nat : s = g * e /\ d = g * b
  BY <1>2 DEF IsDivisor
<1>5. PICK x \in Int, y \in Int : g = x * s + y * d
  BY <1>2 DEF IsDivisor
<1>6. g \in Positive /\ b \in Positive
  BY <1>1, <1>2, <1>4 DEF IsDivisor, Positive
<1> DEFINE a == IF n < 0 THEN -e ELSE e
           z == IF n < 0 THEN -x ELSE x
<1>7. a \in Int /\ z \in Int /\ n = g * a /\ z * a = x * e
  <2>1. CASE n < 0
    <3>1. n = -(g * e) /\ g * (-e) = -(g * e) /\ (-x) * (-e) = x * e
      BY <1>4, <1>6, <2>1 DEF s, Positive
    <3> QED
      BY <2>1, <3>1
  <2>2. CASE ~(n < 0)
    BY <1>4, <2>2 DEF s
  <2> QED
    BY <2>1, <2>2
<1> HIDE DEF a, z
<1>8. z * a + y * b = 1
  <2>1. x * e + y * b \in Int /\ g \in Int
    BY <1>6 DEF Positive
  <2>2. g * (x * e + y * b) = x * (g * e) + y * (g * b)
    BY <1>6 DEF Positive
  <2>3. g * (x * e + y * b) = g * 1
    BY <1>4, <1>5, <2>1, <2>2
  <2> QED
    BY <1>6, <1>7, <2>1, <2>3, Cancel
<1>9. n \div g = a /\ d \div g = b
  BY <1>4, <1>6, <1>7, Quotient DEF Positive
<1> QED
  BY <1>3, <1>4, <1>6, <1>7, <1>8, <1>9 DEF Prime

LEMMA PrimeDivides ==
  ASSUME NEW a \in Int, NEW b \in Positive, NEW c \in Int, NEW d \in Positive,
         Prime(c, d), a * d = c * b
  PROVE  \E k \in Positive : b = d * k
<1>1. PICK x \in Int, y \in Int : x * c + y * d = 1
  BY DEF Prime
<1>2. b \in Int /\ d \in Int /\ b > 0 /\ d > 0
  BY DEF Positive
<1> DEFINE k == x * a + y * b
<1>3. k \in Int
  BY <1>2
<1>4. b = d * k
  <2>1. b * (x * c + y * d) = x * (c * b) + d * (y * b)
    BY <1>2
  <2>2. x * (a * d) + d * (y * b) = d * (x * a + y * b)
    BY <1>2
  <2>3. b * 1 = b
    BY <1>2
  <2> QED
    BY <1>1, <2>1, <2>2, <2>3
<1> HIDE DEF k
<1>5. k > 0
  BY <1>2, <1>3, <1>4
<1> QED
  BY <1>3, <1>4, <1>5 DEF Positive

LEMMA LowestTerms ==
  ASSUME NEW a \in Int, NEW b \in Positive, NEW c \in Int, NEW d \in Positive,
         Prime(a, b), Prime(c, d), a * d = c * b
  PROVE  a = c /\ b = d
<1>1. PICK k \in Positive : b = d * k
  BY PrimeDivides
<1>2. PICK l \in Positive : d = b * l
  BY PrimeDivides
<1>3. b \in Nat /\ d \in Nat /\ k \in Nat /\ l \in Nat
      /\ b > 0 /\ d > 0 /\ k > 0 /\ l > 0
  BY DEF Positive
<1>4. b <= d /\ d <= b
  BY <1>1, <1>2, <1>3
<1>5. b = d
  BY <1>3, <1>4
<1>6. b * a = b * c
  BY <1>3, <1>5
<1> QED
  BY <1>5, <1>6, Cancel

\* Two ratios are the same if and only if their products across are.
LEMMA SameRatio ==
  ASSUME NEW n \in Int, NEW d \in Positive, NEW m \in Int, NEW e \in Positive
  PROVE  Ratio(n, d) = Ratio(m, e) <=> n * e = m * d
<1>1. PICK g \in Positive, a \in Int, b \in Positive :
        /\ n = g * a /\ d = g * b /\ Prime(a, b)
        /\ Ratio(n, d) = [num |-> a, den |-> b]
  BY RatioReduced
<1>2. PICK h \in Positive, i \in Int, j \in Positive :
        /\ m = h * i /\ e = h * j /\ Prime(i, j)
        /\ Ratio(m, e) = [num |-> i, den |-> j]
  BY RatioReduced
<1>3. /\ g \in Int /\ h \in Int /\ b \in Int /\ j \in Int
      /\ g * h \in Positive /\ a * j \in Int /\ i * b \in Int
  <2>1. g \in Nat /\ h \in Nat /\ g > 0 /\ h > 0 /\ b \in Int /\ j \in Int
    BY DEF Positive
  <2>2. g * h \in Nat /\ g * h > 0
    BY <2>1
  <2> QED
    BY <2>1, <2>2 DEF Positive
<1>4. n * e = (g * h) * (a * j) /\ m * d = (g * h) * (i * b)
  BY <1>1, <1>2, <1>3
<1>5. n * e = m * d <=> a * j = i * b
  <2>1. ASSUME NEW p \in Positive, NEW q \in Int, NEW r \in Int
        PROVE  p * q = p * r <=> q = r
    BY <2>1, Cancel
  <2> QED
    BY <1>3, <1>4, <2>1
<1>6. a * j = i * b => a = i /\ b = j
  BY <1>1, <1>2, LowestTerms
<1>7. a = i /\ b = j => a * j = i * b
  OBVIOUS
<1> QED
  BY <1>1, <1>2, <1>5, <1>6, <1>7

\* A ratio is a rational number, of the value it is written with.
LEMMA RatioValue ==
  ASSUME NEW n \in Int, NEW d \in Positive
  PROVE  /\ Rational(Ratio(n, d))
         /\ Ratio(n, d).num \in Int /\ Ratio(n, d).den \in Positive
         /\ Ratio(n, d).num * d = n * Ratio(n, d).den
<1>1. PICK g \in Positive, a \in Int, b \in Positive :
        /\ n = g * a /\ d = g * b /\ Prime(a, b)
        /\ Ratio(n, d) = [num |-> a, den |-> b]
  BY RatioReduced
<1>2. a * d = n * b
  BY <1>1 DEF Positive
<1>3. Ratio(a, b) = Ratio(n, d)
  BY <1>2, SameRatio
<1> QED
  BY <1>1, <1>2, <1>3 DEF Rational, Positive

LEMMA PositiveProduct ==
  ASSUME NEW d \in Positive, NEW e \in Positive
  PROVE  d * e \in Positive /\ d \in Int /\ e \in Int
<1>1. d \in Nat /\ e \in Nat /\ d > 0 /\ e > 0
  BY DEF Positive
<1>2. d * e \in Nat /\ d * e > 0
  BY <1>1
<1> QED
  BY <1>1, <1>2 DEF Positive

\* The parts of a ratio.
LEMMA RatioParts ==
  ASSUME NEW n \in Int, NEW d \in Positive
  PROVE  \E p \in Int, q \in Positive :
           Ratio(n, d) = [num |-> p, den |-> q] /\ p * d = n * q
<1>1. PICK g \in Positive, a \in Int, b \in Positive :
        /\ n = g * a /\ d = g * b /\ Prime(a, b)
        /\ Ratio(n, d) = [num |-> a, den |-> b]
  BY RatioReduced
<1>2. a * d = n * b
  BY <1>1 DEF Positive
<1> QED
  BY <1>1, <1>2

\* The operations on ratios as they are written.
LEMMA Operations ==
  ASSUME NEW n \in Int, NEW d \in Positive, NEW m \in Int, NEW e \in Positive
  PROVE  /\ Plus(Ratio(n, d), Ratio(m, e)) = Ratio(n * e + m * d, d * e)
         /\ Minus(Ratio(n, d), Ratio(m, e)) = Ratio(n * e - m * d, d * e)
         /\ Times(Ratio(n, d), Ratio(m, e)) = Ratio(n * m, d * e)
<1>1. PICK p \in Int, q \in Positive :
        Ratio(n, d) = [num |-> p, den |-> q] /\ p * d = n * q
  BY RatioParts
<1>2. PICK r \in Int, s \in Positive :
        Ratio(m, e) = [num |-> r, den |-> s] /\ r * e = m * s
  BY RatioParts
<1>3. /\ d * e \in Positive /\ d \in Int /\ e \in Int
      /\ q * s \in Positive /\ q \in Int /\ s \in Int
  BY PositiveProduct
<1>4. /\ p * s + r * q \in Int /\ n * e + m * d \in Int
      /\ p * s - r * q \in Int /\ n * e - m * d \in Int
      /\ p * r \in Int /\ n * m \in Int
  BY <1>3
<1>5. /\ (p * s + r * q) * (d * e) = (n * e + m * d) * (q * s)
      /\ (p * s - r * q) * (d * e) = (n * e - m * d) * (q * s)
      /\ (p * r) * (d * e) = (n * m) * (q * s)
  <2>1. /\ (p * s + r * q) * (d * e) = (p * d) * (s * e) + (r * e) * (q * d)
        /\ (p * s - r * q) * (d * e) = (p * d) * (s * e) - (r * e) * (q * d)
        /\ (p * r) * (d * e) = (p * d) * (r * e)
    BY <1>3
  <2>2. /\ (n * e + m * d) * (q * s) = (n * q) * (s * e) + (m * s) * (q * d)
        /\ (n * e - m * d) * (q * s) = (n * q) * (s * e) - (m * s) * (q * d)
        /\ (n * m) * (q * s) = (n * q) * (m * s)
    BY <1>3
  <2> QED
    BY <1>1, <1>2, <2>1, <2>2
<1>6. /\ Ratio(p * s + r * q, q * s) = Ratio(n * e + m * d, d * e)
      /\ Ratio(p * s - r * q, q * s) = Ratio(n * e - m * d, d * e)
      /\ Ratio(p * r, q * s) = Ratio(n * m, d * e)
  BY <1>3, <1>4, <1>5, SameRatio
<1> QED
  BY <1>1, <1>2, <1>6 DEF Plus, Minus, Times

LEMMA SameSign ==
  ASSUME NEW a \in Int, NEW d \in Positive, NEW b \in Int, NEW e \in Positive,
         a * d = b * e
  PROVE  (a > 0 <=> b > 0) /\ (a < 0 <=> b < 0) /\ (a = 0 <=> b = 0)
<1>1. d \in Int /\ d > 0 /\ e \in Int /\ e > 0
  BY DEF Positive
<1>2. /\ a > 0 => a * d > 0
      /\ a < 0 => a * d < 0
      /\ b > 0 => b * e > 0
      /\ b < 0 => b * e < 0
      /\ a = 0 => a * d = 0
      /\ b = 0 => b * e = 0
  BY <1>1
<1> QED
  BY <1>1, <1>2

\* Ratios are ordered like their products across.
LEMMA OrderRatio ==
  ASSUME NEW n \in Int, NEW d \in Positive, NEW m \in Int, NEW e \in Positive
  PROVE  IsLess(Ratio(n, d), Ratio(m, e)) <=> n * e < m * d
<1>1. PICK p \in Int, q \in Positive :
        Ratio(n, d) = [num |-> p, den |-> q] /\ p * d = n * q
  BY RatioParts
<1>2. PICK r \in Int, s \in Positive :
        Ratio(m, e) = [num |-> r, den |-> s] /\ r * e = m * s
  BY RatioParts
<1>3. /\ d * e \in Positive /\ d \in Int /\ e \in Int
      /\ q * s \in Positive /\ q \in Int /\ s \in Int
  BY PositiveProduct
<1>4. p * s - r * q \in Int /\ n * e - m * d \in Int
  BY <1>3
<1>5. (p * s - r * q) * (d * e) = (n * e - m * d) * (q * s)
  <2>1. (p * s - r * q) * (d * e) = (p * d) * (s * e) - (r * e) * (q * d)
    BY <1>3
  <2>2. (n * e - m * d) * (q * s) = (n * q) * (s * e) - (m * s) * (q * d)
    BY <1>3
  <2> QED
    BY <1>1, <1>2, <2>1, <2>2
<1>6. p * s - r * q < 0 <=> n * e - m * d < 0
  <2> DEFINE x == p * s - r * q
             y == n * e - m * d
             f == d * e
             g == q * s
  <2>1. x \in Int /\ y \in Int /\ f \in Positive /\ g \in Positive /\ x * f = y * g
    BY <1>3, <1>4, <1>5
  <2> HIDE DEF x, y, f, g
  <2>2. x < 0 <=> y < 0
    BY <2>1, SameSign
  <2> QED
    BY <2>2 DEF x, y
<1>7. p * s < r * q <=> n * e < m * d
  <2>1. p * s \in Int /\ r * q \in Int /\ n * e \in Int /\ m * d \in Int
    BY <1>3
  <2> QED
    BY <2>1, <1>6
<1> QED
  BY <1>1, <1>2, <1>7 DEF IsLess

\* A quotient is what the divisor is multiplied with.
LEMMA OverRatio ==
  ASSUME NEW n \in Int, NEW d \in Positive, NEW m \in Int, NEW e \in Positive,
         m # 0, Ratio(n, d) = [num |-> n, den |-> d],
         Ratio(m, e) = [num |-> m, den |-> e]
  PROVE  /\ Rational(Over(Ratio(n, d), Ratio(m, e)))
         /\ Times(Over(Ratio(n, d), Ratio(m, e)), Ratio(m, e)) = Ratio(n, d)
<1>1. d \in Int /\ e \in Int
  BY DEF Positive
<1>2. PICK p \in Int, q \in Positive :
        /\ Over(Ratio(n, d), Ratio(m, e)) = Ratio(p, d * q)
        /\ p * m = n * (q * e)
  <2>1. CASE m > 0
    <3>1. m \in Positive /\ n * e \in Int
      BY <1>1, <2>1 DEF Positive
    <3>2. Over(Ratio(n, d), Ratio(m, e)) = Ratio(n * e, d * m)
      BY <2>1 DEF Over
    <3>3. (n * e) * m = n * (m * e)
      BY <1>1
    <3> QED
      BY <3>1, <3>2, <3>3
  <2>2. CASE ~(m > 0)
    <3>1. -m \in Positive /\ -(n * e) \in Int
      BY <1>1, <2>2 DEF Positive
    <3>2. Over(Ratio(n, d), Ratio(m, e)) = Ratio(-(n * e), d * (-m))
      BY <2>2 DEF Over
    <3>3. (-(n * e)) * m = n * ((-m) * e)
      <4>1. n * e \in Int
        BY <1>1
      <4>2. (-(n * e)) * m = -((n * e) * m)
        BY <4>1
      <4>3. n * ((-m) * e) = -((n * e) * m)
        BY <1>1
      <4> QED
        BY <4>2, <4>3
    <3> QED
      BY <3>1, <3>2, <3>3
  <2> QED
    BY <2>1, <2>2
<1>3. d * q \in Positive /\ (d * q) * e \in Positive /\ q \in Int
  BY PositiveProduct
<1>4. p * m \in Int
  OBVIOUS
<1>5. Times(Ratio(p, d * q), Ratio(m, e)) = Ratio(p * m, (d * q) * e)
  BY <1>3, Operations
<1>6. (p * m) * d = n * ((d * q) * e)
  <2>1. (n * (q * e)) * d = n * ((d * q) * e)
    BY <1>1, <1>3
  <2> QED
    BY <1>2, <2>1
<1>7. Ratio(p * m, (d * q) * e) = Ratio(n, d)
  BY <1>3, <1>4, <1>6, SameRatio
<1>8. Rational(Ratio(p, d * q))
  BY <1>3, RatioValue
<1> QED
  BY <1>2, <1>5, <1>7, <1>8

Rationals == {a \in [num : Int, den : Positive] : a = Ratio(a.num, a.den)}

LEMMA RationalIn == ASSUME NEW a, Rational(a) PROVE a \in Rationals
  BY DEF Rational, Rationals, Positive

LEMMA RatioIn ==
  ASSUME NEW n \in Int, NEW d \in Positive PROVE Ratio(n, d) \in Rationals
  BY RatioValue, RationalIn

LEMMA RationalRatio ==
  ASSUME NEW a \in Rationals
  PROVE  /\ a.num \in Int /\ a.den \in Positive
         /\ a = Ratio(a.num, a.den) /\ a = [num |-> a.num, den |-> a.den]
  BY DEF Rationals

LEMMA AsRatio ==
  ASSUME NEW a \in Rationals
  PROVE  \E n \in Int, d \in Positive : a = Ratio(n, d)
  BY RationalRatio

LEMMA OverIs ==
  ASSUME NEW a \in Rationals, NEW b \in Rationals, b.num # 0
  PROVE  Over(a, b) \in Rationals /\ Times(Over(a, b), b) = a
<1>1. /\ Rational(Over(Ratio(a.num, a.den), Ratio(b.num, b.den)))
      /\ Times(Over(Ratio(a.num, a.den), Ratio(b.num, b.den)),
               Ratio(b.num, b.den)) = Ratio(a.num, a.den)
  BY RationalRatio, OverRatio
<1>2. a = Ratio(a.num, a.den) /\ b = Ratio(b.num, b.den)
  BY RationalRatio
<1> QED
  BY <1>1, <1>2, RationalIn

LEMMA Constants == Zero \in Rationals /\ One \in Rationals
                   /\ Zero = Ratio(0, 1) /\ One = Ratio(1, 1)
<1>1. 1 \in Positive
  BY DEF Positive
<1> QED
  BY <1>1, RatioIn DEF Zero, One, Whole

LEMMA Closed ==
  ASSUME NEW a \in Rationals, NEW b \in Rationals
  PROVE  /\ Plus(a, b) \in Rationals /\ Minus(a, b) \in Rationals
         /\ Times(a, b) \in Rationals
<1>1. PICK n \in Int, d \in Positive : a = Ratio(n, d)
  BY AsRatio
<1>2. PICK m \in Int, e \in Positive : b = Ratio(m, e)
  BY AsRatio
<1>3. d * e \in Positive /\ d \in Int /\ e \in Int
  BY PositiveProduct
<1>4. n * e + m * d \in Int /\ n * e - m * d \in Int /\ n * m \in Int
  BY <1>3
<1>5. /\ Plus(a, b) = Ratio(n * e + m * d, d * e)
      /\ Minus(a, b) = Ratio(n * e - m * d, d * e)
      /\ Times(a, b) = Ratio(n * m, d * e)
  BY <1>1, <1>2, Operations
<1> QED
  BY <1>3, <1>4, <1>5, RatioIn

LEMMA Commutes ==
  ASSUME NEW a \in Rationals, NEW b \in Rationals
  PROVE  Plus(a, b) = Plus(b, a) /\ Times(a, b) = Times(b, a)
<1>1. PICK n \in Int, d \in Positive : a = Ratio(n, d)
  BY AsRatio
<1>2. PICK m \in Int, e \in Positive : b = Ratio(m, e)
  BY AsRatio
<1>3. d \in Int /\ e \in Int
  BY PositiveProduct
<1>4. n * e + m * d = m * d + n * e /\ n * m = m * n /\ d * e = e * d
  BY <1>3
<1>5. /\ Plus(a, b) = Ratio(n * e + m * d, d * e)
      /\ Plus(b, a) = Ratio(m * d + n * e, e * d)
      /\ Times(a, b) = Ratio(n * m, d * e)
      /\ Times(b, a) = Ratio(m * n, e * d)
  BY <1>1, <1>2, Operations
<1> QED
  BY <1>4, <1>5

LEMMA Associates ==
  ASSUME NEW a \in Rationals, NEW b \in Rationals, NEW c \in Rationals
  PROVE  /\ Plus(Plus(a, b), c) = Plus(a, Plus(b, c))
         /\ Minus(Plus(a, b), c) = Plus(a, Minus(b, c))
         /\ Minus(Minus(a, b), c) = Minus(a, Plus(b, c))
         /\ Times(Times(a, b), c) = Times(a, Times(b, c))
<1>1. PICK n \in Int, d \in Positive : a = Ratio(n, d)
  BY AsRatio
<1>2. PICK m \in Int, e \in Positive : b = Ratio(m, e)
  BY AsRatio
<1>3. PICK l \in Int, f \in Positive : c = Ratio(l, f)
  BY AsRatio
<1>4. /\ d \in Int /\ e \in Int /\ f \in Int
      /\ d * e \in Positive /\ e * f \in Positive
  BY PositiveProduct
<1>5. /\ n * e + m * d \in Int /\ n * m \in Int /\ m * l \in Int
      /\ n * e - m * d \in Int
      /\ m * f + l * e \in Int /\ m * f - l * e \in Int
  BY <1>4
<1>6. /\ Plus(Plus(a, b), c) = Ratio((n * e + m * d) * f + l * (d * e), (d * e) * f)
      /\ Plus(a, Plus(b, c)) = Ratio(n * (e * f) + (m * f + l * e) * d, d * (e * f))
      /\ Minus(Plus(a, b), c) = Ratio((n * e + m * d) * f - l * (d * e), (d * e) * f)
      /\ Plus(a, Minus(b, c)) = Ratio(n * (e * f) + (m * f - l * e) * d, d * (e * f))
      /\ Minus(Minus(a, b), c) = Ratio((n * e - m * d) * f - l * (d * e), (d * e) * f)
      /\ Minus(a, Plus(b, c)) = Ratio(n * (e * f) - (m * f + l * e) * d, d * (e * f))
      /\ Times(Times(a, b), c) = Ratio((n * m) * l, (d * e) * f)
      /\ Times(a, Times(b, c)) = Ratio(n * (m * l), d * (e * f))
  <2> DEFINE de == d * e
             ef == e * f
             ab == n * e + m * d
             ba == n * e - m * d
             bc == m * f + l * e
             cb == m * f - l * e
             nm == n * m
             ml == m * l
  <2>1. /\ Plus(a, b) = Ratio(ab, de) /\ Times(a, b) = Ratio(nm, de)
        /\ Minus(a, b) = Ratio(ba, de)
        /\ Plus(b, c) = Ratio(bc, ef) /\ Minus(b, c) = Ratio(cb, ef)
        /\ Times(b, c) = Ratio(ml, ef)
    BY <1>1, <1>2, <1>3, Operations
  <2>2. /\ de \in Positive /\ ef \in Positive
        /\ ab \in Int /\ ba \in Int /\ bc \in Int /\ cb \in Int /\ nm \in Int /\ ml \in Int
    BY <1>4, <1>5
  <2> HIDE DEF de, ef, ab, ba, bc, cb, nm, ml
  <2>3. /\ Plus(Plus(a, b), c) = Ratio(ab * f + l * de, de * f)
        /\ Plus(a, Plus(b, c)) = Ratio(n * ef + bc * d, d * ef)
        /\ Minus(Plus(a, b), c) = Ratio(ab * f - l * de, de * f)
        /\ Plus(a, Minus(b, c)) = Ratio(n * ef + cb * d, d * ef)
        /\ Minus(Minus(a, b), c) = Ratio(ba * f - l * de, de * f)
        /\ Minus(a, Plus(b, c)) = Ratio(n * ef - bc * d, d * ef)
        /\ Times(Times(a, b), c) = Ratio(nm * l, de * f)
        /\ Times(a, Times(b, c)) = Ratio(n * ml, d * ef)
    BY <1>1, <1>3, <2>1, <2>2, Operations
  <2> QED
    BY <2>3 DEF de, ef, ab, ba, bc, cb, nm, ml
<1>7. /\ (d * e) * f = d * (e * f) /\ (n * m) * l = n * (m * l)
      /\ (n * e + m * d) * f + l * (d * e) = n * (e * f) + (m * f + l * e) * d
      /\ (n * e + m * d) * f - l * (d * e) = n * (e * f) + (m * f - l * e) * d
      /\ (n * e - m * d) * f - l * (d * e) = n * (e * f) - (m * f + l * e) * d
  BY <1>4
<1> QED
  BY <1>6, <1>7

LEMMA Distributes ==
  ASSUME NEW a \in Rationals, NEW b \in Rationals, NEW c \in Rationals
  PROVE  /\ Times(Plus(a, b), c) = Plus(Times(a, c), Times(b, c))
         /\ Times(Minus(a, b), c) = Minus(Times(a, c), Times(b, c))
<1>1. PICK n \in Int, d \in Positive : a = Ratio(n, d)
  BY AsRatio
<1>2. PICK m \in Int, e \in Positive : b = Ratio(m, e)
  BY AsRatio
<1>3. PICK l \in Int, f \in Positive : c = Ratio(l, f)
  BY AsRatio
<1>4. /\ d \in Int /\ e \in Int /\ f \in Int
      /\ d * e \in Positive /\ d * f \in Positive /\ e * f \in Positive
  BY PositiveProduct
<1>5. (d * e) * f \in Positive /\ (d * f) * (e * f) \in Positive
  BY <1>4, PositiveProduct
<1>6. /\ n * e + m * d \in Int /\ n * e - m * d \in Int
      /\ n * l \in Int /\ m * l \in Int
  BY <1>4
<1>7. /\ Times(Plus(a, b), c) = Ratio((n * e + m * d) * l, (d * e) * f)
      /\ Times(Minus(a, b), c) = Ratio((n * e - m * d) * l, (d * e) * f)
      /\ Plus(Times(a, c), Times(b, c))
           = Ratio((n * l) * (e * f) + (m * l) * (d * f), (d * f) * (e * f))
      /\ Minus(Times(a, c), Times(b, c))
           = Ratio((n * l) * (e * f) - (m * l) * (d * f), (d * f) * (e * f))
  <2> DEFINE de == d * e
             df == d * f
             ef == e * f
             sum == n * e + m * d
             difference == n * e - m * d
             nl == n * l
             ml == m * l
  <2>1. /\ Plus(a, b) = Ratio(sum, de) /\ Minus(a, b) = Ratio(difference, de)
        /\ Times(a, c) = Ratio(nl, df) /\ Times(b, c) = Ratio(ml, ef)
    BY <1>1, <1>2, <1>3, Operations
  <2>2. /\ de \in Positive /\ df \in Positive /\ ef \in Positive
        /\ sum \in Int /\ difference \in Int /\ nl \in Int /\ ml \in Int
    BY <1>4, <1>6
  <2> HIDE DEF de, df, ef, sum, difference, nl, ml
  <2>3. /\ Times(Plus(a, b), c) = Ratio(sum * l, de * f)
        /\ Times(Minus(a, b), c) = Ratio(difference * l, de * f)
        /\ Plus(Times(a, c), Times(b, c)) = Ratio(nl * ef + ml * df, df * ef)
        /\ Minus(Times(a, c), Times(b, c)) = Ratio(nl * ef - ml * df, df * ef)
    BY <1>3, <2>1, <2>2, Operations
  <2> QED
    BY <2>3 DEF de, df, ef, sum, difference, nl, ml
<1>8. /\ (n * e + m * d) * l \in Int /\ (n * e - m * d) * l \in Int
      /\ (n * l) * (e * f) + (m * l) * (d * f) \in Int
      /\ (n * l) * (e * f) - (m * l) * (d * f) \in Int
  BY <1>4, <1>6
<1>9. /\ ((n * e + m * d) * l) * ((d * f) * (e * f))
           = ((n * l) * (e * f) + (m * l) * (d * f)) * ((d * e) * f)
      /\ ((n * e - m * d) * l) * ((d * f) * (e * f))
           = ((n * l) * (e * f) - (m * l) * (d * f)) * ((d * e) * f)
  BY <1>4
<1>10. /\ Ratio((n * e + m * d) * l, (d * e) * f)
            = Ratio((n * l) * (e * f) + (m * l) * (d * f), (d * f) * (e * f))
       /\ Ratio((n * e - m * d) * l, (d * e) * f)
            = Ratio((n * l) * (e * f) - (m * l) * (d * f), (d * f) * (e * f))
  BY <1>5, <1>8, <1>9, SameRatio
<1> QED
  BY <1>7, <1>10

LEMMA Units ==
  ASSUME NEW a \in Rationals
  PROVE  /\ Plus(a, Zero) = a /\ Minus(a, Zero) = a /\ Minus(a, a) = Zero
         /\ Times(a, One) = a /\ Times(a, Zero) = Zero
<1>1. PICK n \in Int, d \in Positive : a = Ratio(n, d)
  BY AsRatio
<1>2. d \in Int /\ d * d \in Positive /\ d * 1 = d /\ 1 \in Positive
      /\ n * 1 = n /\ n * 0 = 0 /\ 0 * d = 0
      /\ n * d - n * d = 0 /\ n * 1 + 0 * d = n /\ n * 1 - 0 * d = n
      /\ 0 * 1 = 0 * d /\ 0 * 1 = 0 * (d * d)
  BY PositiveProduct DEF Positive
<1>3. Ratio(0, d) = Zero /\ Ratio(0, d * d) = Zero
  BY <1>2, Constants, SameRatio
<1>4. /\ Plus(a, Zero) = Ratio(n * 1 + 0 * d, d * 1)
      /\ Minus(a, Zero) = Ratio(n * 1 - 0 * d, d * 1)
      /\ Minus(a, a) = Ratio(n * d - n * d, d * d)
      /\ Times(a, One) = Ratio(n * 1, d * 1)
      /\ Times(a, Zero) = Ratio(n * 0, d * 1)
  <2>1. \A m \in Int, e \in Positive :
          /\ Plus(a, Ratio(m, e)) = Ratio(n * e + m * d, d * e)
          /\ Minus(a, Ratio(m, e)) = Ratio(n * e - m * d, d * e)
          /\ Times(a, Ratio(m, e)) = Ratio(n * m, d * e)
    BY <1>1, Operations
  <2>2. /\ Plus(a, Ratio(0, 1)) = Ratio(n * 1 + 0 * d, d * 1)
        /\ Minus(a, Ratio(0, 1)) = Ratio(n * 1 - 0 * d, d * 1)
        /\ Times(a, Ratio(0, 1)) = Ratio(n * 0, d * 1)
    BY <1>2, <2>1
  <2>3. Times(a, Ratio(1, 1)) = Ratio(n * 1, d * 1)
    BY <1>2, <2>1
  <2>4. Minus(a, Ratio(n, d)) = Ratio(n * d - n * d, d * d)
    BY <2>1
  <2> QED
    BY <1>1, <2>2, <2>3, <2>4, Constants
<1> QED
  BY <1>1, <1>2, <1>3, <1>4

\* What is not zero can be divided out.
LEMMA NotZero ==
  ASSUME NEW a \in Rationals
  PROVE  a = Zero <=> a.num = 0
<1>1. a.num \in Int /\ a.den \in Positive /\ a = Ratio(a.num, a.den)
  BY RationalRatio
<1>2. 1 \in Positive /\ a.num * 1 = a.num /\ 0 * a.den = 0
  BY <1>1, PositiveProduct DEF Positive
<1> QED
  BY <1>1, <1>2, Constants, SameRatio

LEMMA DividedOut ==
  ASSUME NEW a \in Rationals, NEW b \in Rationals, NEW c \in Rationals,
         c # Zero, Times(a, c) = Times(b, c)
  PROVE  a = b
<1> DEFINE i == Over(One, c)
<1>1. i \in Rationals /\ Times(i, c) = One
  BY NotZero, OverIs, Constants
<1> HIDE DEF i
<1>2. Times(c, i) = One
  BY <1>1, Commutes
<1>3. Times(Times(a, c), i) = a /\ Times(Times(b, c), i) = b
  BY <1>1, <1>2, Associates, Units
<1> QED
  BY <1>3

LEMMA Undone ==
  ASSUME NEW a \in Rationals, NEW b \in Rationals
  PROVE  Plus(Minus(a, b), b) = a
<1>1. Minus(a, b) \in Rationals
  BY Closed
<1>2. Plus(Minus(a, b), b) = Plus(b, Minus(a, b))
  BY <1>1, Commutes
<1>3. Plus(b, Minus(a, b)) = Minus(Plus(a, b), b)
  BY Associates, Commutes
<1>4. Minus(Plus(a, b), b) = Plus(a, Minus(b, b))
  BY Associates
<1> QED
  BY <1>2, <1>3, <1>4, Units

\* A ratio has the sign of its numerator, however it is written.
LEMMA SignRatio ==
  ASSUME NEW n \in Int, NEW d \in Positive
  PROVE  /\ Ratio(n, d).num > 0 <=> n > 0
         /\ Ratio(n, d).num < 0 <=> n < 0
<1>1. PICK p \in Int, q \in Positive :
        Ratio(n, d) = [num |-> p, den |-> q] /\ p * d = n * q
  BY RatioParts
<1> QED
  BY <1>1, SameSign

LEMMA Signs ==
  ASSUME NEW a \in Rationals, NEW b \in Rationals, b.num > 0
  PROVE  /\ a.num > 0 => Times(a, b).num > 0
         /\ a.num >= 0 => Plus(a, b).num > 0
<1>1. /\ a.num \in Int /\ a.den \in Positive /\ a = Ratio(a.num, a.den)
      /\ b.num \in Int /\ b.den \in Positive /\ b = Ratio(b.num, b.den)
  BY RationalRatio
<1>2. PICK n \in Int, d \in Positive : n = a.num /\ d = a.den
  BY <1>1
<1>3. PICK m \in Int, e \in Positive : m = b.num /\ e = b.den
  BY <1>1
<1>4. d * e \in Positive /\ d \in Int /\ e \in Int /\ d > 0 /\ e > 0
  BY PositiveProduct DEF Positive
<1>5. Times(a, b) = Ratio(n * m, d * e) /\ Plus(a, b) = Ratio(n * e + m * d, d * e)
  BY <1>1, <1>2, <1>3, Operations
<1>6. n > 0 => n * m \in Int /\ n * m > 0
  BY <1>3
<1>7. n >= 0 => n * e + m * d \in Int /\ n * e + m * d > 0
  <2>1. m * d \in Int /\ m * d > 0 /\ n * e \in Int /\ (n >= 0 => n * e >= 0)
    BY <1>3, <1>4
  <2> QED
    BY <2>1
<1> QED
  BY <1>2, <1>4, <1>5, <1>6, <1>7, SignRatio

-----------------------------------------------------------------------------
(* Recursive functions.                                                    *)

\* The steps of an iteration stay in a set.
Steps(T) == [Nat -> [T -> T]]

\* A function that starts with base and goes on with the steps.
Iterates(f, n, T, base, step) ==
  /\ f[0] = base
  /\ \A k \in 1..n : f[k - 1] \in T => f[k] = step[k][f[k - 1]]

\* A function on 0..n may start with any element of a set and go on with any
\* steps that stay in the set.
LEMMA IterationExists ==
  ASSUME NEW T, NEW base \in T, NEW step \in Steps(T), NEW n \in Nat
  PROVE  \E f \in [0..n -> T] : Iterates(f, n, T, base, step)
<1> USE DEF Steps
<1> DEFINE Good(f, m) ==
             /\ f \in [0..m -> T]
             /\ f[0] = base
             /\ \A k \in 1..m : f[k] = step[k][f[k - 1]]
           S == {m \in Nat : \E f : Good(f, m)}
<1>1. 0 \in S
  <2> DEFINE f == [k \in 0..0 |-> base]
  <2>1. Good(f, 0)
    OBVIOUS
  <2> QED
    BY <2>1
<1>2. ASSUME NEW m \in Nat, m \in S PROVE m + 1 \in S
  <2>1. PICK f : Good(f, m)
    BY <1>2
  <2> DEFINE g == [k \in 0..(m + 1) |->
                     IF k = m + 1 THEN step[m + 1][f[m]] ELSE f[k]]
  <2>2. f[m] \in T /\ step[m + 1] \in [T -> T]
    BY <2>1
  <2>3. step[m + 1][f[m]] \in T
    BY <2>2
  <2>4. g \in [0..(m + 1) -> T]
    BY <2>1, <2>3
  <2>5. /\ \A k \in 0..m : g[k] = f[k]
        /\ g[m + 1] = step[m + 1][f[m]]
    OBVIOUS
  <2> HIDE DEF g
  <2>6. g[0] = base
    BY <2>1, <2>5
  <2>7. ASSUME NEW k \in 1..(m + 1) PROVE g[k] = step[k][g[k - 1]]
    <3>1. k - 1 \in 0..m /\ g[k - 1] = f[k - 1]
      BY <2>5
    <3>2. CASE k = m + 1
      BY <2>5, <3>1, <3>2
    <3>3. CASE k # m + 1
      <4>1. k \in 1..m /\ k \in 0..m
        BY <3>3
      <4> QED
        BY <2>1, <2>5, <3>1, <4>1
    <3> QED
      BY <3>2, <3>3
  <2>8. Good(g, m + 1)
    BY <2>4, <2>6, <2>7
  <2> QED
    BY <2>8
<1>3. n \in S
  <2> HIDE DEF S
  <2> QED
    BY <1>1, <1>2, NaturalInduction
<1> QED
  BY <1>3 DEF Iterates

\* Two such functions agree as far as both go.
LEMMA IterationUnique ==
  ASSUME NEW T, NEW base \in T, NEW step \in Steps(T), NEW n \in Nat,
         NEW f, Iterates(f, n, T, base, step),
         NEW g, Iterates(g, n, T, base, step)
  PROVE  \A k \in 0..n : f[k] \in T /\ f[k] = g[k]
<1> USE DEF Steps
<1> DEFINE S == {k \in Nat : k <= n => f[k] \in T /\ f[k] = g[k]}
<1>1. 0 \in S
  BY DEF Iterates
<1>2. ASSUME NEW k \in Nat, k \in S PROVE k + 1 \in S
  <2>1. CASE k + 1 <= n
    <3>1. k + 1 \in 1..n /\ (k + 1) - 1 = k /\ f[k] \in T /\ f[k] = g[k]
      BY <1>2, <2>1
    <3>2. f[k + 1] = step[k + 1][f[k]] /\ g[k + 1] = step[k + 1][g[k]]
      BY <3>1 DEF Iterates
    <3>3. step[k + 1] \in [T -> T]
      OBVIOUS
    <3>4. step[k + 1][f[k]] \in T
      BY <3>1, <3>3
    <3> QED
      BY <3>1, <3>2, <3>4
  <2>2. CASE ~(k + 1 <= n)
    BY <2>2
  <2> QED
    BY <2>1, <2>2
<1> HIDE DEF S
<1>3. Nat \subseteq S
  BY <1>1, <1>2, NaturalInduction
<1> QED
  BY <1>3 DEF S

-----------------------------------------------------------------------------
(* Compound growth.                                                        *)

LEMMA PowerFunction ==
  ASSUME NEW a \in Rationals, NEW n \in Nat
  PROVE  \E power :
           /\ Power(a, n) = power[n] /\ power[0] = One
           /\ \A k \in 1..n : power[k] = Times(power[k - 1], a)
<1> DEFINE step == [k \in Nat |-> [x \in Rationals |-> Times(x, a)]]
<1>1. step \in Steps(Rationals)
  BY Closed DEF Steps
<1>2. \A k \in Nat, x \in Rationals : step[k][x] = Times(x, a)
  OBVIOUS
<1>3. One \in Rationals
  BY Constants
<1> HIDE DEF step
<1>4. PICK f \in [0..n -> Rationals] : Iterates(f, n, Rationals, One, step)
  BY <1>1, <1>3, IterationExists
<1>5. f[0] = One /\ \A k \in 1..n : f[k] = Times(f[k - 1], a)
  BY <1>2, <1>4 DEF Iterates
<1>6. f = [k \in 0..n |-> IF k = 0 THEN One ELSE Times(f[k - 1], a)]
  BY <1>5
<1> DEFINE power[k \in 0..n] == IF k = 0 THEN One ELSE Times(power[k - 1], a)
<1>7. power = [k \in 0..n |-> IF k = 0 THEN One ELSE Times(power[k - 1], a)]
  <2>1. \E h : h = [k \in 0..n |-> IF k = 0 THEN One ELSE Times(h[k - 1], a)]
    BY <1>6
  <2> QED
    BY <2>1
<1>8. Power(a, n) = power[n]
  BY DEF Power
<1> HIDE DEF power
<1>9. power[0] = One /\ \A k \in 1..n : power[k] = Times(power[k - 1], a)
  BY <1>7
<1> QED
  BY <1>8, <1>9

\* A power is the power before times the base.
LEMMA PowerIs ==
  ASSUME NEW a \in Rationals
  PROVE  /\ Power(a, 0) = One
         /\ \A n \in Nat : /\ Power(a, n) \in Rationals
                           /\ Power(a, n + 1) = Times(Power(a, n), a)
<1> DEFINE step == [k \in Nat |-> [x \in Rationals |-> Times(x, a)]]
<1>1. step \in Steps(Rationals)
  BY Closed DEF Steps
<1>2. \A k \in Nat, x \in Rationals : step[k][x] = Times(x, a)
  OBVIOUS
<1> HIDE DEF step
<1>3. Power(a, 0) = One
  BY PowerFunction
<1>4. ASSUME NEW n \in Nat
      PROVE  /\ Power(a, n) \in Rationals
             /\ Power(a, n + 1) = Times(Power(a, n), a)
  <2>1. PICK f : /\ Power(a, n) = f[n] /\ f[0] = One
                 /\ \A k \in 1..n : f[k] = Times(f[k - 1], a)
    BY PowerFunction
  <2>2. PICK g : /\ Power(a, n + 1) = g[n + 1] /\ g[0] = One
                 /\ \A k \in 1..(n + 1) : g[k] = Times(g[k - 1], a)
    BY PowerFunction
  <2>3. \A k \in 1..n : k \in Nat /\ k \in 1..(n + 1)
    OBVIOUS
  <2>4. /\ Iterates(f, n, Rationals, One, step)
        /\ Iterates(g, n, Rationals, One, step)
    BY <1>2, <2>1, <2>2, <2>3 DEF Iterates
  <2>5. \A k \in 0..n : f[k] \in Rationals /\ f[k] = g[k]
    BY <1>1, <2>4, Constants, IterationUnique
  <2>6. n \in 0..n /\ n + 1 \in 1..(n + 1) /\ (n + 1) - 1 = n
    OBVIOUS
  <2> QED
    BY <2>1, <2>2, <2>5, <2>6
<1> QED
  BY <1>3, <1>4

\* What comes of one at the end of each period is what has come of it before,
\* with the rate of the period, and one more.
LEMMA AnnuityIs ==
  ASSUME NEW rate \in Rationals
  PROVE  /\ Annuity(rate, 0) = Zero
         /\ \A n \in Nat :
              /\ Annuity(rate, n) \in Rationals
              /\ Annuity(rate, n + 1)
                   = Plus(Times(Annuity(rate, n), Plus(One, rate)), One)
<1> DEFINE q == Plus(One, rate)
<1>1. q \in Rationals /\ One \in Rationals
  BY Constants, Closed
<1>2. CASE rate = Zero
  <2>1. q = One
    BY <1>2, Constants, Units
  <2>2. ASSUME NEW n \in Nat
        PROVE  Whole(n) \in Rationals /\ Whole(n + 1) = Plus(Times(Whole(n), q), One)
    <3>1. 1 \in Positive /\ 1 * 1 = 1 /\ n * 1 + 1 * 1 = n + 1
      BY DEF Positive
    <3>2. Whole(n) \in Rationals
      BY <3>1, RatioIn DEF Whole
    <3>3. Plus(Ratio(n, 1), Ratio(1, 1)) = Ratio(n * 1 + 1 * 1, 1 * 1)
      BY <3>1, Operations
    <3> QED
      BY <2>1, <3>1, <3>2, <3>3, Units DEF Whole, One
  <2> QED
    BY <1>2, <2>2 DEF Annuity, Zero
<1>3. CASE rate # Zero
  <2>1. rate.num # 0
    BY <1>3, NotZero
  <2>2. ASSUME NEW n \in Nat
        PROVE  /\ Annuity(rate, n) \in Rationals
               /\ Times(Annuity(rate, n), rate) = Minus(Power(q, n), One)
    BY <1>1, <1>3, <2>1, PowerIs, Closed, OverIs DEF Annuity
  <2>3. ASSUME NEW n \in Nat
        PROVE  Annuity(rate, n + 1) = Plus(Times(Annuity(rate, n), q), One)
    <3> DEFINE a == Annuity(rate, n)
               w == Power(q, n)
    <3>1. /\ a \in Rationals /\ w \in Rationals /\ Power(q, n + 1) = Times(w, q)
          /\ Times(a, rate) = Minus(w, One)
          /\ Annuity(rate, n + 1) \in Rationals
          /\ Times(Annuity(rate, n + 1), rate) = Minus(Times(w, q), One)
      BY <1>1, <2>2, PowerIs
    <3> HIDE DEF a, w, q
    <3>2. /\ Times(a, q) \in Rationals /\ Times(w, q) \in Rationals
          /\ Plus(Times(a, q), One) \in Rationals
          /\ Minus(Times(w, q), One) \in Rationals
      BY <1>1, <3>1, Closed
    <3>3. Times(Plus(Times(a, q), One), rate)
            = Plus(Times(Times(a, q), rate), rate)
      BY <1>1, <3>2, Distributes, Units, Commutes
    <3>4. Times(Times(a, q), rate) = Times(Minus(w, One), q)
      BY <1>1, <3>1, Associates, Commutes
    <3>5. Times(Minus(w, One), q) = Minus(Times(w, q), q)
      BY <1>1, <3>1, Distributes, Units, Commutes
    <3>6. Minus(Times(w, q), q) = Minus(Minus(Times(w, q), One), rate)
      BY <1>1, <3>2, Associates DEF q
    <3>7. Times(Plus(Times(a, q), One), rate) = Minus(Times(w, q), One)
      BY <3>2, <3>3, <3>4, <3>5, <3>6, Undone
    <3> QED
      BY <1>3, <3>1, <3>2, <3>7, DividedOut DEF a
  <2>4. Annuity(rate, 0) = Zero
    <3>1. Times(Annuity(rate, 0), rate) = Zero
      BY <1>1, <2>2, PowerIs, Units
    <3>2. Times(Zero, rate) = Zero
      BY Constants, Commutes, Units
    <3> QED
      BY <1>3, <2>2, <3>1, <3>2, Constants, DividedOut
  <2> QED
    BY <2>2, <2>3, <2>4
<1> QED
  BY <1>2, <1>3

\* A balance grows by the rate and takes the contribution before or after.
LEMMA GrowthStep ==
  ASSUME NEW p \in Rationals, NEW rate \in Rationals, NEW c \in Rationals,
         NEW n \in Nat, NEW early \in BOOLEAN
  PROVE  /\ FutureValue(p, rate, 0, c, early) = p
         /\ FutureValue(p, rate, n, c, early) \in Rationals
         /\ early => FutureValue(p, rate, n + 1, c, early)
                      = Times(Plus(FutureValue(p, rate, n, c, early), c),
                              Plus(One, rate))
         /\ ~early => FutureValue(p, rate, n + 1, c, early)
                       = Plus(Times(FutureValue(p, rate, n, c, early),
                                    Plus(One, rate)), c)
<1> DEFINE q == Plus(One, rate)
           w == Power(q, n)
           a == Annuity(rate, n)
<1>1. /\ q \in Rationals /\ One \in Rationals /\ Zero \in Rationals
      /\ Power(q, 0) = One /\ Annuity(rate, 0) = Zero
  BY Constants, Closed, PowerIs, AnnuityIs
<1>2. w \in Rationals /\ Power(q, n + 1) = Times(w, q)
  BY <1>1, PowerIs
<1>3. a \in Rationals /\ Annuity(rate, n + 1) = Plus(Times(a, q), One)
  BY AnnuityIs
<1>4. /\ ~early =>
           /\ FutureValue(p, rate, n, c, early) = Plus(Times(p, w), Times(c, a))
           /\ FutureValue(p, rate, n + 1, c, early)
                = Plus(Times(p, Times(w, q)), Times(c, Plus(Times(a, q), One)))
           /\ FutureValue(p, rate, 0, c, early)
                = Plus(Times(p, One), Times(c, Zero))
      /\ early =>
           /\ FutureValue(p, rate, n, c, early)
                = Plus(Times(p, w), Times(c, Times(a, q)))
           /\ FutureValue(p, rate, n + 1, c, early)
                = Plus(Times(p, Times(w, q)),
                       Times(c, Times(Plus(Times(a, q), One), q)))
           /\ FutureValue(p, rate, 0, c, early)
                = Plus(Times(p, One), Times(c, Times(Zero, q)))
  BY <1>1, <1>2, <1>3 DEF FutureValue, AnnuityFactor
<1> HIDE DEF a, w
<1>5. FutureValue(p, rate, 0, c, early) = p
  <2> HIDE DEF q
  <2>1. Times(p, One) = p /\ Times(c, Zero) = Zero /\ Times(Zero, q) = Zero
        /\ Plus(p, Zero) = p
    BY <1>1, Units, Commutes
  <2> QED
    BY <1>4, <2>1
<1> DEFINE pw == Times(p, w)
           aq == Times(a, q)
<1>6. /\ pw \in Rationals /\ aq \in Rationals
      /\ Plus(aq, One) \in Rationals
      /\ Times(c, a) \in Rationals /\ Times(c, aq) \in Rationals
      /\ Times(p, Times(w, q)) = Times(pw, q)
  <2> HIDE DEF q
  <2> QED
    BY <1>1, <1>2, <1>3, Closed, Associates
<1>7. Times(c, aq) = Times(Times(c, a), q)
  <2> HIDE DEF q
  <2> QED
    BY <1>1, <1>3, Associates
<1>8. Times(c, Plus(aq, One)) = Plus(Times(c, aq), c)
  <2> HIDE DEF aq
  <2>1. Times(c, Plus(aq, One)) = Times(Plus(aq, One), c)
    BY <1>6, Commutes
  <2>2. Times(Plus(aq, One), c) = Plus(Times(aq, c), Times(One, c))
    BY <1>1, <1>6, Distributes
  <2>3. Times(One, c) = c /\ Times(aq, c) = Times(c, aq)
    BY <1>1, <1>6, Commutes, Units
  <2> QED
    BY <2>1, <2>2, <2>3
<1> DEFINE s == Plus(pw, Times(c, a))
           t == Plus(pw, Times(c, aq))
<1>9. Plus(Times(p, Times(w, q)), Times(c, Plus(aq, One))) = Plus(Times(s, q), c)
  <2> HIDE DEF q, aq, pw
  <2>1. Times(s, q) = Plus(Times(pw, q), Times(c, aq))
    BY <1>1, <1>6, <1>7, Distributes
  <2>2. Times(pw, q) \in Rationals
    BY <1>1, <1>6, Closed
  <2>3. Plus(Plus(Times(pw, q), Times(c, aq)), c)
          = Plus(Times(pw, q), Plus(Times(c, aq), c))
    BY <1>6, <2>2, Associates
  <2> QED
    BY <1>6, <1>8, <2>1, <2>3
<1>10. Plus(Times(p, Times(w, q)), Times(c, Times(Plus(aq, One), q)))
         = Times(Plus(t, c), q)
  <2> HIDE DEF q, aq, pw
  <2>1. Times(c, Times(Plus(aq, One), q)) = Times(Plus(Times(c, aq), c), q)
    BY <1>1, <1>6, <1>8, Associates
  <2>2. Plus(Times(c, aq), c) \in Rationals
    BY <1>6, Closed
  <2>3. Plus(Times(pw, q), Times(Plus(Times(c, aq), c), q))
          = Times(Plus(pw, Plus(Times(c, aq), c)), q)
    BY <1>1, <1>6, <2>2, Distributes
  <2>4. Plus(pw, Plus(Times(c, aq), c)) = Plus(t, c)
    BY <1>6, Associates
  <2> QED
    BY <1>6, <2>1, <2>3, <2>4
<1>11. s \in Rationals /\ t \in Rationals
  <2> HIDE DEF pw, aq
  <2> QED
    BY <1>6, Closed
<1> QED
  BY <1>4, <1>5, <1>9, <1>10, <1>11

\* The balance of Accumulated after each number of periods.
LEMMA BalanceFunction ==
  ASSUME NEW p \in Rationals, NEW rate \in Rationals, NEW c \in Rationals,
         NEW n \in Nat, NEW early \in BOOLEAN
  PROVE  Accumulated(p, rate, n, c, early) = FutureValue(p, rate, n, c, early)
<1> DEFINE q == Plus(One, rate)
           Next1(x) == IF early THEN Times(Plus(x, c), q) ELSE Plus(Times(x, q), c)
           Value(k) == FutureValue(p, rate, k, c, early)
           step == [k \in Nat |-> [x \in Rationals |-> Next1(x)]]
           h == [k \in 0..n |-> Value(k)]
<1>1. /\ \A x \in Rationals : Next1(x) \in Rationals
      /\ Value(0) = p
      /\ \A k \in Nat : Value(k) \in Rationals /\ Value(k + 1) = Next1(Value(k))
  <2>1. q \in Rationals
    BY Constants, Closed
  <2>2. \A x \in Rationals : Next1(x) \in Rationals
    <3> HIDE DEF q
    <3> QED
      BY <2>1, Closed
  <2>3. ASSUME NEW k \in Nat
        PROVE  /\ Value(0) = p /\ Value(k) \in Rationals
               /\ Value(k + 1) = Next1(Value(k))
    <3>1. /\ Value(0) = p /\ Value(k) \in Rationals
          /\ early => Value(k + 1) = Times(Plus(Value(k), c), q)
          /\ ~early => Value(k + 1) = Plus(Times(Value(k), q), c)
      BY GrowthStep
    <3> HIDE DEF Value, q
    <3>2. /\ early => Next1(Value(k)) = Times(Plus(Value(k), c), q)
          /\ ~early => Next1(Value(k)) = Plus(Times(Value(k), q), c)
      OBVIOUS
    <3> QED
      BY <3>1, <3>2
  <2> HIDE DEF Next1, Value
  <2>4. 0 \in Nat
    OBVIOUS
  <2> QED
    BY <2>2, <2>3, <2>4
<1> HIDE DEF Next1, Value
<1>2. step \in Steps(Rationals) /\ \A k \in Nat, x \in Rationals : step[k][x] = Next1(x)
  BY <1>1 DEF Steps
<1> HIDE DEF step
<1>3. h[0] = p /\ \A k \in 1..n : h[k] = Next1(h[k - 1])
  <2>1. ASSUME NEW k \in 1..n PROVE h[k] = Next1(h[k - 1])
    <3>1. k - 1 \in Nat /\ (k - 1) + 1 = k /\ k - 1 \in 0..n /\ k \in 0..n
      OBVIOUS
    <3>2. Value(k) = Next1(Value(k - 1))
      BY <1>1, <3>1
    <3> QED
      BY <3>1, <3>2
  <2> QED
    BY <1>1, <2>1
<1>4. h = [k \in 0..n |-> IF k = 0 THEN p ELSE Next1(h[k - 1])]
  <2>1. h = [k \in 0..n |-> h[k]]
    OBVIOUS
  <2> HIDE DEF h
  <2>2. ASSUME NEW k \in 0..n
        PROVE  h[k] = IF k = 0 THEN p ELSE Next1(h[k - 1])
    BY <1>3
  <2> QED
    BY <2>1, <2>2
<1> HIDE DEF h
<1> DEFINE balance[k \in 0..n] == IF k = 0 THEN p ELSE Next1(balance[k - 1])
<1>5. balance = [k \in 0..n |-> IF k = 0 THEN p ELSE Next1(balance[k - 1])]
  <2>1. \E f : f = [k \in 0..n |-> IF k = 0 THEN p ELSE Next1(f[k - 1])]
    BY <1>4
  <2> QED
    BY <2>1
<1>6. Accumulated(p, rate, n, c, early) = balance[n]
  BY DEF Accumulated, Next1
<1> HIDE DEF balance
<1>7. /\ Iterates(h, n, Rationals, p, step)
      /\ Iterates(balance, n, Rationals, p, step)
  BY <1>2, <1>3, <1>5 DEF Iterates
<1>8. \A k \in 0..n : h[k] = balance[k]
  BY <1>2, <1>7, IterationUnique
<1>9. h[n] = Value(n)
  BY DEF h
<1> QED
  BY <1>6, <1>8, <1>9 DEF Value

LEMMA PowerPositive ==
  ASSUME NEW a \in Rationals, a.num > 0, NEW n \in Nat
  PROVE  Power(a, n).num > 0
<1> DEFINE S == {k \in Nat : Power(a, k).num > 0}
<1>1. 0 \in S
  <2>1. One.num > 0
    BY SignRatio DEF One, Whole, Positive
  <2> QED
    BY <2>1, PowerIs
<1>2. ASSUME NEW k \in Nat, k \in S PROVE k + 1 \in S
  <2>1. /\ Power(a, k) \in Rationals /\ Power(a, k).num > 0
        /\ Power(a, k + 1) = Times(Power(a, k), a)
    BY <1>2, PowerIs
  <2>2. Times(Power(a, k), a).num > 0
    BY <2>1, Signs
  <2> QED
    BY <2>1, <2>2
<1> HIDE DEF S
<1>3. Nat \subseteq S
  BY <1>1, <1>2, NaturalInduction
<1> QED
  BY <1>3 DEF S

LEMMA PowerOfOne ==
  ASSUME NEW n \in Nat
  PROVE  Power(One, n) = One
<1> DEFINE S == {k \in Nat : Power(One, k) = One}
<1>1. 0 \in S
  BY Constants, PowerIs
<1>2. ASSUME NEW k \in Nat, k \in S PROVE k + 1 \in S
  BY <1>2, Constants, PowerIs, Units
<1> HIDE DEF S
<1>3. Nat \subseteq S
  BY <1>1, <1>2, NaturalInduction
<1> QED
  BY <1>3 DEF S

\* An annuity of at least one period is worth something.
LEMMA AnnuityPositive ==
  ASSUME NEW rate \in Rationals, Plus(One, rate).num > 0, NEW n \in Nat
  PROVE  Annuity(rate, n + 1).num > 0
<1> DEFINE q == Plus(One, rate)
           S == {k \in Nat : Annuity(rate, k).num >= 0}
<1>1. q \in Rationals /\ One \in Rationals /\ One.num > 0 /\ Zero.num = 0
  <2>1. One.num > 0
    BY SignRatio DEF One, Whole, Positive
  <2> QED
    BY <2>1, Constants, Closed, NotZero
<1>2. 0 \in S
  BY <1>1, AnnuityIs
<1>3. ASSUME NEW k \in Nat, k \in S PROVE Annuity(rate, k + 1).num > 0
  <2> DEFINE a == Annuity(rate, k)
  <2>1. a \in Rationals /\ a.num >= 0 /\ Annuity(rate, k + 1) = Plus(Times(a, q), One)
    BY <1>3, AnnuityIs
  <2> HIDE DEF a
  <2>2. a.num \in Int /\ Times(a, q) \in Rationals
    BY <1>1, <2>1, Closed DEF Rationals
  <2> HIDE DEF q
  <2>3. Times(a, q).num >= 0
    <3>1. CASE a.num > 0
      <4>1. Times(a, q).num > 0
        BY <1>1, <2>1, <3>1, Signs DEF q
      <4>2. Times(a, q).num \in Int
        BY <2>2 DEF Rationals
      <4> QED
        BY <4>1, <4>2
    <3>2. CASE a.num = 0
      <4>1. a = Zero
        BY <2>1, <3>2, NotZero
      <4>2. Times(a, q) = Zero
        BY <1>1, <4>1, Constants, Commutes, Units
      <4> QED
        BY <1>1, <4>2
    <3> QED
      BY <2>1, <2>2, <3>1, <3>2
  <2>4. Plus(Times(a, q), One).num > 0
    BY <1>1, <2>2, <2>3, Signs
  <2> QED
    BY <2>1, <2>4
<1>4. ASSUME NEW k \in Nat, k \in S PROVE k + 1 \in S
  <2>1. Annuity(rate, k + 1).num > 0
    BY <1>3, <1>4
  <2>2. Annuity(rate, k + 1).num \in Int
    BY AnnuityIs DEF Rationals
  <2> QED
    BY <2>1, <2>2
<1>5. Nat \subseteq S
  <2> HIDE DEF S
  <2> QED
    BY <1>2, <1>4, NaturalInduction
<1> QED
  BY <1>3, <1>5

\* What a loan of p has grown to, without what the payments have grown to.
Owed(p, rate, n, y) ==
  Minus(Times(p, Power(Plus(One, rate), n)), Times(y, Annuity(rate, n)))

\* It grows by the rate and loses a payment.
LEMMA OwedStep ==
  ASSUME NEW p \in Rationals, NEW rate \in Rationals, NEW y \in Rationals,
         NEW n \in Nat
  PROVE  /\ Owed(p, rate, 0, y) = p
         /\ Owed(p, rate, n, y) \in Rationals
         /\ Owed(p, rate, n + 1, y)
              = Minus(Times(Owed(p, rate, n, y), Plus(One, rate)), y)
<1> DEFINE q == Plus(One, rate)
           w == Power(q, n)
           a == Annuity(rate, n)
<1>1. /\ q \in Rationals /\ One \in Rationals /\ Zero \in Rationals
      /\ Power(q, 0) = One /\ Annuity(rate, 0) = Zero
  BY Constants, Closed, PowerIs, AnnuityIs
<1>2. w \in Rationals /\ Power(q, n + 1) = Times(w, q)
  BY <1>1, PowerIs
<1>3. a \in Rationals /\ Annuity(rate, n + 1) = Plus(Times(a, q), One)
  BY AnnuityIs
<1>4. /\ Owed(p, rate, n, y) = Minus(Times(p, w), Times(y, a))
      /\ Owed(p, rate, n + 1, y)
           = Minus(Times(p, Times(w, q)), Times(y, Plus(Times(a, q), One)))
      /\ Owed(p, rate, 0, y) = Minus(Times(p, One), Times(y, Zero))
  BY <1>1, <1>2, <1>3 DEF Owed
<1> HIDE DEF a, w, q
<1>5. Owed(p, rate, 0, y) = p
  BY <1>1, <1>4, Units
<1> DEFINE pw == Times(p, w)
           aq == Times(a, q)
           ya == Times(y, a)
<1>6. /\ pw \in Rationals /\ aq \in Rationals /\ ya \in Rationals
      /\ Minus(pw, ya) \in Rationals /\ Times(ya, q) \in Rationals
      /\ Times(pw, q) \in Rationals
      /\ Times(p, Times(w, q)) = Times(pw, q) /\ Times(y, aq) = Times(ya, q)
  <2>1. /\ pw \in Rationals /\ aq \in Rationals /\ ya \in Rationals
        /\ Times(p, Times(w, q)) = Times(pw, q) /\ Times(y, aq) = Times(ya, q)
    BY <1>1, <1>2, <1>3, Closed, Associates
  <2> HIDE DEF pw, aq, ya
  <2> QED
    BY <1>1, <2>1, Closed
<1>7. Times(y, Plus(aq, One)) = Plus(Times(ya, q), y)
  <2> HIDE DEF aq
  <2>1. Times(y, Plus(aq, One)) = Times(Plus(aq, One), y)
    BY <1>1, <1>6, Closed, Commutes
  <2>2. Times(Plus(aq, One), y) = Plus(Times(aq, y), Times(One, y))
    BY <1>1, <1>6, Distributes
  <2>3. Times(One, y) = y /\ Times(aq, y) = Times(y, aq)
    BY <1>1, <1>6, Commutes, Units
  <2> QED
    BY <1>6, <2>1, <2>2, <2>3
<1> HIDE DEF pw, ya, aq
<1>8. Times(Minus(pw, ya), q) = Minus(Times(pw, q), Times(ya, q))
  BY <1>1, <1>6, Distributes
<1>9. Minus(Minus(Times(pw, q), Times(ya, q)), y)
        = Minus(Times(pw, q), Plus(Times(ya, q), y))
  BY <1>6, Associates
<1>10. /\ Owed(p, rate, n, y) = Minus(pw, ya)
       /\ Owed(p, rate, n + 1, y)
            = Minus(Times(p, Times(w, q)), Times(y, Plus(aq, One)))
  BY <1>4 DEF pw, ya, aq
<1> QED
  BY <1>5, <1>6, <1>7, <1>8, <1>9, <1>10 DEF q

LEMMA OutstandingFunction ==
  ASSUME NEW p \in Rationals, NEW rate \in Rationals, NEW y \in Rationals,
         NEW n \in Nat
  PROVE  Outstanding(p, rate, n, y) = Owed(p, rate, n, y)
<1> DEFINE q == Plus(One, rate)
           Next1(x) == Minus(Times(x, q), y)
           Value(k) == Owed(p, rate, k, y)
           step == [k \in Nat |-> [x \in Rationals |-> Next1(x)]]
           h == [k \in 0..n |-> Value(k)]
<1>1. /\ \A x \in Rationals : Next1(x) \in Rationals
      /\ Value(0) = p
      /\ \A k \in Nat : Value(k) \in Rationals /\ Value(k + 1) = Next1(Value(k))
  <2>1. q \in Rationals
    BY Constants, Closed
  <2>2. \A x \in Rationals : Next1(x) \in Rationals
    <3> HIDE DEF q
    <3> QED
      BY <2>1, Closed
  <2>3. ASSUME NEW k \in Nat
        PROVE  /\ Value(0) = p /\ Value(k) \in Rationals
               /\ Value(k + 1) = Next1(Value(k))
    BY OwedStep
  <2> HIDE DEF Next1, Value
  <2>4. 0 \in Nat
    OBVIOUS
  <2> QED
    BY <2>2, <2>3, <2>4
<1> HIDE DEF Next1, Value
<1>2. step \in Steps(Rationals) /\ \A k \in Nat, x \in Rationals : step[k][x] = Next1(x)
  BY <1>1 DEF Steps
<1> HIDE DEF step
<1>3. h[0] = p /\ \A k \in 1..n : h[k] = Next1(h[k - 1])
  <2>1. ASSUME NEW k \in 1..n PROVE h[k] = Next1(h[k - 1])
    <3>1. k - 1 \in Nat /\ (k - 1) + 1 = k /\ k - 1 \in 0..n /\ k \in 0..n
      OBVIOUS
    <3>2. Value(k) = Next1(Value(k - 1))
      BY <1>1, <3>1
    <3> QED
      BY <3>1, <3>2
  <2> QED
    BY <1>1, <2>1
<1>4. h = [k \in 0..n |-> IF k = 0 THEN p ELSE Next1(h[k - 1])]
  <2>1. h = [k \in 0..n |-> h[k]]
    OBVIOUS
  <2> HIDE DEF h
  <2>2. ASSUME NEW k \in 0..n
        PROVE  h[k] = IF k = 0 THEN p ELSE Next1(h[k - 1])
    BY <1>3
  <2> QED
    BY <2>1, <2>2
<1> HIDE DEF h
<1> DEFINE balance[k \in 0..n] == IF k = 0 THEN p ELSE Next1(balance[k - 1])
<1>5. balance = [k \in 0..n |-> IF k = 0 THEN p ELSE Next1(balance[k - 1])]
  <2>1. \E f : f = [k \in 0..n |-> IF k = 0 THEN p ELSE Next1(f[k - 1])]
    BY <1>4
  <2> QED
    BY <2>1
<1>6. Outstanding(p, rate, n, y) = balance[n]
  BY DEF Outstanding, Next1
<1> HIDE DEF balance
<1>7. /\ Iterates(h, n, Rationals, p, step)
      /\ Iterates(balance, n, Rationals, p, step)
  BY <1>2, <1>3, <1>5 DEF Iterates
<1>8. \A k \in 0..n : h[k] = balance[k]
  BY <1>2, <1>7, IterationUnique
<1>9. h[n] = Value(n)
  BY DEF h
<1> QED
  BY <1>6, <1>8, <1>9 DEF Value

\* The payments of a loan, with what they earn, are the loan with its interest.
LEMMA PaymentIs ==
  ASSUME NEW p \in Rationals, NEW rate \in Rationals,
         Plus(One, rate).num > 0, NEW n \in Nat \ {0}
  PROVE  /\ Payment(p, rate, n) \in Rationals
         /\ Times(Payment(p, rate, n), Annuity(rate, n))
              = Times(p, Power(Plus(One, rate), n))
<1> DEFINE q == Plus(One, rate)
           w == Power(q, n)
           a == Annuity(rate, n)
           y == Payment(p, rate, n)
<1>1. n - 1 \in Nat /\ (n - 1) + 1 = n /\ n \in Nat
  OBVIOUS
<1>2. /\ q \in Rationals /\ w \in Rationals /\ a \in Rationals
      /\ One \in Rationals /\ Zero \in Rationals
  BY <1>1, Constants, Closed, PowerIs, AnnuityIs
<1>3. w.num > 0 /\ a.num > 0
  <2>1. w.num > 0
    BY <1>1, <1>2, PowerPositive
  <2>2. Annuity(rate, (n - 1) + 1).num > 0
    BY <1>1, AnnuityPositive
  <2> QED
    BY <1>1, <2>1, <2>2
<1>4. CASE rate = Zero
  <2>1. /\ y = Over(p, Whole(n)) /\ a = Whole(n) /\ q = One
    BY <1>2, <1>4, Units DEF Payment, Annuity
  <2>2. w = One
    BY <1>1, <2>1, PowerOfOne
  <2> HIDE DEF y, a, w
  <2> QED
    BY <1>2, <1>3, <2>1, <2>2, OverIs, Units DEF y, a, w
<1>5. CASE rate # Zero
  <2> DEFINE f == Over(One, w)
             e == Minus(One, f)
  <2>1. f \in Rationals /\ Times(f, w) = One
    BY <1>2, <1>3, OverIs
  <2>2. e \in Rationals
    BY <1>2, <2>1, Closed
  <2>3. Times(a, rate) = Minus(w, One)
    <3>1. rate.num # 0
      BY <1>5, NotZero
    <3>2. Minus(w, One) \in Rationals /\ a = Over(Minus(w, One), rate)
      BY <1>2, <1>5, Closed DEF Annuity
    <3> QED
      BY <3>1, <3>2, OverIs
  <2>4. y = Over(Times(p, rate), e)
    BY <1>5 DEF Payment
  <2> HIDE DEF y, a, w, q, e
  <2>5. Times(e, w) = Minus(w, One)
    <3>1. Times(e, w) = Minus(Times(One, w), Times(f, w))
      BY <1>2, <2>1, Distributes DEF e
    <3>2. Times(One, w) = w
      BY <1>2, Commutes, Units
    <3> QED
      BY <2>1, <3>1, <3>2
  <2>6. e # Zero
    <3>1. SUFFICES ASSUME e = Zero PROVE FALSE
      OBVIOUS
    <3>2. Times(Zero, w) = Zero /\ Times(Zero, rate) = Zero
      BY <1>2, Commutes, Units
    <3>3. Times(a, rate) = Times(Zero, rate)
      BY <2>3, <2>5, <3>1, <3>2
    <3>4. a = Zero
      BY <1>2, <1>5, <3>3, DividedOut
    <3>5. a.num = 0
      BY <1>2, <3>4, NotZero
    <3> QED
      BY <1>3, <3>5
  <2>7. y \in Rationals /\ Times(y, e) = Times(p, rate)
    <3>1. e.num # 0
      BY <2>2, <2>6, NotZero
    <3>2. Times(p, rate) \in Rationals
      BY Closed
    <3> QED
      BY <2>2, <2>4, <3>1, <3>2, OverIs
  <2>8. Times(Times(y, a), rate) = Times(Times(p, w), rate)
    <3>1. Times(Times(y, a), rate) = Times(y, Times(e, w))
      BY <1>2, <2>3, <2>5, <2>7, Associates
    <3>2. Times(y, Times(e, w)) = Times(Times(p, rate), w)
      BY <1>2, <2>2, <2>7, Associates
    <3>3. /\ Times(Times(p, rate), w) = Times(p, Times(rate, w))
          /\ Times(rate, w) = Times(w, rate)
          /\ Times(Times(p, w), rate) = Times(p, Times(w, rate))
      BY <1>2, Associates, Commutes
    <3> QED
      BY <3>1, <3>2, <3>3
  <2>9. Times(y, a) \in Rationals /\ Times(p, w) \in Rationals
    BY <1>2, <2>7, Closed
  <2>10. Times(y, a) = Times(p, w)
    BY <1>5, <2>8, <2>9, DividedOut
  <2> QED
    BY <2>7, <2>10 DEF y, a, w, q
<1> QED
  BY <1>4, <1>5

\* A loan is repaid by its payments.
LEMMA Repaid ==
  ASSUME NEW p \in Rationals, NEW rate \in Rationals,
         Plus(One, rate).num > 0, NEW n \in Nat \ {0}
  PROVE  Outstanding(p, rate, n, Payment(p, rate, n)) = Zero
<1> DEFINE y == Payment(p, rate, n)
           pw == Times(p, Power(Plus(One, rate), n))
<1>1. y \in Rationals /\ Times(y, Annuity(rate, n)) = pw
  BY PaymentIs
<1>2. Outstanding(p, rate, n, y) = Owed(p, rate, n, y)
  <2> HIDE DEF y
  <2> QED
    BY <1>1, OutstandingFunction
<1>3. pw \in Rationals
  BY Constants, Closed, PowerIs
<1> QED
  BY <1>1, <1>2, <1>3, Units DEF Owed

-----------------------------------------------------------------------------
(* The order of the rational numbers.                                      *)

\* What is less by its difference.
LEMMA LessIs ==
  ASSUME NEW a \in Rationals, NEW b \in Rationals
  PROVE  IsLess(a, b) <=> Minus(b, a).num > 0
<1>1. /\ a.num \in Int /\ a.den \in Positive /\ a = Ratio(a.num, a.den)
      /\ b.num \in Int /\ b.den \in Positive /\ b = Ratio(b.num, b.den)
  BY RationalRatio
<1>2. PICK n \in Int, d \in Positive : n = a.num /\ d = a.den
  BY <1>1
<1>3. PICK m \in Int, e \in Positive : m = b.num /\ e = b.den
  BY <1>1
<1>4. e * d \in Positive /\ d \in Int /\ e \in Int
  BY PositiveProduct
<1>5. Minus(b, a) = Ratio(m * d - n * e, e * d)
  BY <1>1, <1>2, <1>3, Operations
<1>6. m * d - n * e \in Int /\ (m * d - n * e > 0 <=> n * e < m * d)
  BY <1>4
<1>7. IsLess(a, b) <=> n * e < m * d
  BY <1>2, <1>3 DEF IsLess
<1> QED
  BY <1>4, <1>5, <1>6, <1>7, SignRatio

\* The order is total.
LEMMA Total ==
  ASSUME NEW a \in Rationals, NEW b \in Rationals
  PROVE  /\ IsLess(a, b) \/ a = b \/ IsLess(b, a)
         /\ ~(IsLess(a, b) /\ IsLess(b, a))
         /\ ~IsLess(a, a)
<1>1. /\ a.num \in Int /\ a.den \in Positive /\ a = Ratio(a.num, a.den)
      /\ b.num \in Int /\ b.den \in Positive /\ b = Ratio(b.num, b.den)
  BY RationalRatio
<1>2. PICK n \in Int, d \in Positive : n = a.num /\ d = a.den
  BY <1>1
<1>3. PICK m \in Int, e \in Positive : m = b.num /\ e = b.den
  BY <1>1
<1>4. n * e \in Int /\ m * d \in Int /\ n * d \in Int
  BY DEF Positive
<1>5. /\ IsLess(a, b) <=> n * e < m * d
      /\ IsLess(b, a) <=> m * d < n * e
      /\ IsLess(a, a) <=> n * d < n * d
  BY <1>2, <1>3 DEF IsLess
<1>6. n * e = m * d => a = b
  BY <1>1, <1>2, <1>3, SameRatio
<1> QED
  BY <1>4, <1>5, <1>6

LEMMA Transitive ==
  ASSUME NEW a \in Rationals, NEW b \in Rationals, NEW c \in Rationals,
         IsLess(a, b), IsLess(b, c)
  PROVE  IsLess(a, c)
<1> DEFINE x == Minus(b, a)
           y == Minus(c, b)
<1>1. x \in Rationals /\ y \in Rationals /\ x.num > 0 /\ y.num > 0
  BY Closed, LessIs
<1>2. x.num >= 0
  BY <1>1 DEF Rationals
<1>3. Plus(y, b) = c
  BY Undone
<1> HIDE DEF y
<1>4. Minus(Plus(y, b), a) = Plus(y, x)
  BY <1>1, Associates
<1> HIDE DEF x
<1>5. Plus(x, y).num > 0 /\ Plus(x, y) = Plus(y, x)
  BY <1>1, <1>2, Signs, Commutes
<1> QED
  BY <1>3, <1>4, <1>5, LessIs

AtMost(a, b) == ~IsLess(b, a)

LEMMA AtMostOrder ==
  ASSUME NEW a \in Rationals, NEW b \in Rationals, NEW c \in Rationals,
         AtMost(a, b)
  PROVE  /\ AtMost(b, c) => AtMost(a, c)
         /\ IsLess(b, c) => IsLess(a, c)
         /\ AtMost(b, a) => a = b
<1>1. IsLess(a, b) \/ a = b
  BY Total DEF AtMost
<1>2. IsLess(b, c) => IsLess(a, c)
  BY <1>1, Transitive
<1>3. AtMost(b, c) => IsLess(b, c) \/ b = c
  BY Total DEF AtMost
<1>4. AtMost(b, c) => IsLess(a, c) \/ a = c
  BY <1>1, <1>2, <1>3
<1> QED
  BY <1>1, <1>2, <1>4, Total DEF AtMost

\* A positive factor keeps the order, and so does a difference.
LEMMA Scaled ==
  ASSUME NEW a \in Rationals, NEW b \in Rationals, NEW c \in Rationals,
         c.num > 0
  PROVE  IsLess(Times(a, c), Times(b, c)) <=> IsLess(a, b)
<1>1. ASSUME NEW x \in Rationals, NEW y \in Rationals, IsLess(x, y)
      PROVE  IsLess(Times(x, c), Times(y, c))
  <2>1. Minus(y, x) \in Rationals /\ Minus(y, x).num > 0
    BY <1>1, Closed, LessIs
  <2>2. Times(Minus(y, x), c).num > 0
    BY <2>1, Signs
  <2>3. Times(Minus(y, x), c) = Minus(Times(y, c), Times(x, c))
    BY Distributes
  <2> QED
    BY <2>2, <2>3, Closed, LessIs
<1>2. Times(a, c) \in Rationals /\ Times(b, c) \in Rationals
  BY Closed
<1> QED
  BY <1>1, <1>2, Total

LEMMA Shifted ==
  ASSUME NEW a \in Rationals, NEW b \in Rationals, NEW c \in Rationals
  PROVE  IsLess(Minus(a, c), Minus(b, c)) <=> IsLess(a, b)
<1> DEFINE x == Minus(a, c)
           y == Minus(b, c)
<1>1. x \in Rationals /\ y \in Rationals /\ Plus(x, c) = a /\ Plus(y, c) = b
  BY Closed, Undone
<1> HIDE DEF x, y
<1>2. Plus(x, c) = Plus(c, x) /\ Plus(c, x) \in Rationals
  BY <1>1, Commutes
<1>3. Minus(b, Plus(c, x)) = Minus(Minus(b, c), x)
  BY <1>1, Associates
<1>4. Minus(b, c) = y
  BY DEF y
<1>5. Minus(b, a) = Minus(y, x)
  BY <1>1, <1>2, <1>3, <1>4
<1>6. IsLess(x, y) <=> IsLess(a, b)
  BY <1>1, <1>5, LessIs
<1> QED
  BY <1>6 DEF x, y

Positives == {a \in Rationals : a.num > 0}

LEMMA OverPositive ==
  ASSUME NEW a \in Positives, NEW b \in Positives
  PROVE  Over(a, b) \in Positives /\ Times(Over(a, b), b) = a
<1>1. /\ a.num \in Int /\ a.den \in Positive /\ b.num \in Int
      /\ b.den \in Positive /\ a.num > 0 /\ b.num > 0
      /\ a \in Rationals /\ b \in Rationals
  BY RationalRatio DEF Positives
<1>2. PICK n \in Positive, d \in Positive : n = a.num /\ d = a.den
  BY <1>1 DEF Positive
<1>3. PICK m \in Positive, e \in Positive : m = b.num /\ e = b.den
  BY <1>1 DEF Positive
<1>4. d * m \in Positive /\ n * e \in Positive
  BY PositiveProduct
<1>5. Over(a, b) = Ratio(n * e, d * m)
  BY <1>1, <1>2, <1>3 DEF Over
<1>6. Ratio(n * e, d * m).num > 0
  <2>1. n * e \in Int /\ n * e > 0
    BY <1>4 DEF Positive
  <2> QED
    BY <1>4, <2>1, SignRatio
<1>7. b.num # 0
  BY <1>1
<1>8. Over(a, b) \in Rationals /\ Times(Over(a, b), b) = a
  BY <1>1, <1>7, OverIs
<1> QED
  BY <1>5, <1>6, <1>8 DEF Positives

LEMMA TimesPositive ==
  ASSUME NEW a \in Positives, NEW b \in Positives
  PROVE  Times(a, b) \in Positives
  BY Signs, Closed DEF Positives

\* What is left of an amount since it was more is less.
LEMMA HigherPeak ==
  ASSUME NEW a \in Positives, NEW b \in Positives, NEW x \in Positives,
         AtMost(a, b)
  PROVE  AtMost(Over(x, b), Over(x, a))
<1> DEFINE u == Over(x, a)
           v == Over(x, b)
<1>1. u \in Positives /\ v \in Positives /\ Times(u, a) = x /\ Times(v, b) = x
  BY OverPositive
<1> HIDE DEF u, v
<1>2. /\ u \in Rationals /\ v \in Rationals /\ v.num > 0
      /\ a \in Rationals /\ b \in Rationals /\ a.num > 0
      /\ Times(v, a) \in Rationals /\ x \in Rationals
  BY <1>1, Closed DEF Positives
<1>3. SUFFICES ASSUME IsLess(u, v) PROVE FALSE
  BY DEF AtMost, u, v
<1>4. IsLess(x, Times(v, a))
  BY <1>1, <1>2, <1>3, Scaled
<1>5. ~IsLess(Times(b, v), Times(a, v))
  BY <1>2, Scaled DEF AtMost
<1>6. Times(b, v) = x /\ Times(a, v) = Times(v, a)
  BY <1>1, <1>2, Commutes
<1> QED
  BY <1>4, <1>5, <1>6

-----------------------------------------------------------------------------
(* Drawdowns.                                                              *)

\* A series of returns, each above -100 %.
IsReturns(returns) ==
  /\ Len(returns) \in Nat
  /\ \A k \in 1..Len(returns) : Return(returns[k])

\* What is made of one by a return.
LEMMA ReturnPositive ==
  ASSUME NEW r, Return(r)
  PROVE  r \in Rationals /\ Plus(One, r) \in Positives
<1>1. r \in Rationals /\ r.num + r.den > 0
  BY RationalIn DEF Return
<1>2. r.num \in Int /\ r.den \in Positive /\ r = Ratio(r.num, r.den)
  BY <1>1, RationalRatio
<1>3. PICK n \in Int, d \in Positive : n = r.num /\ d = r.den
  BY <1>2
<1>4. 1 \in Positive /\ 1 * d + n * 1 = n + d /\ 1 * d = d /\ n + d \in Int
  BY DEF Positive
<1>5. Plus(One, r) = Ratio(n + d, d)
  <2>1. Plus(Ratio(1, 1), Ratio(n, d)) = Ratio(1 * d + n * 1, 1 * d)
    BY <1>4, Operations
  <2> QED
    BY <1>2, <1>3, <1>4, <2>1, Constants
<1>6. Plus(One, r) \in Rationals
  BY <1>1, Constants, Closed
<1>7. Ratio(n + d, d).num > 0
  BY <1>1, <1>3, <1>4, SignRatio
<1> QED
  BY <1>1, <1>5, <1>6, <1>7 DEF Positives

LEMMA OnePositive == One \in Positives /\ One \in Rationals
<1>1. One.num > 0
  BY SignRatio DEF One, Whole, Positive
<1> QED
  BY <1>1, Constants DEF Positives

\* The wealth after each number of returns.
LEMMA WealthFunction ==
  ASSUME NEW returns, IsReturns(returns)
  PROVE  /\ Wealth(returns) \in [0..Len(returns) -> Positives]
         /\ Wealth(returns)[0] = One
         /\ \A k \in 1..Len(returns) :
              Wealth(returns)[k]
                = Times(Wealth(returns)[k - 1], Plus(One, returns[k]))
<1> DEFINE n == Len(returns)
           step == [k \in Nat |-> [x \in Positives |->
                      IF k \in 1..n THEN Times(x, Plus(One, returns[k])) ELSE x]]
<1>1. n \in Nat /\ \A k \in 1..n : Plus(One, returns[k]) \in Positives
  BY ReturnPositive DEF IsReturns
<1> HIDE DEF n
<1>2. step \in Steps(Positives)
  BY <1>1, TimesPositive DEF Steps
<1>3. \A k \in 1..n, x \in Positives :
        step[k][x] = Times(x, Plus(One, returns[k]))
  OBVIOUS
<1> HIDE DEF step
<1>4. PICK f \in [0..n -> Positives] : Iterates(f, n, Positives, One, step)
  BY <1>1, <1>2, OnePositive, IterationExists
<1>5. \A k \in 1..n : k - 1 \in 0..n /\ k \in 0..n /\ k # 0
  BY <1>1
<1>6. f[0] = One /\ \A k \in 1..n : f[k] = Times(f[k - 1], Plus(One, returns[k]))
  BY <1>3, <1>4, <1>5 DEF Iterates
<1>7. f = [k \in 0..n |-> IF k = 0 THEN One
                          ELSE Times(f[k - 1], Plus(One, returns[k]))]
  BY <1>1, <1>6
<1> DEFINE wealth[k \in 0..n] == IF k = 0 THEN One
                                 ELSE Times(wealth[k - 1], Plus(One, returns[k]))
<1>8. wealth = [k \in 0..n |-> IF k = 0 THEN One
                               ELSE Times(wealth[k - 1], Plus(One, returns[k]))]
  <2>1. \E h : h = [k \in 0..n |-> IF k = 0 THEN One
                                  ELSE Times(h[k - 1], Plus(One, returns[k]))]
    BY <1>7
  <2> QED
    BY <2>1
<1>9. Wealth(returns) = wealth
  BY DEF Wealth, n
<1> HIDE DEF wealth
<1>10. wealth[0] = One /\ \A k \in 1..n : wealth[k] = Times(wealth[k - 1], Plus(One, returns[k]))
  BY <1>1, <1>5, <1>8
<1>11. Iterates(wealth, n, Positives, One, step)
  BY <1>3, <1>10 DEF Iterates
<1>12. \A k \in 0..n : wealth[k] \in Positives
  BY <1>1, <1>2, <1>4, <1>11, OnePositive, IterationUnique
<1>13. wealth \in [0..n -> Positives]
  BY <1>8, <1>12
<1> QED
  BY <1>9, <1>10, <1>13 DEF n

\* The loss from one point in time to another.
LossOf(w, i, j) == Minus(Over(w[j], w[i]), One)

\* The state of the loop of the drawdown after a number of returns.
Recorded == [wealth : Positives, peak : Positives, drawdown : Rationals]

\* The loop body.
After(s, r) ==
  LET wealth == Times(s.wealth, Plus(One, r))
      peak == Greater(s.peak, wealth)
  IN  [wealth |-> wealth, peak |-> peak,
       drawdown |-> Lesser(s.drawdown, Minus(Over(wealth, peak), One))]

Start == [wealth |-> One, peak |-> One, drawdown |-> Zero]

LEMMA AfterRecorded ==
  ASSUME NEW s \in Recorded, NEW r, Return(r)
  PROVE  After(s, r) \in Recorded
<1> DEFINE wealth == Times(s.wealth, Plus(One, r))
           peak == Greater(s.peak, wealth)
           loss == Minus(Over(wealth, peak), One)
<1>1. wealth \in Positives
  BY ReturnPositive, TimesPositive DEF Recorded
<1> HIDE DEF wealth
<1>2. peak \in Positives
  BY <1>1 DEF Greater, Recorded
<1> HIDE DEF peak
<1>3. Over(wealth, peak) \in Rationals
  BY <1>1, <1>2, OverPositive DEF Positives
<1>4. loss \in Rationals
  BY <1>3, Constants, Closed
<1> HIDE DEF loss
<1>5. Lesser(s.drawdown, loss) \in Rationals
  BY <1>4 DEF Lesser, Recorded
<1>6. After(s, r) = [wealth |-> wealth, peak |-> peak,
                     drawdown |-> Lesser(s.drawdown, loss)]
  BY DEF After, wealth, peak, loss
<1> QED
  BY <1>1, <1>2, <1>5, <1>6 DEF Recorded

LEMMA DrawdownFunction ==
  ASSUME NEW returns, IsReturns(returns)
  PROVE  /\ Drawdowns(returns) \in [0..Len(returns) -> Recorded]
         /\ Drawdowns(returns)[0] = Start
         /\ \A k \in 1..Len(returns) :
              Drawdowns(returns)[k] = After(Drawdowns(returns)[k - 1], returns[k])
<1> DEFINE n == Len(returns)
           step == [k \in Nat |-> [s \in Recorded |->
                      IF k \in 1..n THEN After(s, returns[k]) ELSE s]]
<1>1. n \in Nat /\ \A k \in 1..n : Return(returns[k])
  BY DEF IsReturns
<1> HIDE DEF n
<1>2. step \in Steps(Recorded)
  BY <1>1, AfterRecorded DEF Steps
<1>3. \A k \in 1..n, s \in Recorded : step[k][s] = After(s, returns[k])
  OBVIOUS
<1> HIDE DEF step
<1>4. Start \in Recorded
  BY OnePositive, Constants DEF Start, Recorded
<1>5. PICK f \in [0..n -> Recorded] : Iterates(f, n, Recorded, Start, step)
  BY <1>1, <1>2, <1>4, IterationExists
<1>6. \A k \in 1..n : k - 1 \in 0..n /\ k \in 0..n /\ k # 0
  BY <1>1
<1>7. f[0] = Start /\ \A k \in 1..n : f[k] = After(f[k - 1], returns[k])
  BY <1>3, <1>5, <1>6 DEF Iterates
<1>8. f = [k \in 0..n |-> IF k = 0 THEN Start ELSE After(f[k - 1], returns[k])]
  BY <1>1, <1>7
<1> DEFINE state[k \in 0..n] == IF k = 0 THEN Start
                                ELSE After(state[k - 1], returns[k])
<1>9. state = [k \in 0..n |-> IF k = 0 THEN Start ELSE After(state[k - 1], returns[k])]
  <2>1. \E h : h = [k \in 0..n |-> IF k = 0 THEN Start ELSE After(h[k - 1], returns[k])]
    BY <1>8
  <2> QED
    BY <2>1
<1>10. Drawdowns(returns) = state
  BY DEF Drawdowns, n, After, Start
<1> HIDE DEF state
<1>11. state[0] = Start /\ \A k \in 1..n : state[k] = After(state[k - 1], returns[k])
  BY <1>1, <1>6, <1>9
<1>12. Iterates(state, n, Recorded, Start, step)
  BY <1>3, <1>11 DEF Iterates
<1>13. \A k \in 0..n : state[k] \in Recorded
  BY <1>1, <1>2, <1>4, <1>5, <1>12, IterationUnique
<1>14. state \in [0..n -> Recorded]
  BY <1>9, <1>13
<1> QED
  BY <1>10, <1>11, <1>14 DEF n

\* The peak is the highest wealth so far and the drawdown the worst loss so far.
WorstSoFar(s, w, k) ==
  /\ s.wealth = w[k]
  /\ \E i \in 0..k : s.peak = w[i]
  /\ \A i \in 0..k : AtMost(w[i], s.peak)
  /\ \E i \in 0..k, j \in 0..k : i <= j /\ s.drawdown = LossOf(w, i, j)
  /\ \A i \in 0..k, j \in 0..k : i <= j => AtMost(s.drawdown, LossOf(w, i, j))

LEMMA WorstAtStart ==
  ASSUME NEW n \in Nat, NEW w \in [0..n -> Positives], w[0] = One
  PROVE  WorstSoFar(Start, w, 0)
<1>1. Start.wealth = One /\ Start.peak = One /\ Start.drawdown = Zero
  BY DEF Start
<1>2. 0 \in 0..0 /\ \A i \in 0..0 : i = 0
  OBVIOUS
<1>3. LossOf(w, 0, 0) = Zero
  <2> DEFINE x == Over(One, One)
  <2>1. x \in Rationals /\ Times(x, One) = One
    BY OnePositive, OverPositive DEF Positives
  <2> HIDE DEF x
  <2>2. x = One
    BY <2>1, Units
  <2>3. Minus(x, One) = Zero
    BY <2>1, <2>2, Units
  <2> QED
    BY <2>3 DEF LossOf, x
<1>4. AtMost(One, One) /\ AtMost(Zero, Zero)
  BY Constants, Total DEF AtMost
<1> QED
  BY <1>1, <1>2, <1>3, <1>4 DEF WorstSoFar

LEMMA LossIn ==
  ASSUME NEW n \in Nat, NEW w \in [0..n -> Positives],
         NEW i \in 0..n, NEW j \in 0..n
  PROVE  LossOf(w, i, j) \in Rationals
<1>1. Over(w[j], w[i]) \in Rationals
  BY OverPositive DEF Positives
<1> QED
  BY <1>1, Constants, Closed DEF LossOf

\* Seen from a higher peak, a loss is worse.
LEMMA WorseFromPeak ==
  ASSUME NEW n \in Nat, NEW w \in [0..n -> Positives],
         NEW i \in 0..n, NEW j \in 0..n, NEW k \in 0..n, AtMost(w[i], w[j])
  PROVE  AtMost(LossOf(w, j, k), LossOf(w, i, k))
<1> DEFINE u == Over(w[k], w[j])
           v == Over(w[k], w[i])
<1>1. u \in Rationals /\ v \in Rationals
  BY OverPositive DEF Positives
<1>2. AtMost(u, v)
  BY HigherPeak
<1> HIDE DEF u, v
<1>3. AtMost(Minus(u, One), Minus(v, One))
  BY <1>1, <1>2, Constants, Shifted DEF AtMost
<1> QED
  BY <1>3 DEF LossOf, u, v

LEMMA WorstStep ==
  ASSUME NEW n \in Nat, NEW w \in [0..n -> Positives], NEW k \in Nat,
         k + 1 \in 0..n, NEW s \in Recorded, WorstSoFar(s, w, k), NEW r,
         Return(r), w[k + 1] = Times(w[k], Plus(One, r))
  PROVE  WorstSoFar(After(s, r), w, k + 1)
<1> DEFINE wealth == w[k + 1]
           peak == Greater(s.peak, wealth)
           loss == Minus(Over(wealth, peak), One)
           t == After(s, r)
<1>1. t = [wealth |-> wealth, peak |-> peak, drawdown |-> Lesser(s.drawdown, loss)]
  BY DEF WorstSoFar, After
<1>2. /\ t.wealth = wealth /\ t.peak = peak /\ t.drawdown = Lesser(s.drawdown, loss)
  BY <1>1
<1> HIDE DEF t
<1>3. /\ 0..k \subseteq 0..n /\ 0..k \subseteq 0..(k + 1) /\ 0..(k + 1) \subseteq 0..n
      /\ k + 1 \in 0..(k + 1) /\ \A i \in 0..(k + 1) : i \in 0..k \/ i = k + 1
      /\ \A i \in 0..(k + 1) : i <= k + 1
      /\ \A i \in 0..k : ~(k + 1 <= i)
  OBVIOUS
<1>4. \A i \in 0..(k + 1) : w[i] \in Positives /\ w[i] \in Rationals
  BY <1>3 DEF Positives
<1>5. /\ wealth \in Positives /\ wealth \in Rationals
      /\ s.peak \in Positives /\ s.peak \in Rationals /\ s.drawdown \in Rationals
  BY <1>3 DEF Recorded, Positives
<1>6. /\ peak = s.peak \/ peak = wealth
      /\ AtMost(s.peak, peak) /\ AtMost(wealth, peak)
  BY <1>5, Total DEF Greater, AtMost
<1>7. PICK top \in 0..(k + 1) : peak = w[top]
  BY <1>3, <1>6 DEF WorstSoFar
<1>8. \A i \in 0..(k + 1) : AtMost(w[i], peak)
  <2>1. ASSUME NEW i \in 0..k PROVE AtMost(w[i], peak)
    <3>1. AtMost(w[i], s.peak)
      BY DEF WorstSoFar
    <3>2. i \in 0..(k + 1) /\ peak \in Rationals
      BY <1>3, <1>4, <1>7
    <3> QED
      BY <1>4, <1>5, <1>6, <3>1, <3>2, AtMostOrder
  <2> QED
    BY <1>3, <1>6, <2>1
<1>9. loss = LossOf(w, top, k + 1) /\ loss \in Rationals
  BY <1>3, <1>7, LossIn DEF LossOf
<1> HIDE DEF loss
<1>10. /\ t.drawdown = s.drawdown \/ t.drawdown = loss
       /\ AtMost(t.drawdown, s.drawdown) /\ AtMost(t.drawdown, loss)
       /\ t.drawdown \in Rationals
  BY <1>2, <1>5, <1>9, Total DEF Lesser, AtMost
<1>11. \E i \in 0..(k + 1), j \in 0..(k + 1) :
         i <= j /\ t.drawdown = LossOf(w, i, j)
  <2>1. CASE t.drawdown = s.drawdown
    <3>1. PICK i \in 0..k, j \in 0..k : i <= j /\ s.drawdown = LossOf(w, i, j)
      BY DEF WorstSoFar
    <3> QED
      BY <1>3, <2>1, <3>1
  <2>2. CASE t.drawdown = loss
    BY <1>3, <1>7, <1>9, <2>2
  <2> QED
    BY <1>10, <2>1, <2>2
<1>12. ASSUME NEW i \in 0..(k + 1), NEW j \in 0..(k + 1), i <= j
       PROVE  AtMost(t.drawdown, LossOf(w, i, j))
  <2>1. LossOf(w, i, j) \in Rationals
    BY <1>3, LossIn
  <2>2. CASE j = k + 1
    <3>1. AtMost(w[i], w[top])
      BY <1>7, <1>8
    <3>2. AtMost(loss, LossOf(w, i, j))
      BY <1>3, <1>9, <2>2, <3>1, WorseFromPeak
    <3> QED
      BY <1>9, <1>10, <2>1, <3>2, AtMostOrder
  <2>3. CASE j # k + 1
    <3>1. i \in 0..k /\ j \in 0..k
      BY <1>12, <2>3
    <3>2. AtMost(s.drawdown, LossOf(w, i, j))
      BY <1>12, <3>1 DEF WorstSoFar
    <3> QED
      BY <1>5, <1>10, <2>1, <3>2, AtMostOrder
  <2> QED
    BY <2>2, <2>3
<1>13. \E i \in 0..(k + 1) : t.peak = w[i]
  BY <1>2, <1>7
<1>14. \A i \in 0..(k + 1) : AtMost(w[i], t.peak)
  BY <1>2, <1>8
<1> QED
  BY <1>2, <1>11, <1>12, <1>13, <1>14 DEF WorstSoFar, t

LEMMA WorstInTheEnd ==
  ASSUME NEW returns, IsReturns(returns)
  PROVE  WorstSoFar(Drawdowns(returns)[Len(returns)], Wealth(returns), Len(returns))
<1> DEFINE n == Len(returns)
           w == Wealth(returns)
           d == Drawdowns(returns)
           S == {k \in Nat : k <= n => WorstSoFar(d[k], w, k)}
<1>1. /\ n \in Nat /\ \A k \in 1..n : Return(returns[k])
  BY DEF IsReturns
<1>2. /\ w \in [0..n -> Positives] /\ w[0] = One
      /\ \A k \in 1..n : w[k] = Times(w[k - 1], Plus(One, returns[k]))
  BY WealthFunction
<1>3. /\ d \in [0..n -> Recorded] /\ d[0] = Start
      /\ \A k \in 1..n : d[k] = After(d[k - 1], returns[k])
  BY DrawdownFunction
<1> HIDE DEF n, w, d
<1>4. 0 \in S
  BY <1>1, <1>2, <1>3, WorstAtStart
<1>5. ASSUME NEW k \in Nat, k \in S PROVE k + 1 \in S
  <2>1. SUFFICES ASSUME k + 1 <= n PROVE WorstSoFar(d[k + 1], w, k + 1)
    OBVIOUS
  <2>2. /\ k + 1 \in 1..n /\ k + 1 \in 0..n /\ (k + 1) - 1 = k /\ k \in 0..n
        /\ k <= n
    BY <1>1, <2>1
  <2>3. WorstSoFar(d[k], w, k) /\ d[k] \in Recorded
    BY <1>3, <1>5, <2>2
  <2>4. /\ w[k + 1] = Times(w[k], Plus(One, returns[k + 1]))
        /\ d[k + 1] = After(d[k], returns[k + 1])
        /\ Return(returns[k + 1])
    BY <1>1, <1>2, <1>3, <2>2
  <2> QED
    BY <1>1, <1>2, <2>2, <2>3, <2>4, WorstStep
<1>6. Nat \subseteq S
  <2> HIDE DEF S
  <2> QED
    BY <1>4, <1>5, NaturalInduction
<1>7. WorstSoFar(d[n], w, n)
  BY <1>1, <1>6
<1> QED
  BY <1>7 DEF n, w, d

\* No loss between two points in time is worse than the maximal drawdown, and
\* one is as bad.
LEMMA DrawdownIsWorst ==
  ASSUME NEW returns, IsReturns(returns)
  PROVE  LET wealth == Wealth(returns)
             Loss(from, to) == Minus(Over(wealth[to], wealth[from]), One)
             losses == {Loss(p[1], p[2]) :
                          p \in {q \in (0..Len(returns)) \X (0..Len(returns)) :
                                   q[1] <= q[2]}}
         IN  /\ MaxDrawdown(returns) \in losses
             /\ \A loss \in losses : ~IsLess(loss, MaxDrawdown(returns))
<1> DEFINE n == Len(returns)
           w == Wealth(returns)
           m == MaxDrawdown(returns)
           pairs == {q \in (0..n) \X (0..n) : q[1] <= q[2]}
           losses == {LossOf(w, p[1], p[2]) : p \in pairs}
<1>1. WorstSoFar(Drawdowns(returns)[n], w, n) /\ m = Drawdowns(returns)[n].drawdown
  BY WorstInTheEnd DEF MaxDrawdown
<1> HIDE DEF n, w, m
<1>2. m \in losses
  <2>1. PICK i \in 0..n, j \in 0..n : i <= j /\ m = LossOf(w, i, j)
    BY <1>1 DEF WorstSoFar
  <2>2. <<i, j>> \in pairs /\ <<i, j>>[1] = i /\ <<i, j>>[2] = j
    BY <2>1
  <2> QED
    BY <2>1, <2>2
<1>3. ASSUME NEW loss \in losses PROVE ~IsLess(loss, m)
  <2>1. PICK p \in pairs : loss = LossOf(w, p[1], p[2])
    OBVIOUS
  <2>2. p[1] \in 0..n /\ p[2] \in 0..n /\ p[1] <= p[2]
    OBVIOUS
  <2> QED
    BY <1>1, <2>1, <2>2 DEF WorstSoFar, AtMost
<1> QED
  BY <1>2, <1>3 DEF LossOf, n, w, m

-----------------------------------------------------------------------------
(* The loss quantile.                                                      *)

\* The returns sorted no later than the k-th.
UpTo(returns, k) ==
  {j \in 1..Len(returns) : \/ IsLess(returns[j], returns[k])
                           \/ returns[j] = returns[k] /\ j <= k}

LEMMA UpToSubset ==
  ASSUME NEW returns, IsReturns(returns), NEW k \in 1..Len(returns)
  PROVE  /\ IsFiniteSet(UpTo(returns, k)) /\ k \in UpTo(returns, k)
         /\ Place(returns, k) = Cardinality(UpTo(returns, k))
         /\ Place(returns, k) \in 1..Len(returns)
<1> DEFINE n == Len(returns)
           up == UpTo(returns, k)
<1>1. n \in Nat /\ IsFiniteSet(1..n) /\ Cardinality(1..n) = n
  <2>1. n \in Nat /\ n \in Int /\ 1 \in Int
    BY DEF IsReturns
  <2>2. IsFiniteSet(1..n) /\ Cardinality(1..n) = IF 1 > n THEN 0 ELSE n - 1 + 1
    BY <2>1, FS_Interval
  <2> QED
    BY <2>1, <2>2
<1>2. up \in SUBSET (1..n) /\ k \in up
  BY DEF UpTo
<1>3. Place(returns, k) = Cardinality(up)
  BY DEF Place, UpTo
<1> HIDE DEF up, n
<1>4. IsFiniteSet(up) /\ Cardinality(up) <= n
  BY <1>1, <1>2, FS_Subset
<1>5. Cardinality(up) \in Nat
  BY <1>4, FS_CardinalityType
<1>6. Cardinality(up) # 0
  BY <1>2, <1>4, FS_EmptySet
<1>7. Cardinality(up) \in 1..n
  BY <1>1, <1>4, <1>5, <1>6
<1> QED
  BY <1>2, <1>3, <1>4, <1>7 DEF n, up

\* One return is sorted before another.
SortedBefore(returns, i, j) ==
  \/ IsLess(returns[i], returns[j])
  \/ returns[i] = returns[j] /\ i < j

\* Then its place is earlier.
LEMMA PlaceEarlier ==
  ASSUME NEW returns, IsReturns(returns),
         NEW i \in 1..Len(returns), NEW j \in 1..Len(returns),
         SortedBefore(returns, i, j)
  PROVE  Place(returns, i) < Place(returns, j)
<1>1. \A m \in 1..Len(returns) : returns[m] \in Rationals
  BY ReturnPositive DEF IsReturns
<1>2. Len(returns) \in Nat
  BY DEF IsReturns
<1>3. j \notin UpTo(returns, i)
  BY <1>1, <1>2, Total DEF UpTo, SortedBefore
<1>4. UpTo(returns, i) \subseteq UpTo(returns, j)
  <2> SUFFICES ASSUME NEW m \in UpTo(returns, i) PROVE m \in UpTo(returns, j)
    OBVIOUS
  <2>1. /\ m \in 1..Len(returns)
        /\ \/ IsLess(returns[m], returns[i])
           \/ returns[m] = returns[i] /\ m <= i
    BY DEF UpTo
  <2>2. \/ IsLess(returns[m], returns[j])
        \/ returns[m] = returns[j] /\ m <= j
    BY <1>1, <1>2, <2>1, Transitive DEF SortedBefore
  <2> QED
    BY <2>1, <2>2 DEF UpTo
<1>5. /\ j \in UpTo(returns, j) /\ IsFiniteSet(UpTo(returns, j))
      /\ Place(returns, i) = Cardinality(UpTo(returns, i))
      /\ Place(returns, j) = Cardinality(UpTo(returns, j))
      /\ Place(returns, i) \in Nat /\ Place(returns, j) \in Nat
  BY <1>2, UpToSubset
<1>6. /\ Cardinality(UpTo(returns, i)) <= Cardinality(UpTo(returns, j))
      /\ Cardinality(UpTo(returns, i)) # Cardinality(UpTo(returns, j))
  BY <1>3, <1>4, <1>5, FS_Subset
<1> QED
  BY <1>5, <1>6

\* Of two returns one is sorted before the other.
LEMMA PlacesDiffer ==
  ASSUME NEW returns, IsReturns(returns),
         NEW k \in 1..Len(returns), NEW l \in 1..Len(returns), k # l
  PROVE  Place(returns, k) # Place(returns, l)
<1>1. \A j \in 1..Len(returns) : returns[j] \in Rationals
  BY ReturnPositive DEF IsReturns
<1>2. Len(returns) \in Nat
  BY DEF IsReturns
<1>3. SortedBefore(returns, k, l) \/ SortedBefore(returns, l, k)
  BY <1>1, <1>2, Total DEF SortedBefore
<1>4. Place(returns, k) \in Nat /\ Place(returns, l) \in Nat
  BY <1>2, UpToSubset
<1> QED
  BY <1>3, <1>4, PlaceEarlier

\* Every place is taken.
LEMMA PlaceTaken ==
  ASSUME NEW returns, IsReturns(returns), NEW t \in 1..Len(returns)
  PROVE  \E k \in 1..Len(returns) : Place(returns, k) = t
<1> DEFINE n == Len(returns)
           f == [k \in 1..n |-> Place(returns, k)]
<1>1. n \in Nat /\ IsFiniteSet(1..n)
  <2>1. n \in Nat /\ n \in Int /\ 1 \in Int
    BY DEF IsReturns
  <2> QED
    BY <2>1, FS_Interval
<1>2. \A k \in 1..n : Place(returns, k) \in 1..n
  BY UpToSubset
<1>3. \A k \in 1..n, l \in 1..n : Place(returns, k) = Place(returns, l) => k = l
  BY PlacesDiffer
<1>4. f \in Injection(1..n, 1..n)
  BY <1>2, <1>3 DEF Injection, IsInjective
<1> HIDE DEF f, n
<1>5. f \in Surjection(1..n, 1..n)
  BY <1>1, <1>4, FS_Injection
<1>6. t \in 1..n
  BY DEF n
<1>7. \E k \in 1..n : f[k] = t
  BY <1>5, <1>6 DEF Surjection
<1> QED
  BY <1>7 DEF f, n

LEMMA TailBounds ==
  ASSUME NEW n \in Nat \ {0}
  PROVE  /\ TailCount(n) \in 1..n /\ 20 * TailCount(n) >= n
         /\ 20 * (TailCount(n) - 1) < n
<1> DEFINE t == (n + 19) \div 20
<1>1. t \in Int /\ n + 19 >= 20 * t /\ n + 19 < 20 * t + 20
  OBVIOUS
<1>2. TailCount(n) = t
  BY DEF TailCount
<1> HIDE DEF t
<1> QED
  BY <1>1, <1>2

\* Twice the opposite is the number itself.
LEMMA Opposed ==
  ASSUME NEW a \in Rationals
  PROVE  /\ Minus(Zero, Minus(Zero, a)) = a
         /\ IsLess(Zero, Minus(Zero, a)) <=> IsLess(a, Zero)
<1> DEFINE m == Minus(Zero, a)
<1>1. m \in Rationals /\ Plus(m, a) = Zero /\ Plus(a, m) = Zero
  BY Constants, Closed, Undone, Commutes
<1>2. IsLess(a, Zero) <=> m.num > 0
  BY Constants, LessIs
<1> HIDE DEF m
<1>3. Minus(m, Zero) = m
  BY <1>1, Units
<1>4. IsLess(Zero, m) <=> m.num > 0
  BY <1>1, <1>3, Constants, LessIs
<1>5. Minus(Plus(a, m), m) = Plus(a, Minus(m, m))
  BY <1>1, Associates
<1>6. Minus(m, m) = Zero /\ Plus(a, Zero) = a
  BY <1>1, Units
<1>7. Minus(Zero, m) = a
  BY <1>1, <1>5, <1>6
<1> QED
  BY <1>2, <1>4, <1>7 DEF m

\* Fewer than one return in twenty is worse than the quantile, and at least one
\* is as bad.
LEMMA QuantileIsTail ==
  ASSUME NEW returns, IsReturns(returns), Len(returns) # 0
  PROVE  LET quantile == Minus(Zero, LossQuantile(returns))
             worse == {k \in 1..Len(returns) : IsLess(returns[k], quantile)}
             asBad == {k \in 1..Len(returns) : ~IsLess(quantile, returns[k])}
         IN  /\ 20 * Cardinality(worse) < Len(returns)
             /\ quantile = Zero \/ 20 * Cardinality(asBad) >= Len(returns)
<1> DEFINE n == Len(returns)
           t == TailCount(n)
           last == CHOOSE k \in 1..n : Place(returns, k) = t
           x == returns[last]
           q == Minus(Zero, LossQuantile(returns))
           worse == {k \in 1..n : IsLess(returns[k], q)}
           asBad == {k \in 1..n : ~IsLess(q, returns[k])}
<1>1. n \in Nat \ {0} /\ \A k \in 1..n : returns[k] \in Rationals
  BY ReturnPositive DEF IsReturns
<1>2. t \in 1..n /\ 20 * t >= n /\ 20 * (t - 1) < n
  BY <1>1, TailBounds
<1>3. last \in 1..n /\ Place(returns, last) = t
  <2> HIDE DEF t
  <2>1. \E k \in 1..n : Place(returns, k) = t
    BY <1>2, PlaceTaken
  <2> QED
    BY <2>1
<1>4. LossQuantile(returns) = Greater(Zero, Minus(Zero, x))
  BY DEF LossQuantile, Nth
<1> HIDE DEF last, t, n
<1>5. x \in Rationals
  BY <1>1, <1>3
<1>6. q \in Rationals /\ AtMost(q, x) /\ (q = Zero \/ q = x)
  <2> HIDE DEF x
  <2>1. Minus(Zero, x) \in Rationals
    BY <1>5, Constants, Closed
  <2>2. CASE IsLess(x, Zero)
    <3>1. q = x
      BY <1>4, <1>5, <2>2, Opposed DEF Greater
    <3> QED
      BY <1>5, <3>1, Total DEF AtMost
  <2>3. CASE ~IsLess(x, Zero)
    <3>1. LossQuantile(returns) = Zero
      BY <1>4, <1>5, <2>3, Opposed DEF Greater
    <3>2. q = Zero
      BY <3>1, Constants, Units
    <3> QED
      BY <2>3, <3>2, Constants DEF AtMost
  <2> QED
    BY <2>2, <2>3
<1> HIDE DEF x, q
<1> DEFINE up == UpTo(returns, last)
<1>7. /\ IsFiniteSet(up) /\ last \in up /\ Cardinality(up) = t
      /\ up = {j \in 1..n : \/ IsLess(returns[j], x)
                            \/ returns[j] = x /\ j <= last}
  BY <1>3, UpToSubset DEF UpTo, n, x
<1> HIDE DEF up
<1>8. 20 * Cardinality(worse) < n
  <2>1. worse \subseteq up \ {last}
    <3> SUFFICES ASSUME NEW k \in 1..n, IsLess(returns[k], q)
                 PROVE  k \in up \ {last}
      OBVIOUS
    <3>1. IsLess(returns[k], x)
      <4>1. IsLess(q, x) \/ q = x
        BY <1>5, <1>6, Total DEF AtMost
      <4> QED
        BY <1>1, <1>5, <1>6, <4>1, Transitive
    <3>2. k # last
      BY <1>5, <3>1, Total DEF x
    <3> QED
      BY <1>7, <3>1, <3>2
  <2>2. IsFiniteSet(up \ {last}) /\ Cardinality(up \ {last}) = t - 1
    BY <1>7, FS_RemoveElement
  <2> HIDE DEF worse
  <2>3. IsFiniteSet(worse) /\ Cardinality(worse) <= t - 1
    BY <2>1, <2>2, FS_Subset
  <2>4. Cardinality(worse) \in Nat
    BY <2>3, FS_CardinalityType
  <2> QED
    BY <1>1, <1>2, <2>3, <2>4
<1>9. ASSUME q # Zero PROVE 20 * Cardinality(asBad) >= n
  <2>1. q = x
    BY <1>6, <1>9
  <2>2. up \subseteq asBad
    <3> SUFFICES ASSUME NEW k \in up PROVE k \in 1..n /\ ~IsLess(x, returns[k])
      BY <2>1
    <3>1. k \in 1..n /\ (IsLess(returns[k], x) \/ returns[k] = x)
      BY <1>7
    <3> QED
      BY <1>1, <1>5, <3>1, Total
  <2>3. IsFiniteSet(asBad)
    <3>1. n \in Int /\ 1 \in Int /\ asBad \in SUBSET (1..n)
      BY <1>1
    <3> HIDE DEF asBad
    <3> QED
      BY <3>1, FS_Interval, FS_Subset
  <2> HIDE DEF asBad
  <2>4. t <= Cardinality(asBad) /\ Cardinality(asBad) \in Nat
    BY <1>7, <2>2, <2>3, FS_Subset, FS_CardinalityType
  <2> QED
    BY <1>1, <1>2, <2>4
<1> QED
  BY <1>8, <1>9 DEF n, q

-----------------------------------------------------------------------------
(* The mean loss of the tail.                                              *)

\* The k-th of the sorted returns is a return, and the next is no less.
LEMMA NthIs ==
  ASSUME NEW returns, IsReturns(returns), NEW k \in 1..Len(returns)
  PROVE  \E i \in 1..Len(returns) :
           Place(returns, i) = k /\ Nth(returns, k) = returns[i]
<1>1. \E j \in 1..Len(returns) : Place(returns, j) = k
  BY PlaceTaken
<1> QED
  BY <1>1 DEF Nth

LEMMA NthOrder ==
  ASSUME NEW returns, IsReturns(returns), NEW k \in 1..Len(returns),
         NEW l \in 1..Len(returns), k <= l
  PROVE  AtMost(Nth(returns, k), Nth(returns, l))
<1>1. PICK i \in 1..Len(returns) :
        Place(returns, i) = k /\ Nth(returns, k) = returns[i]
  BY NthIs
<1>2. PICK j \in 1..Len(returns) :
        Place(returns, j) = l /\ Nth(returns, l) = returns[j]
  BY NthIs
<1>3. SUFFICES ASSUME IsLess(returns[j], returns[i]) PROVE FALSE
  BY <1>1, <1>2 DEF AtMost
<1>4. l < k
  BY <1>1, <1>2, <1>3, PlaceEarlier DEF SortedBefore
<1> QED
  BY <1>4 DEF IsReturns

\* A sum keeps the order, and an opposite reverses it.
LEMMA SumOrder ==
  ASSUME NEW a \in Rationals, NEW b \in Rationals,
         NEW c \in Rationals, NEW d \in Rationals,
         AtMost(a, b), AtMost(c, d)
  PROVE  AtMost(Plus(a, c), Plus(b, d))
<1>1. ASSUME NEW x \in Rationals, NEW y \in Rationals, NEW z \in Rationals
      PROVE  IsLess(Plus(x, z), Plus(y, z)) <=> IsLess(x, y)
  <2>1. /\ Plus(x, z) \in Rationals /\ Plus(y, z) \in Rationals
        /\ Minus(Plus(x, z), z) = x /\ Minus(Plus(y, z), z) = y
    BY Closed, Associates, Units
  <2> QED
    BY <2>1, Shifted
<1>2. /\ Plus(a, c) \in Rationals /\ Plus(b, c) \in Rationals
      /\ Plus(b, d) \in Rationals
      /\ Plus(c, b) = Plus(b, c) /\ Plus(d, b) = Plus(b, d)
  BY Closed, Commutes
<1>3. AtMost(Plus(a, c), Plus(b, c)) /\ AtMost(Plus(b, c), Plus(b, d))
  <2>1. ~IsLess(Plus(b, c), Plus(a, c))
    BY <1>1 DEF AtMost
  <2>2. ~IsLess(Plus(d, b), Plus(c, b))
    BY <1>1 DEF AtMost
  <2> QED
    BY <1>2, <2>1, <2>2 DEF AtMost
<1> QED
  BY <1>2, <1>3, AtMostOrder

LEMMA OppositeOrder ==
  ASSUME NEW a \in Rationals, NEW b \in Rationals
  PROVE  IsLess(Minus(Zero, a), Minus(Zero, b)) <=> IsLess(b, a)
<1> DEFINE m == Minus(Zero, a)
           x == Minus(b, a)
<1>1. /\ m \in Rationals /\ x \in Rationals /\ Zero \in Rationals
      /\ Minus(Zero, b) \in Rationals
  BY Constants, Closed
<1>2. Plus(b, m) = x
  BY <1>1, Associates, Units
<1>3. IsLess(x, Zero) <=> IsLess(b, a)
  <2>1. Minus(a, a) = Zero
    BY Units
  <2> QED
    BY <2>1, Shifted
<1> HIDE DEF m, x
<1>4. Minus(Minus(Zero, b), m) = Minus(Zero, x)
  BY <1>1, <1>2, Associates
<1>5. IsLess(m, Minus(Zero, b)) <=> IsLess(x, Zero)
  BY <1>1, <1>4, LessIs
<1> QED
  BY <1>3, <1>5 DEF m

\* One more time a number is that number more.
LEMMA OnceMore ==
  ASSUME NEW a \in Rationals, NEW k \in Nat
  PROVE  /\ Whole(k) \in Rationals
         /\ Times(a, Whole(k + 1)) = Plus(Times(a, Whole(k)), a)
<1>1. 1 \in Positive /\ k * 1 + 1 * 1 = k + 1 /\ 1 * 1 = 1 /\ k \in Int
  BY DEF Positive
<1>2. Whole(k) \in Rationals
  BY <1>1, RatioIn DEF Whole
<1>3. Plus(Whole(k), One) = Whole(k + 1)
  <2>1. Plus(Ratio(k, 1), Ratio(1, 1)) = Ratio(k * 1 + 1 * 1, 1 * 1)
    BY <1>1, Operations
  <2> QED
    BY <1>1, <2>1 DEF Whole, One
<1>4. Times(Plus(Whole(k), One), a) = Plus(Times(Whole(k), a), Times(One, a))
  BY <1>2, Constants, Distributes
<1>5. Whole(k + 1) \in Rationals
  BY <1>2, <1>3, Constants, Closed
<1>6. /\ Times(Whole(k + 1), a) = Times(a, Whole(k + 1))
      /\ Times(Whole(k), a) = Times(a, Whole(k)) /\ Times(One, a) = a
  BY <1>2, <1>5, Constants, Commutes, Units
<1> QED
  BY <1>2, <1>3, <1>4, <1>6

\* The mean of the first returns in the order is between the first and the last.
LEMMA MeanBetween ==
  ASSUME NEW returns, IsReturns(returns), NEW t \in 1..Len(returns),
         NEW sum, sum = [k \in 0..t |-> IF k = 0 THEN Zero
                                        ELSE Plus(sum[k - 1], Nth(returns, k))]
  PROVE  LET mean == Over(sum[t], Whole(t))
         IN  /\ mean \in Rationals
             /\ AtMost(Nth(returns, 1), mean) /\ AtMost(mean, Nth(returns, t))
<1> DEFINE low == Nth(returns, 1)
           high == Nth(returns, t)
           S == {k \in Nat : k <= t =>
                   /\ sum[k] \in Rationals
                   /\ AtMost(Times(low, Whole(k)), sum[k])
                   /\ AtMost(sum[k], Times(high, Whole(k)))}
<1>1. /\ t \in Nat /\ t # 0 /\ Len(returns) \in Nat
      /\ \A k \in 1..t : k \in 1..Len(returns)
      /\ 1 \in 1..t /\ t \in 1..t
  BY DEF IsReturns
<1>2. \A k \in 1..t : Nth(returns, k) \in Rationals
  <2>1. \A j \in 1..Len(returns) : returns[j] \in Rationals
    BY ReturnPositive DEF IsReturns
  <2> QED
    BY <1>1, <2>1, NthIs
<1>3. \A k \in 1..t : AtMost(low, Nth(returns, k)) /\ AtMost(Nth(returns, k), high)
  BY <1>1, NthOrder
<1>4. low \in Rationals /\ high \in Rationals
  BY <1>1, <1>2
<1> HIDE DEF low, high
<1>5. 0 \in S
  <2>1. sum[0] = Zero
    BY <1>1
  <2>2. /\ Whole(0) = Zero
        /\ Times(low, Zero) = Zero /\ Times(high, Zero) = Zero
    BY <1>4, Units DEF Zero
  <2> QED
    BY <2>1, <2>2, Constants, Total DEF AtMost
<1>6. ASSUME NEW k \in Nat, k \in S PROVE k + 1 \in S
  <2> SUFFICES ASSUME k + 1 <= t
               PROVE  /\ sum[k + 1] \in Rationals
                      /\ AtMost(Times(low, Whole(k + 1)), sum[k + 1])
                      /\ AtMost(sum[k + 1], Times(high, Whole(k + 1)))
    OBVIOUS
  <2> DEFINE r == Nth(returns, k + 1)
             s == sum[k]
  <2>1. k + 1 \in 1..t /\ k <= t /\ (k + 1) - 1 = k
    BY <1>1
  <2>2. sum[k + 1] = Plus(s, r)
    BY <1>1, <2>1
  <2>3. /\ r \in Rationals /\ s \in Rationals
        /\ AtMost(low, r) /\ AtMost(r, high)
        /\ AtMost(Times(low, Whole(k)), s) /\ AtMost(s, Times(high, Whole(k)))
    BY <1>2, <1>3, <1>6, <2>1
  <2> HIDE DEF r, s
  <2>4. /\ Times(low, Whole(k)) \in Rationals /\ Times(high, Whole(k)) \in Rationals
        /\ Times(low, Whole(k + 1)) = Plus(Times(low, Whole(k)), low)
        /\ Times(high, Whole(k + 1)) = Plus(Times(high, Whole(k)), high)
    BY <1>4, OnceMore, Closed
  <2>5. Plus(s, r) \in Rationals
    BY <2>3, Closed
  <2>6. AtMost(Plus(Times(low, Whole(k)), low), Plus(s, r))
    BY <1>4, <2>3, <2>4, SumOrder
  <2>7. AtMost(Plus(s, r), Plus(Times(high, Whole(k)), high))
    BY <1>4, <2>3, <2>4, SumOrder
  <2> QED
    BY <2>2, <2>4, <2>5, <2>6, <2>7
<1>7. Nat \subseteq S
  <2> HIDE DEF S
  <2> QED
    BY <1>5, <1>6, NaturalInduction
<1> DEFINE s == sum[t]
           w == Whole(t)
           mean == Over(s, w)
<1>8. /\ s \in Rationals /\ AtMost(Times(low, w), s) /\ AtMost(s, Times(high, w))
  BY <1>1, <1>7
<1>9. w \in Rationals /\ w.num > 0
  <2>1. 1 \in Positive /\ t \in Int /\ t > 0
    BY <1>1 DEF Positive
  <2>2. Ratio(t, 1) \in Rationals /\ Ratio(t, 1).num > 0
    BY <2>1, RatioIn, SignRatio
  <2> QED
    BY <2>2 DEF Whole
<1> HIDE DEF s, w
<1>10. mean \in Rationals /\ Times(mean, w) = s
  BY <1>8, <1>9, OverIs
<1> HIDE DEF mean
<1>11. AtMost(low, mean) /\ AtMost(mean, high)
  BY <1>4, <1>8, <1>9, <1>10, Scaled DEF AtMost
<1> QED
  BY <1>10, <1>11 DEF low, high, mean, s, w

\* What is not a loss counts as none.
LEMMA LossOrder ==
  ASSUME NEW a \in Rationals, NEW b \in Rationals, AtMost(a, b)
  PROVE  AtMost(Greater(Zero, Minus(Zero, b)), Greater(Zero, Minus(Zero, a)))
<1> DEFINE x == Minus(Zero, a)
           y == Minus(Zero, b)
<1>1. x \in Rationals /\ y \in Rationals /\ Zero \in Rationals
  BY Constants, Closed
<1>2. AtMost(y, x)
  BY OppositeOrder DEF AtMost
<1> HIDE DEF x, y
<1>3. AtMost(Greater(Zero, y), Greater(Zero, x))
  BY <1>1, <1>2, Total, AtMostOrder DEF AtMost, Greater
<1> QED
  BY <1>3 DEF x, y

LEMMA TailLossIsBounded ==
  ASSUME NEW returns, IsReturns(returns), Len(returns) # 0
  PROVE  /\ ~IsLess(TailLoss(returns), LossQuantile(returns))
         /\ \E k \in 1..Len(returns) :
              ~IsLess(Greater(Zero, Minus(Zero, returns[k])), TailLoss(returns))
<1> DEFINE n == Len(returns)
           t == TailCount(n)
           Loss(a) == Greater(Zero, Minus(Zero, a))
           low == Nth(returns, 1)
           high == Nth(returns, t)
<1>1. n \in Nat \ {0}
  BY DEF IsReturns
<1>2. t \in 1..n /\ t \in Nat /\ 1 \in 1..n
  <2> HIDE DEF n
  <2>1. t \in 1..n
    BY <1>1, TailBounds
  <2> HIDE DEF t
  <2> QED
    BY <1>1, <2>1
<1>3. \A k \in 1..n : /\ Nth(returns, k) \in Rationals
                     /\ \E i \in 1..n : Nth(returns, k) = returns[i]
  <2>1. \A j \in 1..n : returns[j] \in Rationals
    BY ReturnPositive DEF IsReturns
  <2> QED
    BY <2>1, NthIs
<1> HIDE DEF n, t
<1> DEFINE step == [k \in Nat |-> [x \in Rationals |->
                      IF k \in 1..t THEN Plus(x, Nth(returns, k)) ELSE x]]
<1>4. step \in Steps(Rationals)
  <2>1. \A k \in 1..t : k \in 1..n
    BY <1>1, <1>2
  <2> QED
    BY <1>3, <2>1, Closed DEF Steps
<1>5. \A k \in 1..t, x \in Rationals : step[k][x] = Plus(x, Nth(returns, k))
  OBVIOUS
<1> HIDE DEF step
<1>6. PICK f \in [0..t -> Rationals] : Iterates(f, t, Rationals, Zero, step)
  BY <1>2, <1>4, Constants, IterationExists
<1>7. f[0] = Zero /\ \A k \in 1..t : f[k] = Plus(f[k - 1], Nth(returns, k))
  <2>1. \A k \in 1..t : k - 1 \in 0..t
    BY <1>2
  <2> QED
    BY <1>5, <1>6, <2>1 DEF Iterates
<1>8. f = [k \in 0..t |-> IF k = 0 THEN Zero ELSE Plus(f[k - 1], Nth(returns, k))]
  BY <1>2, <1>7
<1> DEFINE sum[k \in 0..t] == IF k = 0 THEN Zero
                              ELSE Plus(sum[k - 1], Nth(returns, k))
<1>9. sum = [k \in 0..t |-> IF k = 0 THEN Zero ELSE Plus(sum[k - 1], Nth(returns, k))]
  <2>1. \E h : h = [k \in 0..t |-> IF k = 0 THEN Zero
                                   ELSE Plus(h[k - 1], Nth(returns, k))]
    BY <1>8
  <2> QED
    BY <2>1
<1> DEFINE mean == Over(sum[t], Whole(t))
<1>10. TailLoss(returns) = Loss(mean)
  BY DEF TailLoss, n, t
<1>11. LossQuantile(returns) = Loss(high)
  BY DEF LossQuantile, n, t
<1> HIDE DEF sum
<1>12. mean \in Rationals /\ AtMost(low, mean) /\ AtMost(mean, high)
  <2>1. t \in 1..Len(returns)
    BY <1>2 DEF n
  <2> QED
    BY <1>9, <2>1, MeanBetween
<1> HIDE DEF mean
<1>13. low \in Rationals /\ high \in Rationals
  BY <1>2, <1>3
<1>14. PICK i \in 1..n : low = returns[i]
  BY <1>2, <1>3
<1> HIDE DEF low, high
<1>15. AtMost(Loss(high), Loss(mean)) /\ AtMost(Loss(mean), Loss(low))
  BY <1>12, <1>13, LossOrder
<1> QED
  BY <1>10, <1>11, <1>14, <1>15 DEF AtMost, n

-----------------------------------------------------------------------------
(* The calculators.                                                        *)

LEMMA PickedInput ==
  ASSUME Picked, NEW algorithm, InputOf(algorithm)
  PROVE  first \in Inputs /\ first.algorithm = algorithm /\ second \in Seconds(first)
  BY DEF Picked, InputOf

LEMMA GrowthIsExact == Picked => GrowthExact
<1> SUFFICES ASSUME Picked, InputOf("growth")
             PROVE  FutureValue(first.principal, first.rate, second.periods,
                                first.contribution, second.early)
                      = Accumulated(first.principal, first.rate, second.periods,
                                    first.contribution, second.early)
  BY DEF GrowthExact
<1>1. /\ Rational(first.principal) /\ Rational(first.contribution)
      /\ Rational(first.rate)
      /\ second.periods \in Nat /\ second.early \in BOOLEAN
  BY PickedInput, AlgorithmAssumption DEF Return
<1>2. /\ first.principal \in Rationals /\ first.contribution \in Rationals
      /\ first.rate \in Rationals
  BY <1>1, RationalIn
<1> QED
  BY <1>1, <1>2, BalanceFunction

LEMMA LoanIsRepaid == Picked => LoanRepaid
<1> SUFFICES ASSUME Picked, InputOf("loan")
             PROVE  Outstanding(first.principal, first.rate, second,
                                Payment(first.principal, first.rate, second)) = Zero
  BY DEF LoanRepaid
<1>1. /\ Rational(first.principal) /\ Return(first.rate)
      /\ second \in Nat \ {0}
  BY PickedInput, AlgorithmAssumption
<1>2. /\ first.principal \in Rationals /\ first.rate \in Rationals
      /\ Plus(One, first.rate).num > 0
  BY <1>1, RationalIn, ReturnPositive DEF Positives
<1> QED
  BY <1>1, <1>2, Repaid

LEMMA DrawdownIsExact == Picked => DrawdownWorst
<1> SUFFICES ASSUME Picked, InputOf("drawdown") PROVE DrawdownWorst
  BY DEF DrawdownWorst
<1> DEFINE returns == <<first.return>> \o second
           T == {first.return} \union Range(second)
<1>1. /\ Return(first.return) /\ second \in Seq(Range(second))
      /\ \A value \in Range(second) : Return(value)
  BY PickedInput, AlgorithmAssumption
<1>2. \A value \in T : Return(value)
  BY <1>1
<1>3. second \in Seq(T) /\ <<first.return>> \in Seq(T)
  <2>1. Range(second) \subseteq T /\ first.return \in T
    OBVIOUS
  <2> HIDE DEF T
  <2> QED
    BY <1>1, <2>1
<1>4. returns \in Seq(T)
  <2> HIDE DEF T
  <2> QED
    BY <1>3
<1> HIDE DEF returns, T
<1>5. IsReturns(returns)
  <2>1. Len(returns) \in Nat
    BY <1>4
  <2>2. \A k \in 1..Len(returns) : returns[k] \in T
    BY <1>4, ElementOfSeq
  <2> QED
    BY <1>2, <2>1, <2>2 DEF IsReturns
<1> QED
  BY <1>5, DrawdownIsWorst DEF DrawdownWorst, returns

LEMMA PickedSeries ==
  ASSUME Picked, InputOf("quantile")
  PROVE  IsReturns(second) /\ Len(second) = first.size /\ Len(second) # 0
<1>1. /\ first.size \in Nat \ {0} /\ second \in Seq(Range(second))
      /\ Len(second) = first.size
      /\ \A value \in Range(second) : Return(value)
  BY PickedInput, AlgorithmAssumption
<1>2. \A k \in 1..Len(second) : second[k] \in Range(second)
  BY <1>1, ElementOfSeq
<1> QED
  BY <1>1, <1>2 DEF IsReturns

LEMMA QuantileIsExact == Picked => QuantileTail
<1> SUFFICES ASSUME Picked, InputOf("quantile") PROVE QuantileTail
  BY DEF QuantileTail
<1>1. IsReturns(second) /\ Len(second) = first.size /\ Len(second) # 0
  BY PickedSeries
<1> QED
  BY <1>1, QuantileIsTail DEF QuantileTail

LEMMA TailLossIsExact == Picked => TailLossBounded
<1> SUFFICES ASSUME Picked, InputOf("quantile") PROVE TailLossBounded
  BY DEF TailLossBounded
<1>1. IsReturns(second) /\ Len(second) = first.size /\ Len(second) # 0
  BY PickedSeries
<1> QED
  BY <1>1, TailLossIsBounded DEF TailLossBounded

-----------------------------------------------------------------------------
(* Rounding.                                                               *)

\* What a division rounds down by is less than the divisor.
LEMMA RoundedDown ==
  ASSUME NEW a \in Int, NEW b \in Positive
  PROVE  /\ a \div b \in Int
         /\ (a \div b) * b <= a /\ a < (a \div b) * b + b
  BY DEF Positive

\* The cents of n/d are off by half a cent at most, in whatever terms n/d is.
OffByHalf(c, n, d) == -d <= 2 * (c * d) - 200 * n /\ 2 * (c * d) - 200 * n <= d

LEMMA RoundedHalf ==
  ASSUME NEW n \in Int, NEW d \in Positive
  PROVE  LET c == (d + 200 * n) \div (2 * d) IN c \in Int /\ OffByHalf(c, n, d)
<1> DEFINE c == (d + 200 * n) \div (2 * d)
<1>1. 2 * d \in Positive /\ d + 200 * n \in Int /\ d \in Int
  BY DEF Positive
<1>2. /\ c \in Int /\ c * (2 * d) <= d + 200 * n
      /\ d + 200 * n < c * (2 * d) + 2 * d
  BY <1>1, RoundedDown
<1> HIDE DEF c
<1>3. c * (2 * d) = 2 * (c * d) /\ c * d \in Int
  BY <1>1, <1>2
<1>4. OffByHalf(c, n, d)
  <2> DEFINE p == c * d
  <2>1. p \in Int /\ 2 * p <= d + 200 * n /\ d + 200 * n < 2 * p + 2 * d
    BY <1>2, <1>3
  <2> HIDE DEF p
  <2>2. -d <= 2 * p - 200 * n /\ 2 * p - 200 * n <= d
    BY <1>1, <2>1
  <2> QED
    BY <2>2 DEF OffByHalf, p
<1> QED
  BY <1>2, <1>4 DEF c

LEMMA CentsOff ==
  ASSUME NEW n \in Int, NEW d \in Positive
  PROVE  /\ Cents(Ratio(n, d)) \in Int
         /\ OffByHalf(Cents(Ratio(n, d)), n, d)
<1>1. PICK p \in Int, q \in Positive :
        Ratio(n, d) = [num |-> p, den |-> q] /\ p * d = n * q
  BY RatioParts
<1> DEFINE c == Cents(Ratio(n, d))
<1>2. c = IF p < 0 THEN -((q - 200 * p) \div (2 * q))
          ELSE (q + 200 * p) \div (2 * q)
  BY <1>1 DEF Cents
<1> HIDE DEF c
<1>3. c \in Int /\ OffByHalf(c, p, q)
  <2>1. CASE p >= 0
    BY <1>2, <2>1, RoundedHalf
  <2>2. CASE p < 0
    <3> DEFINE e == (q + 200 * (-p)) \div (2 * q)
    <3>1. -p \in Int /\ q - 200 * p = q + 200 * (-p)
      BY DEF Positive
    <3>2. c = -e
      BY <1>2, <2>2, <3>1
    <3>3. e \in Int /\ OffByHalf(e, -p, q)
      BY <3>1, RoundedHalf
    <3> HIDE DEF e
    <3>4. e * q \in Int /\ c * q = -(e * q) /\ q \in Int
      BY <3>2, <3>3 DEF Positive
    <3> DEFINE m == e * q
    <3>5. -q <= 2 * m - 200 * (-p) /\ 2 * m - 200 * (-p) <= q
      BY <3>3 DEF OffByHalf
    <3> HIDE DEF m
    <3>6. m \in Int /\ c * q = -m
      BY <3>4 DEF m
    <3>7. -q <= 2 * (-m) - 200 * p /\ 2 * (-m) - 200 * p <= q
      BY <3>4, <3>5, <3>6
    <3> QED
      BY <3>2, <3>3, <3>6, <3>7 DEF OffByHalf
  <2> QED
    BY <2>1, <2>2
<1> DEFINE t == 2 * (c * d) - 200 * n
<1>4. t * q = (2 * (c * q) - 200 * p) * d /\ t \in Int
  <2>1. c \in Int /\ d \in Int /\ q \in Int
    BY <1>3 DEF Positive
  <2>2. t * q = 2 * ((c * d) * q) - 200 * (n * q)
    BY <2>1
  <2>3. (2 * (c * q) - 200 * p) * d = 2 * ((c * d) * q) - 200 * (p * d)
    BY <2>1
  <2> QED
    BY <1>1, <2>1, <2>2, <2>3
<1> HIDE DEF t
<1> DEFINE s == 2 * (c * q) - 200 * p
<1>5. s \in Int /\ -q <= s /\ s <= q
  BY <1>3 DEF OffByHalf, Positive
<1> HIDE DEF s
<1>6. t * q = s * d
  BY <1>4 DEF s
<1>7. d \in Int /\ d > 0 /\ q \in Int /\ q > 0
  BY DEF Positive
<1>8. (-q) * d <= s * d /\ s * d <= q * d
  BY <1>5, <1>7
<1>9. t <= d
  <2>1. SUFFICES ASSUME t >= d + 1 PROVE FALSE
    BY <1>4, <1>7
  <2>2. t * q >= (d + 1) * q /\ (d + 1) * q = q * d + q /\ q * d \in Int
    BY <1>4, <1>7, <2>1
  <2>3. s * d \in Int
    BY <1>5, <1>7
  <2> QED
    BY <1>6, <1>7, <1>8, <2>2, <2>3
<1>10. -d <= t
  <2>1. SUFFICES ASSUME t <= -d - 1 PROVE FALSE
    BY <1>4, <1>7
  <2>2. /\ t * q <= (-d - 1) * q /\ (-d - 1) * q = -(q * d) - q
        /\ (-q) * d = -(q * d) /\ q * d \in Int
    BY <1>4, <1>7, <2>1
  <2>3. s * d \in Int
    BY <1>5, <1>7
  <2> QED
    BY <1>6, <1>7, <1>8, <2>2, <2>3
<1> QED
  BY <1>3, <1>9, <1>10 DEF OffByHalf, t, c

\* Numbers that add up do so in cents, give or take one.
LEMMA CentsAddUp ==
  ASSUME NEW a \in Rationals, NEW b \in Rationals
  PROVE  /\ Cents(a) \in Int /\ Cents(b) \in Int /\ Cents(Minus(a, b)) \in Int
         /\ Abs(Cents(a) - (Cents(b) + Cents(Minus(a, b)))) <= 1
<1>1. PICK n \in Int, d \in Positive : a = Ratio(n, d)
  BY AsRatio
<1>2. PICK m \in Int, e \in Positive : b = Ratio(m, e)
  BY AsRatio
<1> DEFINE D == d * e
           N == n * e
           M == m * d
           x == Cents(a)
           y == Cents(b)
           z == Cents(Minus(a, b))
<1>3. D \in Positive /\ N \in Int /\ M \in Int /\ d \in Int /\ e \in Int
  BY PositiveProduct
<1>4. a = Ratio(N, D) /\ b = Ratio(M, D) /\ Minus(a, b) = Ratio(N - M, D)
  <2>1. n * (d * e) = (n * e) * d /\ m * (d * e) = (m * d) * e
    BY <1>3
  <2>2. Minus(a, b) = Ratio(N - M, D)
    BY <1>1, <1>2, Operations
  <2> HIDE DEF N, M, D
  <2>3. Ratio(n, d) = Ratio(N, D) <=> n * D = N * d
    BY <1>3, SameRatio
  <2>4. Ratio(m, e) = Ratio(M, D) <=> m * D = M * e
    BY <1>3, SameRatio
  <2>5. n * D = N * d /\ m * D = M * e
    BY <2>1 DEF N, M, D
  <2> QED
    BY <1>1, <1>2, <2>2, <2>3, <2>4, <2>5
<1> HIDE DEF D, N, M
<1>5. /\ x \in Int /\ OffByHalf(x, N, D)
      /\ y \in Int /\ OffByHalf(y, M, D)
      /\ z \in Int /\ OffByHalf(z, N - M, D)
  BY <1>3, <1>4, CentsOff
<1> HIDE DEF x, y, z
<1> DEFINE p == x * D
           q == y * D
           r == z * D
<1>6. p \in Int /\ q \in Int /\ r \in Int /\ D \in Int /\ D > 0
  BY <1>3, <1>5 DEF Positive
<1>7. /\ -D <= 2 * p - 200 * N /\ 2 * p - 200 * N <= D
      /\ -D <= 2 * q - 200 * M /\ 2 * q - 200 * M <= D
      /\ -D <= 2 * r - 200 * (N - M) /\ 2 * r - 200 * (N - M) <= D
  BY <1>5 DEF OffByHalf
<1> DEFINE k == x - (y + z)
<1>8. k \in Int /\ k * D = p - q - r
  BY <1>3, <1>5, <1>6
<1> HIDE DEF p, q, r, k
<1>9. -(3 * D) <= 2 * (k * D) /\ 2 * (k * D) <= 3 * D
  BY <1>3, <1>6, <1>7, <1>8
<1>10. k <= 1 /\ -1 <= k
  <2>1. k >= 2 => k * D >= 2 * D
    BY <1>6, <1>8
  <2>2. k <= -2 => k * D <= (-2) * D
    BY <1>6, <1>8
  <2> QED
    BY <1>6, <1>8, <1>9, <2>1, <2>2
<1>11. Abs(k) <= 1
  BY <1>8, <1>10 DEF Abs
<1> QED
  BY <1>5, <1>11 DEF x, y, z, k

\* A number of times an amount in cents is off by half a cent for each time.
LEMMA CentsTimes ==
  ASSUME NEW a \in Rationals, NEW k \in Nat
  PROVE  /\ Cents(a) \in Int /\ Cents(Times(a, Whole(k))) \in Int
         /\ 2 * Abs(Cents(Times(a, Whole(k))) - k * Cents(a)) <= k + 1
<1>1. PICK n \in Int, d \in Positive : a = Ratio(n, d)
  BY AsRatio
<1>2. Times(a, Whole(k)) = Ratio(n * k, d) /\ n * k \in Int /\ k \in Int
  <2>1. 1 \in Positive /\ d * 1 = d /\ k \in Int
    BY DEF Positive
  <2>2. Times(Ratio(n, d), Ratio(k, 1)) = Ratio(n * k, d * 1)
    BY <2>1, Operations
  <2> QED
    BY <1>1, <2>1, <2>2 DEF Whole
<1> DEFINE x == Cents(a)
           y == Cents(Times(a, Whole(k)))
<1>3. /\ x \in Int /\ OffByHalf(x, n, d)
      /\ y \in Int /\ OffByHalf(y, n * k, d)
  BY <1>1, <1>2, CentsOff
<1> HIDE DEF x, y
<1> DEFINE p == x * d
           q == y * d
           u == 2 * p - 200 * n
           t == y - k * x
<1>4. p \in Int /\ q \in Int /\ d \in Int /\ d > 0 /\ t \in Int
  BY <1>2, <1>3 DEF Positive
<1>5. /\ u \in Int /\ -d <= u /\ u <= d
      /\ -d <= 2 * q - 200 * (n * k) /\ 2 * q - 200 * (n * k) <= d
  BY <1>3, <1>4 DEF OffByHalf
<1>6. u * k = 2 * (p * k) - 200 * (n * k) /\ t * d = q - p * k
  BY <1>2, <1>3, <1>4
<1> HIDE DEF p, q, u, t
<1>7. -(d * k) <= u * k /\ u * k <= d * k
  <2>1. (-d) * k <= u * k /\ u * k <= d * k
    BY <1>4, <1>5
  <2> QED
    BY <1>4, <2>1
<1>8. -(d * k) - d <= 2 * (t * d) /\ 2 * (t * d) <= d * k + d
  <2> DEFINE v == u * k
             w == p * k
             g == n * k
             h == d * k
             o == t * d
  <2>1. v \in Int /\ w \in Int /\ g \in Int /\ h \in Int /\ o \in Int
    BY <1>2, <1>4, <1>5
  <2>2. /\ v = 2 * w - 200 * g /\ o = q - w /\ -h <= v /\ v <= h
        /\ -d <= 2 * q - 200 * g /\ 2 * q - 200 * g <= d
    BY <1>5, <1>6, <1>7
  <2> HIDE DEF v, w, g, h, o
  <2>3. -h - d <= 2 * o /\ 2 * o <= h + d
    BY <1>4, <2>1, <2>2
  <2> QED
    BY <2>3 DEF h, o
<1>9. 2 * t <= k + 1
  <2>1. SUFFICES ASSUME 2 * t >= k + 2 PROVE FALSE
    BY <1>2, <1>4
  <2>2. (2 * t) * d >= (k + 2) * d
    BY <1>2, <1>4, <2>1
  <2> QED
    BY <1>2, <1>4, <1>8, <2>2
<1>10. 2 * (-t) <= k + 1
  <2>1. SUFFICES ASSUME 2 * t <= -k - 2 PROVE FALSE
    BY <1>2, <1>4
  <2>2. (2 * t) * d <= (-k - 2) * d
    BY <1>2, <1>4, <2>1
  <2> QED
    BY <1>2, <1>4, <1>8, <2>2
<1>11. 2 * Abs(t) <= k + 1
  BY <1>4, <1>9, <1>10 DEF Abs
<1> QED
  BY <1>3, <1>11 DEF x, y, t

LEMMA FiguresAreConsistent == Picked => FiguresConsistent
<1>1. ASSUME Picked, InputOf("growth")
      PROVE  LET result == CompoundGrowth(first.principal, first.rate,
                             second.periods, first.contribution, second.early)
             IN  Abs(result.future_value
                       - (result.total_contributed + result.interest_earned)) <= 1
  <2>1. /\ Rational(first.principal) /\ Rational(first.contribution)
        /\ Rational(first.rate)
        /\ second.periods \in Nat /\ second.early \in BOOLEAN
    BY <1>1, PickedInput, AlgorithmAssumption DEF Return
  <2>2. PICK p \in Rationals, c \in Rationals, rate \in Rationals,
             n \in Nat, early \in BOOLEAN :
          /\ p = first.principal /\ c = first.contribution
          /\ rate = first.rate /\ n = second.periods /\ early = second.early
    BY <2>1, RationalIn
  <2> DEFINE value == FutureValue(p, rate, n, c, early)
             contributed == Plus(p, Times(c, Whole(n)))
             result == CompoundGrowth(p, rate, n, c, early)
  <2>3. value \in Rationals /\ contributed \in Rationals
    BY GrowthStep, OnceMore, Closed
  <2>4. /\ result.future_value = Cents(value)
        /\ result.total_contributed = Cents(contributed)
        /\ result.interest_earned = Cents(Minus(value, contributed))
    BY DEF CompoundGrowth
  <2> HIDE DEF value, contributed, result
  <2>5. Abs(result.future_value
              - (result.total_contributed + result.interest_earned)) <= 1
    BY <2>3, <2>4, CentsAddUp
  <2> QED
    BY <2>2, <2>5 DEF result
<1>2. ASSUME Picked, InputOf("loan")
      PROVE  LET result == Loan(first.principal, first.rate, second)
             IN  /\ Abs(result.total_payment
                          - (result.principal + result.total_interest)) <= 1
                 /\ 2 * Abs(result.total_payment
                              - second * result.monthly_payment) <= second + 1
  <2>1. /\ Rational(first.principal) /\ Return(first.rate)
        /\ second \in Nat \ {0}
    BY <1>2, PickedInput, AlgorithmAssumption
  <2>2. PICK p \in Rationals, rate \in Rationals, n \in Nat \ {0} :
          /\ p = first.principal /\ rate = first.rate /\ n = second
          /\ Plus(One, rate).num > 0
    BY <2>1, RationalIn, ReturnPositive DEF Positives
  <2> DEFINE payment == Payment(p, rate, n)
             total == Times(payment, Whole(n))
             result == Loan(p, rate, n)
  <2>3. payment \in Rationals
    BY <2>2, PaymentIs
  <2>4. total \in Rationals
    BY <2>3, OnceMore, Closed
  <2>5. /\ result.principal = Cents(p)
        /\ result.monthly_payment = Cents(payment)
        /\ result.total_payment = Cents(total)
        /\ result.total_interest = Cents(Minus(total, p))
    BY DEF Loan
  <2> HIDE DEF payment, result
  <2>6. 2 * Abs(Cents(total) - n * Cents(payment)) <= n + 1
    BY <2>3, CentsTimes
  <2> HIDE DEF total
  <2>7. Abs(Cents(total) - (Cents(p) + Cents(Minus(total, p)))) <= 1
    BY <2>4, CentsAddUp
  <2> QED
    BY <2>2, <2>5, <2>6, <2>7 DEF result
<1> QED
  BY <1>1, <1>2 DEF FiguresConsistent

\* Rounded each on its own, the figures of a result of any size are off by no more
\* than rounding each of them explains.
THEOREM FiguresStayConsistent == Spec => []FiguresConsistent
  BY FiguresAreConsistent, PickedAlways, PTL

\* For any numbers, rates, numbers of periods and series of returns: the closed
\* form of compound growth is the balance of its periods, the payments of a loan
\* repay it, no loss between two points in time is worse than the maximal
\* drawdown, the loss quantile cuts off one return in twenty, the mean loss of
\* the returns it cuts off lies between it and the largest loss, and the rounded
\* figures are consistent.
THEOREM CalculatorsAreExact == Spec => []CalculatorsExact
<1>1. Picked => CalculatorsExact
  BY GrowthIsExact, LoanIsRepaid, DrawdownIsExact, QuantileIsExact,
     TailLossIsExact, FiguresAreConsistent
  DEF CalculatorsExact
<1> QED
  BY <1>1, PickedAlways, PTL
==============================================================================
