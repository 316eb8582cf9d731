--------------------------- MODULE AlgorithmCheck ---------------------------
(***************************************************************************)
(* The pure algorithms against what they promise.  A state is an input of  *)
(* one of them: TLC picks its first part, then its second, and so goes     *)
(* through all the combinations of small sets of parts.                    *)
(***************************************************************************)
EXTENDS ContradictionDetector, AuditTrail, Calculators, SequencesExt

CONSTANTS
  Catalog, Unstated, Never,   \* of the statement parser
  Amounts,     \* the values of the claims that are compared
  Open,        \* the second part is still to be picked
  Inputs,      \* first parts, as records with the name of the algorithm
  Seconds(_)   \* the second parts that go with a first part

INSTANCE StatementParser

INSTANCE Connectors

VARIABLES first, second

vars == <<first, second>>

Init ==
  /\ first \in Inputs
  /\ second = Open

Pick ==
  /\ second = Open
  /\ second' \in Seconds(first)
  /\ UNCHANGED first

Next == Pick

Spec == Init /\ [][Next]_vars

InputOf(algorithm) == second # Open /\ first.algorithm = algorithm

-----------------------------------------------------------------------------
(* The detector: a candidate, and an existing claim to compare it with.    *)

Answer(left, right) == Detect(left, left.status, right, right.status)

\* Whether two claims contradict each other, and how severely, does not
\* depend on which of them arrived first: the ledger compares a new claim
\* with a stored one and never the other way round.
OrderOfArrivalIrrelevant ==
  InputOf("detect") =>
    Answer(first.claim, second) = Answer(second, first.claim)

Rank(severity) ==
  CASE severity = Agreement -> 0
    [] severity = "warning" -> 1
    [] severity = "material" -> 2

\* A larger disagreement is never reported as a milder one: if the existing
\* decimal amount moves away from the candidate's, on the same side of it, the
\* severity does not drop, although the baseline of the relative tolerance
\* moves along.  The amounts may have opposite signs.
SeverityMonotone ==
  InputOf("detect") /\ second.kind = "decimal" =>
    \A further \in Amounts :
      \/ ~( \/ first.claim.value <= second.value /\ second.value <= further
            \/ first.claim.value >= second.value /\ second.value >= further )
      \/ Rank(Answer(first.claim, second))
           <= Rank(Answer(first.claim, [second EXCEPT !.value = further]))

-----------------------------------------------------------------------------
(* The statement parser: a figure, its label and an amount in ones, and the *)
(* scales of the two tables it is printed in.                              *)

\* How a figure is printed: monetary amounts in the scale of the table, an
\* amount per share or a percentage as it is.
PrintedAmount(figure, scale) ==
  IF figure.percent \/ Catalog[figure.label].unit = "currency_per_share"
  THEN figure.amount
  ELSE figure.amount \div Multiplier[scale]

\* The claim parsed from the printing of a figure in a filing.
ClaimFrom(figure, filing, scale) ==
  LET raw == [form |-> "figure", amount |-> PrintedAmount(figure, scale),
              bracketed |-> figure.bracketed, percent |-> figure.percent,
              spelling |-> "plain"]
      row == [label |-> figure.label, unit |-> Unstated,
              cells |-> <<[start |-> Unstated, end |-> 1, raw |-> raw]>>]
      table == [subject |-> "company", type |-> "income", currency |-> "THB",
                scale |-> scale, rows |-> <<row>>]
  IN  Parse(table, [id |-> filing, observed |-> 0, trust |-> 95]).claims[1]

\* The figure with the other sign.
Opposite(figure) == [figure EXCEPT !.bracketed = ~@]

\* One figure printed in two filings in different scales does not contradict
\* itself, and a figure in parentheses contradicts the same figure without:
\* the scale reaches the monetary amounts and nothing else, and the sign is
\* kept.
ScaleInvariant ==
  InputOf("parse") =>
    LET left == ClaimFrom(first, "original", second.left)
        right == ClaimFrom(first, "amended", second.right)
        opposite == ClaimFrom(Opposite(first), "amended", second.right)
    IN  /\ Detect(left, "active", right, "active") = Agreement
        /\ Detect(left, "active", opposite, "active") # Agreement

-----------------------------------------------------------------------------
(* The audit chain: the events of a history, and what is found in their    *)
(* place.                                                                  *)

\* The rows of the first k events, one appended after the other.
Chain(events) ==
  LET rows[k \in 0..Len(events)] ==
        IF k = 0 THEN <<>>
        ELSE AppendAuditEvent(rows[k - 1], events[k].body, events[k].payload)
  IN  rows[Len(events)]

\* Rows of the chain, some with a field of another row.
Damaged(rows) ==
  Range(rows) \union
  UNION {{[row EXCEPT !.body = other.body],
          [row EXCEPT !.payload = other.payload],
          [row EXCEPT !.payloadHash = other.payloadHash],
          [row EXCEPT !.previous = other.previous],
          [row EXCEPT !.hash = other.hash]} :
           row, other \in Range(rows)}

\* "The local chain detects accidental or unsophisticated tampering"
\* (docs/SECURITY_TENANCY.md:91): whatever rows are changed, lost, repeated or
\* exchanged, unless all hashes are computed anew, the chain no longer
\* verifies, with one exception: the loss of the last events goes unnoticed.
DamageDetected ==
  InputOf("verify") =>
    (ChainValid(second) <=> IsPrefix(second, Chain(first.events)))

-----------------------------------------------------------------------------
(* The retrieval of a filing: the fetcher, and a response.                 *)

\* The bytes of the first k chunks.
BodySize(chunks) ==
  LET size[k \in 0..Len(chunks)] ==
        IF k = 0 THEN 0 ELSE size[k - 1] + chunks[k]
  IN  size[Len(chunks)]

\* What is fetched is the whole body of a successful response within the byte
\* limit: a body that exceeds it in its last chunk, or that is seen to break off,
\* leaves nothing, and one that just meets the limit is not turned down.  (What
\* arrives of a body that breaks off unnoticed is taken for the whole of it.)
FetchWholeOrNothing ==
  InputOf("fetch") =>
    LET size == BodySize(second.chunks)
        usable == /\ second.success /\ second.supported
                  /\ ~second.redirect /\ ~(second.broken /\ second.noticed)
                  /\ size <= first.max
    IN  Fetch(first.uri, second, first) =
          IF usable THEN [fetched |-> TRUE, bytes |-> size] ELSE NotFetched

-----------------------------------------------------------------------------
(* The inputs.                                                             *)

Fields == {"id", "key", "period", "effective", "kind", "unit", "value",
           "supersedes", "status"}

\* The claims that are compared.
Compared == {input.claim : input \in {i \in Inputs : i.algorithm = "detect"}}

\* A rate or a return: a rational number above -100%.
Return(value) == Rational(value) /\ value.num + value.den > 0

\* Claims have integer amounts; a figure is of a metric of the catalog, which
\* scales all but the amounts per share, is a whole number in every scale it is
\* printed in, and is more than half the absolute tolerance; the rows of a
\* damaged chain are made of those of the chain; responses answer the request
\* for a URI that is allowed; the inputs of the calculators are those they accept.
ASSUME AlgorithmAssumption ==
  /\ \A c \in Compared : DOMAIN c = Fields /\ c.value \in Int
  /\ Amounts \subseteq Int
  /\ \A i \in Inputs :
       /\ i.algorithm = "detect" => Seconds(i) \subseteq Compared
       /\ i.algorithm = "parse" =>
            /\ i \in [algorithm : {"parse"}, label : DOMAIN Catalog,
                      amount : Int, bracketed : BOOLEAN, percent : BOOLEAN]
            /\ Catalog[i.label].scaled \in BOOLEAN
            /\ Catalog[i.label].scaled
                 <=> Catalog[i.label].unit # "currency_per_share"
            /\ 2 * Abs(i.amount) > AbsoluteTolerance
            /\ \A s \in Seconds(i) : \A scale \in {s.left, s.right} :
                 /\ scale \in DOMAIN Multiplier
                 /\ i.amount % Multiplier[scale] = 0
       /\ i.algorithm = "verify" =>
            /\ i.events \in Seq(Range(i.events))
            /\ Seconds(i) \subseteq Seq(Damaged(Chain(i.events)))
            /\ \A row \in Range(Chain(i.events)) : row.hash # NoHash
       /\ i.algorithm = "fetch" =>
            /\ i.max \in Nat
            /\ ValidUri(i.uri, i)
            /\ \A r \in Seconds(i) :
                 /\ r.chunks \in Seq(Nat)
                 /\ {r.success, r.supported, r.redirect, r.broken, r.noticed}
                      \subseteq BOOLEAN
       /\ i.algorithm = "growth" =>
            /\ Rational(i.principal) /\ Rational(i.contribution)
            /\ Return(i.rate)
            /\ \A s \in Seconds(i) : s.periods \in Nat /\ s.early \in BOOLEAN
       /\ i.algorithm = "loan" =>
            /\ Rational(i.principal) /\ Return(i.rate) /\ i.rate.num >= 0
            /\ Seconds(i) \subseteq Nat \ {0}
       /\ i.algorithm = "drawdown" =>
            /\ Return(i.return)
            /\ \A s \in Seconds(i) : /\ s \in Seq(Range(s))
                                     /\ \A value \in Range(s) : Return(value)
       /\ i.algorithm = "quantile" =>
            /\ i.size \in Nat \ {0}
            /\ \A s \in Seconds(i) :
                 s \in Seq(Range(s)) /\ Len(s) = i.size
                 /\ \A value \in Range(s) : Return(value)

-----------------------------------------------------------------------------
(* The calculators, against the definitions of what they calculate.        *)

\* The balance after the periods, one after the other.
Accumulated(principal, rate, periods, contribution, atBeginning) ==
  LET balance[k \in 0..periods] ==
        IF k = 0 THEN principal
        ELSE IF atBeginning
        THEN Times(Plus(balance[k - 1], contribution), Plus(One, rate))
        ELSE Plus(Times(balance[k - 1], Plus(One, rate)), contribution)
  IN  balance[periods]

\* The closed form of compound growth is the balance that accumulates period
\* by period, with contributions at the beginning or at the end, and with
\* negative rates and without periods.
GrowthExact ==
  InputOf("growth") =>
    FutureValue(first.principal, first.rate, second.periods,
                first.contribution, second.early)
      = Accumulated(first.principal, first.rate, second.periods,
                    first.contribution, second.early)

\* What is left of a loan after the months, with a payment at the end of each.
Outstanding(principal, rate, months, payment) ==
  LET balance[k \in 0..months] ==
        IF k = 0 THEN principal
        ELSE Minus(Times(balance[k - 1], Plus(One, rate)), payment)
  IN  balance[months]

\* Paying the monthly payment of a loan every month leaves nothing to pay.
LoanRepaid ==
  InputOf("loan") =>
    Outstanding(first.principal, first.rate, second,
                Payment(first.principal, first.rate, second)) = Zero

\* The wealth after each number of returns.
Wealth(returns) ==
  LET wealth[k \in 0..Len(returns)] ==
        IF k = 0 THEN One
        ELSE Times(wealth[k - 1], Plus(One, returns[k]))
  IN  wealth

\* The maximal drawdown is the worst loss between any two points in time, the
\* beginning included.
DrawdownWorst ==
  InputOf("drawdown") =>
    LET returns == <<first.return>> \o second
        wealth == Wealth(returns)
        Loss(from, to) == Minus(Over(wealth[to], wealth[from]), One)
        losses == {Loss(p[1], p[2]) :
                     p \in {q \in (0..Len(returns)) \X (0..Len(returns)) :
                              q[1] <= q[2]}}
    IN  /\ MaxDrawdown(returns) \in losses
        /\ \A loss \in losses : ~IsLess(loss, MaxDrawdown(returns))

\* Fewer than one return in twenty is worse than the loss quantile, and at
\* least one in twenty is as bad, unless it is zero.
QuantileTail ==
  InputOf("quantile") =>
    LET quantile == Minus(Zero, LossQuantile(second))
        worse == {k \in 1..first.size : IsLess(second[k], quantile)}
        asBad == {k \in 1..first.size : ~IsLess(quantile, second[k])}
    IN  /\ 20 * Cardinality(worse) < first.size
        /\ quantile = Zero \/ 20 * Cardinality(asBad) >= first.size

\* The mean loss of the tail is no less than the quantile, at which the tail
\* ends, and no more than the largest loss.
TailLossBounded ==
  InputOf("quantile") =>
    /\ ~IsLess(TailLoss(second), LossQuantile(second))
    /\ \E k \in 1..first.size :
         ~IsLess(Greater(Zero, Minus(Zero, second[k])), TailLoss(second))

\* Every figure of a result is rounded to cents of its own, so figures that add up
\* need not do so any more: they are off by a cent at most, and the total of a
\* loan is off its payments by at most half a cent for each, and half a cent.
FiguresConsistent ==
  /\ InputOf("growth") =>
       LET result == CompoundGrowth(first.principal, first.rate, second.periods,
                                    first.contribution, second.early)
       IN  Abs(result.future_value
                 - (result.total_contributed + result.interest_earned)) <= 1
  /\ InputOf("loan") =>
       LET result == Loan(first.principal, first.rate, second)
       IN  /\ Abs(result.total_payment
                    - (result.principal + result.total_interest)) <= 1
           /\ 2 * Abs(result.total_payment - second * result.monthly_payment)
                <= second + 1

\* The calculators compute what they say, and their rounded figures agree.
CalculatorsExact ==
  /\ GrowthExact
  /\ LoanRepaid
  /\ DrawdownWorst
  /\ QuantileTail
  /\ TailLossBounded
  /\ FiguresConsistent
=============================================================================
