--------------------------- MODULE StatementParser ---------------------------
(***************************************************************************)
(* FinancialStatementParser of cherryfin/intelligence/statements.py: the   *)
(* claims and the issues a structured statement table yields.              *)
(*                                                                         *)
(* A table has a subject, a type, a currency, a scale and rows; a row has  *)
(* a label, a unit and cells; a cell has a start, an end and a raw value.  *)
(* A raw value is Missing (null or a token such as n/a), Garbled, or a     *)
(* figure: its amount as printed, whether it stands in parentheses or has  *)
(* a percent sign, and its spelling, by which two figures of one value may *)
(* differ.  Amounts are integers in the least unit the printing resolves,  *)
(* so that the scaling is exact; the precision of 28 digits at which the   *)
(* Decimal arithmetic of the code rounds is out of the model.              *)
(***************************************************************************)
EXTENDS Integers, Sequences

CONSTANTS
  Catalog,    \* what the labels resolve to: predicate, unit and scaled
  Unstated,   \* a null currency, unit or period_start
  Never,      \* the expiry of a claim that has none
  NoClaim     \* a null claim_id

Missing == [form |-> "missing"]

Garbled == [form |-> "garbled"]

\* StatementTable: its rows, their cells and what is read in a cell.
IsTable(table) ==
  /\ Len(table.rows) \in Nat
  /\ \A k \in 1..Len(table.rows) :
       /\ Len(table.rows[k].cells) \in Nat
       /\ \A j \in 1..Len(table.rows[k].cells) :
            table.rows[k].cells[j].raw.form \in {"missing", "garbled", "figure"}

\* UnitScale.multiplier
Multiplier ==
  [ones |-> 1, thousands |-> 1000, millions |-> 1000000,
   billions |-> 1000000000]

\* parse_financial_number, for a figure: parentheses negate.
Printed(raw) == IF raw.bracketed THEN -raw.amount ELSE raw.amount

\* Fault: the scale is applied to every figure.
ScaleAll(table, metric, raw) == Printed(raw) * Multiplier[table.scale]

\* The value of the claim: percentages and per-share metrics keep theirs.
ValueOf(table, metric, raw) ==
  IF metric.scaled /\ ~raw.percent
  THEN Printed(raw) * Multiplier[table.scale]
  ELSE Printed(raw)

UnitOf(row, metric, raw) ==
  IF raw.percent THEN "percent"
  ELSE IF row.unit # Unstated THEN row.unit ELSE metric.unit

CurrencyOf(table, unit) ==
  IF unit \in {"currency", "currency_per_share"} THEN table.currency
  ELSE Unstated

\* _claim_id: neither the start of the period nor the label is part of it.
ParsedId(subject, metric, cell, value, evidence) ==
  <<subject, metric.predicate, cell.end, value, evidence.id>>

\* Fault: what stands in a filing is near certain.
NearCertain(evidence) == 99

\* min(trust_score, 0.99), in hundredths.
ConfidenceIn(evidence) == IF evidence.trust < 99 THEN evidence.trust ELSE 99

\* The claim made of a figure.
ParsedClaim(table, evidence, row, cell) ==
  LET metric == Catalog[row.label]
      value == ValueOf(table, metric, cell.raw)
      unit == UnitOf(row, metric, cell.raw)
  IN  [id |-> ParsedId(table.subject, metric, cell, value, evidence),
       key |-> <<table.subject, metric.predicate>>,
       period |-> <<cell.start, cell.end>>, effective |-> cell.end,
       expires |-> Never, kind |-> "decimal",
       unit |-> <<CurrencyOf(table, unit), unit>>, value |-> value,
       detail |-> [statement |-> table.type, label |-> row.label,
                   scale |-> table.scale, spelling |-> cell.raw.spelling],
       evidence |-> {evidence.id},
       confidence |-> ConfidenceIn(evidence), supersedes |-> NoClaim,
       asserted |-> evidence.observed,
       status |-> "active"]

Issue(code, row) == [code |-> code, label |-> row.label]

CellOutcome(table, evidence, row, cell) ==
  CASE cell.raw.form = "missing" -> Issue("empty_value", row)
    [] cell.raw.form = "garbled" -> Issue("invalid_number", row)
    [] cell.raw.form = "figure" -> ParsedClaim(table, evidence, row, cell)

RowOutcomes(table, evidence, row) ==
  IF row.label \notin DOMAIN Catalog THEN <<Issue("unknown_label", row)>>
  ELSE [k \in 1..Len(row.cells) |->
          CellOutcome(table, evidence, row, row.cells[k])]

\* What the rows yield, one after the other.
Outcomes(table, evidence) ==
  LET yielded[k \in 0..Len(table.rows)] ==
        IF k = 0 THEN <<>>
        ELSE yielded[k - 1] \o RowOutcomes(table, evidence, table.rows[k])
  IN  yielded[Len(table.rows)]

\* The outcomes as they are appended to the claims and to the issues.
Sorted(outcomes) ==
  LET sorted[k \in 0..Len(outcomes)] ==
        IF k = 0 THEN [claims |-> <<>>, issues |-> <<>>]
        ELSE IF "code" \in DOMAIN outcomes[k]
        THEN [sorted[k - 1] EXCEPT !.issues = Append(@, outcomes[k])]
        ELSE [sorted[k - 1] EXCEPT !.claims = Append(@, outcomes[k])]
  IN  sorted[Len(outcomes)]

\* parse
Parse(table, evidence) == Sorted(Outcomes(table, evidence))
=============================================================================
