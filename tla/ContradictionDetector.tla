------------------------ MODULE ContradictionDetector ------------------------
(***************************************************************************)
(* ContradictionDetector of cherryfin/intelligence/claims.py: a pure       *)
(* comparison of two claims.  It decides whether they disagree about the   *)
(* same reporting context, and how badly.                                  *)
(*                                                                         *)
(* A claim is a record with (at least) the fields                          *)
(*   id          claim_id                                                  *)
(*   key         the pair subject_id, predicate                            *)
(*   period      the pair period_start, period_end, or NoPeriod            *)
(*   effective   effective_at, an integer time                             *)
(*   kind        value.kind: "decimal", "text", "boolean" ...              *)
(*   unit        the pair currency, unit                                   *)
(*   value       the amount in units of the least tolerance step (cents    *)
(*               for the default of 0.01), or for another kind a number    *)
(*               standing for the canonical form of the value              *)
(*   supersedes  supersedes_claim_id, or NoClaim                           *)
(* and its status, which changes while the rest does not, is passed beside *)
(* it.  The relative tolerances are in thousandths, so that the Decimal    *)
(* arithmetic of the code is exact integer arithmetic here.                *)
(***************************************************************************)
EXTENDS Integers

CONSTANTS
  AbsoluteTolerance,     \* absolute_tolerance, in the unit of value
  RelativeTolerance,     \* relative_tolerance, in thousandths
  MaterialRelativeDelta, \* material_relative_delta, in thousandths
  NoPeriod,              \* period_start and period_end are both null
  NoClaim                \* a null claim_id

ASSUME DetectorAssumption ==
  /\ AbsoluteTolerance \in Nat
  /\ RelativeTolerance \in Nat
  /\ MaterialRelativeDelta \in Nat

Severities == {"warning", "material"}

\* What Detect answers when the code returns None.
Agreement == "agreement"

Abs(n) == IF n < 0 THEN -n ELSE n

Larger(m, n) == IF m < n THEN n ELSE m

\* _same_reporting_context: a period on either side must match exactly;
\* without any period the effective time is the context.
SameReportingContext(left, right) ==
  IF left.period # NoPeriod \/ right.period # NoPeriod
  THEN left.period = right.period
  ELSE left.effective = right.effective

\* The early returns of detect: the pairs it looks at at all.
Comparable(candidate, candidateStatus, existing, existingStatus) ==
  /\ candidate.id # existing.id
  /\ candidate.key = existing.key
  /\ SameReportingContext(candidate, existing)
  /\ candidateStatus # "retracted"
  /\ existingStatus # "retracted"
  /\ candidate.supersedes # existing.id
  /\ existing.supersedes # candidate.id

\* Fault: amounts of opposite signs cancel.
UnsignedDelta(left, right) == Abs(Abs(left) - Abs(right))

Delta(left, right) == Abs(left - right)

\* Fault: the tolerance is taken relative to the candidate alone.
CandidateBaseline(left, right) == Abs(left)

Baseline(left, right) == Larger(Abs(left), Abs(right))

\* delta <= max(absolute_tolerance, baseline * relative_tolerance)
WithinTolerance(left, right) ==
  \/ Delta(left, right) <= AbsoluteTolerance
  \/ Delta(left, right) * 1000 <= Baseline(left, right) * RelativeTolerance

\* delta / baseline >= material_relative_delta.  The code's guard against a
\* zero baseline is never needed: a zero baseline is within any tolerance.
IsMaterial(left, right) ==
  Delta(left, right) * 1000 >= Baseline(left, right) * MaterialRelativeDelta

DecimalSeverity(left, right) ==
  IF WithinTolerance(left, right) THEN Agreement
  ELSE IF IsMaterial(left, right) THEN "material" ELSE "warning"

\* detect: Agreement, or the severity of the contradiction record.
Detect(candidate, candidateStatus, existing, existingStatus) ==
  IF ~Comparable(candidate, candidateStatus, existing, existingStatus)
    THEN Agreement
  ELSE IF candidate.kind # existing.kind THEN "material"
  ELSE IF candidate.unit # existing.unit THEN "warning"
  ELSE IF candidate.kind = "decimal"
    THEN DecimalSeverity(candidate.value, existing.value)
  ELSE IF candidate.value = existing.value THEN Agreement ELSE "warning"

\* Fault: the disagreement is dated from the earlier claim.
EarlierAssertion(candidate, existing) ==
  IF candidate.asserted < existing.asserted
  THEN candidate.asserted ELSE existing.asserted

\* detected_at of the record.
DetectedAt(candidate, existing) ==
  Larger(candidate.asserted, existing.asserted)
=============================================================================
