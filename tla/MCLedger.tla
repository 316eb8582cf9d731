------------------------------- MODULE MCLedger -------------------------------
(***************************************************************************)
(* A small instance of ClaimsLedger.  All claims speak of one subject and   *)
(* predicate and of the same effective time, so that they are compared.    *)
(***************************************************************************)
EXTENDS LedgerExpectations

CONSTANTS e1, e2, claimA, claimB, claimC

Revenue == <<"company", "revenue">>

MCKeys == {Revenue}

MCUnits == {<<"THB", "currency">>}

Filing(id, content, trust) ==
  [id |-> id, content |-> content, observed |-> 0, ingested |-> 0,
   trust |-> trust]

\* A decimal claim of the given value, in cents.
Figure(id, value, evidence, supersedes) ==
  [id |-> id, key |-> Revenue, period |-> NoPeriod, effective |-> 0,
   expires |-> 9, kind |-> "decimal", unit |-> <<"THB", "currency">>,
   value |-> value, detail |-> "plain", evidence |-> evidence,
   confidence |-> 1, supersedes |-> supersedes, asserted |-> 0, status |-> "active"]

\* A statement is a document and the claims it parses to.
Statement(document, claims) == [document |-> document, claims |-> claims]

-----------------------------------------------------------------------------
(* Conflicts: three figures that contradict each other, one of them also as *)
(* a restatement of the first, over one filing.                            *)

OneFiling == Filing(e1, 1, 1)

OneDocument == {OneFiling}

BareFiling == {Statement(OneFiling, <<>>)}

Rivalry ==
  {Figure(claimA, 100, {e1}, NoClaim), Figure(claimB, 200, {e1}, NoClaim),
   Figure(claimC, 300, {e1}, NoClaim), Figure(claimC, 300, {e1}, claimA)}

\* The first of them may be retracted.
Retractions == {<<claimA, "retracted">>}
=============================================================================
