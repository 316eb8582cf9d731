------------------------------ MODULE MCAnalysis ------------------------------
(***************************************************************************)
(* A small instance of Analysis: a filing and a news item, two claims that *)
(* contradict each other and one on another predicate that rests on the    *)
(* news; e2 is the identifier of an inline item too, e3 of nothing else.   *)
(***************************************************************************)
EXTENDS MCLedger, Analysis

CONSTANT e3

Growing == <<"company", "growth">>

AnalysisKeys == {Revenue, Growing}

\* Content 1 is an official filing, content 2 a news item with earlier data.
FilingOfYear == Filing(e1, 1, 80)

NewsItem == Filing(e2, 2, 20)

Confident(figure, confidence) == [figure EXCEPT !.confidence = confidence]

Reported == Confident(Figure(claimA, 100, {e1}, NoClaim), 80)

Growth ==
  [Confident(Figure(claimC, 300, {e2}, NoClaim), 20) EXCEPT !.key = Growing]

AnalysisStatements ==
  {Statement(FilingOfYear, <<Reported>>), Statement(NewsItem, <<Growth>>)}

AnalysisDocuments == {FilingOfYear, NewsItem}

AnalysisClaims == {Confident(Figure(claimB, 200, {e1}, NoClaim), 60)}

MCDataTime == <<1, 0>>

MCVerifiedContents == {1}

-----------------------------------------------------------------------------
(* Requests.                                                               *)

NoHits == <<0, 0, 0, 0, 0>>

\* An inline item that claims to be from a reviewed source.
Inline(id, observed, dated) ==
  [id |-> id, observed |-> observed, dated |-> dated, trust |-> 90,
   verified |-> TRUE]

Request(mode, hits, inline, context) ==
  [mode |-> mode, hits |-> hits, asOf |-> Unset, inline |-> inline,
   claims |-> FALSE, secret |-> FALSE, context |-> context]

Context(queries, business, knowledge, max) ==
  [queries |-> queries, business |-> business, knowledge |-> knowledge,
   max |-> max]

ByPredicate == <<{Revenue}, {Growing}>>

\* A question about the first instant, which is past or present when it is asked;
\* market questions about the ledger as it is and without a context; and requests
\* that are refused.
MCRequests ==
  {Request("personal_cfo", NoHits, <<Inline(e3, 1, 0), Inline(e3, 0, 0)>>,
           Context(ByPredicate, 0, 0, 2)),
   Request("auto", <<0, 1, 0, 1, 0>>, <<Inline(e2, 0, 0)>>,
           Context(<<AnalysisKeys>>, Unset, Unset, 1)),
   [Request("trading_research", NoHits, <<Inline(e2, 0, 1)>>, NoContext)
      EXCEPT !.asOf = 1],
   Request("auto", NoHits, <<Inline(e2, 0, 0), Inline(e2, 0, 1)>>, NoContext),
   [Request("auto", NoHits, <<>>, NoContext) EXCEPT !.secret = TRUE],
   [Request("auto", NoHits, <<>>, NoContext) EXCEPT !.claims = TRUE]}

-----------------------------------------------------------------------------
(* Answers.                                                                *)

Cite(claims, evidence, confidence) ==
  [claims |-> claims, evidence |-> evidence, confidence |-> confidence,
   calculations |-> "none", promises |-> FALSE, risks |-> TRUE,
   limitations |-> TRUE, actions |-> {}]

Plain(claims, evidence) == Cite(claims, evidence, 90)

Order(effect, approval, key, notional) ==
  [transactional |-> TRUE, effect |-> effect, approval |-> approval,
   key |-> key, notional |-> notional]

MCAnswers ==
  {[Plain({claimA}, {}) EXCEPT
      !.actions = {Order("execute", TRUE, TRUE, 5)}],
   [Plain({claimC}, {e2}) EXCEPT
      !.actions = {Order("write", TRUE, TRUE, Unset)},
      !.confidence = 50, !.risks = FALSE, !.limitations = FALSE],
   Plain({}, {e2})}
=============================================================================
