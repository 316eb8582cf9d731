---------------------------- MODULE MCAlgorithms ----------------------------
(***************************************************************************)
(* The inputs of AlgorithmCheck.  The amounts of the detector straddle its *)
(* default tolerances (0.01, 0.1 % and 5 %), with both signs.              *)
(***************************************************************************)
EXTENDS AlgorithmCheck

-----------------------------------------------------------------------------
(* detect: claims with their statuses.  A claim never names itself as the  *)
(* one it supersedes: the ledger looks the target up before it stores it.  *)

MCAmounts == {-1000, -10, -1, 0, 1, 2, 950, 951, 999, 1000, 2000}

Claims ==
  {c \in [id : {"a", "b"}, key : {"revenue"}, period : {"year", NoPeriod},
          effective : {1, 2}, kind : {"decimal", "text"},
          unit : {"THB", "USD"},
          value : MCAmounts,
          supersedes : {"a", "b", NoClaim}, status : {"active", "retracted"}] :
     c.supersedes # c.id}

-----------------------------------------------------------------------------
(* parse: an amount of a scaled and of an unscaled metric.                 *)

MCCatalog ==
  [label \in {"revenue", "eps"} |->
     IF label = "eps"
     THEN [predicate |-> "eps", unit |-> "currency_per_share", scaled |-> FALSE]
     ELSE [predicate |-> "revenue", unit |-> "currency", scaled |-> TRUE]]

FigureInputs ==
  [algorithm : {"parse"}, label : DOMAIN MCCatalog, amount : {1000, -1000},
   bracketed : BOOLEAN, percent : BOOLEAN]

Scales == {"ones", "thousands"}

-----------------------------------------------------------------------------
(* verify: three events, two of which look alike, and up to four rows.     *)

Event(body, payload) == [body |-> body, payload |-> payload]

Histories ==
  {<<>>, <<Event(1, 1), Event(1, 1), Event(2, 3)>>}

-----------------------------------------------------------------------------
(* fetch: bodies of up to three chunks.                                    *)

Site == <<"filings", "sec">>

Uri(host) ==
  [https |-> TRUE, credentials |-> FALSE, port |-> Unstated, host |-> host]

FetchInputs ==
  {[algorithm |-> "fetch", uri |-> Uri(host), max |-> max, hosts |-> {Site},
    subdomains |-> TRUE] :
     host \in {Site, <<"www">> \o Site}, max \in 1..3}

Responses ==
  [redirect : BOOLEAN, success : BOOLEAN, supported : BOOLEAN,
   broken : BOOLEAN, noticed : BOOLEAN, chunks : BoundedSeq(0..2, 3)]

-----------------------------------------------------------------------------
(* The calculators: rates and returns in tenths, and rates and amounts     *)
(* that are no whole number of cents.                                      *)

Tenths(set) == {Ratio(n, 10) : n \in set}

\* Returns of some size with up to three losses somewhere among them.
LongSeries(size) ==
  {[k \in 1..size |-> Ratio(IF k \in early THEN worst ELSE IF k = size THEN -2
                            ELSE usual, 10)] :
     early \in {{}, {1}, {1, 2}}, worst \in {-3, -2}, usual \in {-1, 1}}

MCInputs ==
  [algorithm : {"detect"}, claim : Claims]
  \union FigureInputs
  \union [algorithm : {"verify"}, events : Histories]
  \union FetchInputs
  \union [algorithm : {"growth"},
          rate : Tenths({-5, -1, 0, 1, 5, 10}) \union {Ratio(1, 7), Ratio(-1, 6)},
          principal : {Whole(100), Ratio(9, 8)},
          contribution : {Whole(10), Ratio(3, 8)}]
  \union [algorithm : {"loan"}, rate : Tenths({0, 1, 2, 5, 10}),
          principal : {Whole(100)}]
  \union [algorithm : {"loan"}, rate : Tenths({0, 5, 10}),
          principal : {Ratio(1, 8)}]
  \union [algorithm : {"drawdown"}, return : Tenths({-5, -1, 0, 1, 10})]
  \union [algorithm : {"quantile"}, size : {2, 19, 20, 21, 40, 41}]

MCSeconds(input) ==
  CASE input.algorithm = "detect" -> Claims
    [] input.algorithm = "parse" -> [left : Scales, right : Scales]
    [] input.algorithm = "verify" ->
         BoundedSeq(Damaged(Chain(input.events)), 4)
    [] input.algorithm = "fetch" -> Responses
    [] input.algorithm = "growth" -> [periods : 0..3, early : BOOLEAN]
    [] input.algorithm = "loan" -> 1..4
    [] input.algorithm = "drawdown" ->
         BoundedSeq(Tenths({-5, -1, 0, 1, 10}), 3)
    [] input.algorithm = "quantile" -> LongSeries(input.size)
=============================================================================
