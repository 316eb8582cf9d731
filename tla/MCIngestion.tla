----------------------------- MODULE MCIngestion -----------------------------
(***************************************************************************)
(* A small instance of SourceIngestion: an annual report that is fetched   *)
(* twice and read twice, its amended version, and the price of a share.    *)
(***************************************************************************)
EXTENDS SourceIngestion

CONSTANT posted

MCCatalog ==
  [label \in {"revenue", "net sales", "eps"} |->
     IF label = "eps"
     THEN [predicate |-> "eps", unit |-> "currency_per_share", scaled |-> FALSE]
     ELSE [predicate |-> "revenue", unit |-> "currency", scaled |-> TRUE]]

Descriptor(trust) ==
  [source |-> "SEC", external |-> "annual report", trust |-> trust]

Fetched(content, at) == [content |-> content, at |-> at]

-----------------------------------------------------------------------------
(* The tables.                                                             *)

Figure(amount, bracketed) ==
  [form |-> "figure", amount |-> amount, bracketed |-> bracketed,
   percent |-> FALSE, spelling |-> "plain"]

Row(label, raws) ==
  [label |-> label, unit |-> Unstated,
   cells |-> [k \in 1..Len(raws) |->
                [start |-> Unstated, end |-> k, raw |-> raws[k]]]]

Table(scale, rows) ==
  [subject |-> "company", type |-> "income", currency |-> "THB",
   scale |-> scale, rows |-> rows]

InThousands ==
  Table("thousands",
        <<Row("backlog", <<Figure(9, FALSE)>>),
          Row("revenue", <<Figure(2, FALSE), Missing, Garbled>>)>>)

\* The same revenue under another label, after a row of its own.
ReadAgain ==
  Table("ones", <<Row("eps", <<Figure(-5, TRUE)>>),
                  Row("net sales", <<Figure(2000, FALSE)>>)>>)

Amended == Table("thousands", <<Row("revenue", <<Figure(2, FALSE)>>)>>)

-----------------------------------------------------------------------------
(* The price of a share, observed by a provider; its claim is posted, and  *)
(* so are claims of a caller: two that restate the revenue and rest on two *)
(* documents, the second too confident for one of them, one that           *)
(* contradicts it, and one under the identifier of a parsed claim.  The    *)
(* parsed revenue may be retracted.                                        *)

Price(at) ==
  [provider |-> "exchange", record |-> 1, instrument |-> "company",
   field |-> "close", asOf |-> 1, value |-> 7, currency |-> "THB",
   unit |-> Unstated, observed |-> at, trust |-> 90]

MCFilings ==
  {[descriptor |-> Descriptor(100), fetched |-> Fetched(1, 0),
    table |-> InThousands],
   [descriptor |-> Descriptor(100), fetched |-> Fetched(1, 0),
    table |-> ReadAgain],
   [descriptor |-> Descriptor(100), fetched |-> Fetched(1, 1),
    table |-> InThousands],
   [descriptor |-> Descriptor(95), fetched |-> Fetched(2, 1),
    table |-> Amended]}

MCObservations == {Price(0)}

MCIngestions ==
  {FilingStatement(f.descriptor, f.fetched, f.table) : f \in MCFilings}
  \union {ObservationStatement(o) : o \in MCObservations}

MCDocuments == {i.document : i \in MCIngestions}

ParsedClaims ==
  UNION {{i.claims[k] : k \in DOMAIN i.claims} : i \in MCIngestions}

TheRevenue ==
  FilingStatement(Descriptor(100), Fetched(1, 0), InThousands).claims[1]

ThePrice == MarketClaim(Price(0))

Restatement ==
  [TheRevenue EXCEPT !.id = posted, !.value = 4000, !.confidence = 90,
     !.evidence = @ \union ThePrice.evidence, !.supersedes = TheRevenue.id]

MCSubmissions ==
  {ThePrice, Restatement, [Restatement EXCEPT !.confidence = 95],
   [Restatement EXCEPT !.supersedes = NoClaim],
   [TheRevenue EXCEPT !.unit = <<"USD", "currency">>]}

MCRetractions == {<<TheRevenue.id, "retracted">>}

Claims == ParsedClaims \union MCSubmissions

MCClaimIds == {c.id : c \in Claims}

MCEvidenceIds == {d.id : d \in MCDocuments}

MCContents == {d.content : d \in MCDocuments}

MCKeys == {c.key : c \in Claims}

MCPeriods == {c.period : c \in Claims} \ {NoPeriod}

MCUnits == {c.unit : c \in Claims}

MCDetails == {c.detail : c \in Claims}
=============================================================================
