--------------------------- MODULE SourceIngestion ---------------------------
(***************************************************************************)
(* The ledger fed from its sources: filings fetched by a connector and     *)
(* ingested with the table read from them, which the statement parser      *)
(* turns into claims, and market data observations, the evidence of which  *)
(* is ingested and the claim of which is posted.                           *)
(***************************************************************************)
EXTENDS ClaimsLedger

CONSTANTS
  Filings,     \* a descriptor, what is fetched of it, and the table read from it
  Observations,\* of a market data provider
  Catalog,     \* what the labels of statement rows resolve to
  Unstated,    \* a null currency, unit or period_start
  Never        \* the expiry of a claim that has none

INSTANCE StatementParser

INSTANCE Connectors

\* A fetched filing, with the table that was read from it.
FilingStatement(descriptor, fetched, table) ==
  LET document == FilingEvidence(descriptor, fetched)
  IN  [document |-> document, claims |-> Parse(table, document).claims]

ObservationStatement(o) == [document |-> MarketEvidence(o), claims |-> <<>>]

\* What is ingested comes from the sources.
ASSUME SourcesAssumption ==
  /\ Ingestions =
       {FilingStatement(f.descriptor, f.fetched, f.table) : f \in Filings}
       \union {ObservationStatement(o) : o \in Observations}
  /\ \A f \in Filings : IsTable(f.table)

\* Two claims are one figure of one document, printed twice in two ways.
PrintedTwice(c, e) ==
  /\ c.key = e.key
  /\ c.effective = e.effective
  /\ c.value = e.value
  /\ c.evidence = e.evidence
  /\ \/ c.period # e.period
     \/ c.unit # e.unit
     \/ c.detail # e.detail

\* The clock shows a time at which the evidence of the claim was not there yet.
ClockBeforeEvidence(c) ==
  \E e \in c.evidence : clock < db.evidence[e].ingested

\* A statement is only ever rejected because it, or an earlier statement over
\* the same document, prints one figure twice in different ways (under two
\* labels, for two periods with one end, in another spelling), because a caller
\* posted other content under the identifier of a parsed claim, or because the
\* clock was set back: the claims the parser makes never lack evidence, never
\* are too confident for it, and never clash with another document's.
RejectedOnlyForCause ==
  ClaimsLeft /\ ~AcceptsClaim(db, NextClaim, clock) =>
    \/ ClockBeforeEvidence(NextClaim)
    \/ \E c \in StoredClaims(db) : PrintedTwice(NextClaim, db.claims[c])
    \/ NextClaim.id \in {c.id : c \in Submissions}
=============================================================================
