----------------------------- MODULE Connectors -----------------------------
(***************************************************************************)
(* The provider adapters of cherryfin/providers: the retrieval of a filing *)
(* over HTTP, and the evidence and claims that filings and market data     *)
(* observations are mapped to.                                             *)
(*                                                                         *)
(* Evidence has the fields ClaimsLedger gives it.  A SHA-256 digest is     *)
(* modelled by what it is the digest of.                                   *)
(***************************************************************************)
EXTENDS Integers, Sequences

LOCAL Sequence == INSTANCE SequencesExt

CONSTANTS
  Unstated,   \* a null currency or unit
  Never,      \* the expiry of a claim that has none
  NoPeriod,   \* period_start and period_end are both null
  NoClaim     \* a null claim_id

-----------------------------------------------------------------------------
(* AllowlistedHTTPDocumentFetcher.  A host is the sequence of its labels.  *)

AllowedHost(host, fetcher) ==
  \/ host \in fetcher.hosts
  \/ /\ fetcher.subdomains
     /\ \E allowed \in fetcher.hosts :
          host # allowed /\ Sequence!IsSuffix(allowed, host)

\* validate_uri does not raise.
ValidUri(uri, fetcher) ==
  /\ uri.https
  /\ ~uri.credentials
  /\ uri.port \in {Unstated, 443}
  /\ AllowedHost(uri.host, fetcher)

\* Fault: what was read before the limit is kept.
ReadUpTo(chunks, max) ==
  LET kept[k \in 0..Len(chunks)] ==
        IF k = 0 THEN 0
        ELSE IF kept[k - 1] + chunks[k] > max THEN kept[k - 1]
        ELSE kept[k - 1] + chunks[k]
  IN  kept[Len(chunks)]

TooLong == -1

\* The loop over the chunks of a body: the bytes kept of the first k of them,
\* or TooLong.
ReadBody(chunks, max) ==
  LET kept[k \in 0..Len(chunks)] ==
        IF k = 0 THEN 0
        ELSE IF kept[k - 1] = TooLong \/ kept[k - 1] + chunks[k] > max
        THEN TooLong
        ELSE kept[k - 1] + chunks[k]
  IN  kept[Len(chunks)]

\* Nothing is fetched: an exception has been raised.
NotFetched == [fetched |-> FALSE]

\* fetch: the response is external; its body may break off before its end.  The
\* client notices that when the length of the body is given or the body comes in
\* marked chunks; a body that ends with its connection looks complete.
Fetch(uri, response, fetcher) ==
  LET bytes == ReadBody(response.chunks, fetcher.max)
  IN  IF \/ ~ValidUri(uri, fetcher)
         \/ response.redirect
         \/ ~response.success
         \/ ~response.supported
         \/ bytes = TooLong
         \/ response.broken /\ response.noticed
      THEN NotFetched
      ELSE [fetched |-> TRUE, bytes |-> bytes]

-----------------------------------------------------------------------------
(* The records the adapters make.                                          *)

\* filing_to_evidence_document: fetching an unchanged filing again yields the
\* same identifier with another observed_at.
FilingEvidence(descriptor, fetched) ==
  [id |-> <<descriptor.source, descriptor.external, fetched.content>>,
   content |-> [descriptor |-> descriptor, body |-> fetched.content],
   observed |-> fetched.at,
   ingested |-> fetched.at, trust |-> descriptor.trust]

\* What the identifiers of the records of an observation are digests of:
\* neither the time of the observation nor the trust in it.
Material(o) ==
  <<o.provider, o.record, o.instrument, o.field, o.asOf, o.value>>

\* market_observation_to_records, the evidence.
MarketEvidence(o) ==
  [id |-> Material(o), content |-> o, observed |-> o.observed,
   ingested |-> o.observed, trust |-> o.trust]

MarketUnit(o) ==
  IF o.unit # Unstated THEN o.unit
  ELSE IF o.currency # Unstated THEN "currency" ELSE "number"

\* market_observation_to_records, the claim.
MarketClaim(o) ==
  [id |-> Material(o), key |-> <<o.instrument, o.field>>, period |-> NoPeriod,
   effective |-> o.asOf, expires |-> Never, kind |-> "decimal",
   unit |-> <<o.currency, MarketUnit(o)>>, value |-> o.value,
   detail |-> [spelling |-> o.value], evidence |-> {Material(o)},
   confidence |-> o.trust, supersedes |-> NoClaim, asserted |-> o.observed,
   status |-> "active"]
=============================================================================
