-------------------------- MODULE LedgerExpectations --------------------------
(***************************************************************************)
(* What the documents and the messages of CherryFin say of the ledger and   *)
(* the code does not do.  Each of these is refuted by a run of its own.     *)
(***************************************************************************)
EXTENDS ClaimsLedger

\* docs/EVIDENCE_INTELLIGENCE.md, contradiction lifecycle: a detected
\* disagreement "marks active claims disputed".  As long as nobody has
\* adjudicated a claim of an open contradiction, it is not active.  A claim that
\* supersedes one claim and contradicts another stays active: the branch of
\* ClaimLedger.record that marks the new claim is the else of the supersession.
DetectedClaimsDisputed ==
  \A p \in StoredContradictions(disk) : \A c \in p :
    disk.contradictions[p].status = "open" /\ Unadjudicated(disk, c)
      => disk.status[c] # "active"

\* agents/orchestrator.py caps the confidence of an answer that cites a disputed
\* claim "while contradictory claims await adjudication": a disputed claim is in
\* a contradiction that is open.  A dismissal closes the contradiction and leaves
\* both claims disputed, with nothing left to adjudicate.
DisputedAwaitsAdjudication ==
  \A c \in StoredClaims(disk) :
    disk.status[c] = "disputed" =>
      \E p \in StoredContradictions(disk) :
        c \in p /\ disk.contradictions[p].status = "open"

\* docs/EVIDENCE_INTELLIGENCE.md: a contradiction "can later accept one claim,
\* supersede the other".  The two claims of a resolved contradiction are not
\* both active.  Resolving another contradiction of the rejected claim makes it
\* active again beside the claim it was rejected for.
OneOfTwoAccepted ==
  \A p \in StoredContradictions(disk) :
    disk.contradictions[p].status = "resolved" =>
      \E c \in p : disk.status[c] # "active"
=============================================================================
