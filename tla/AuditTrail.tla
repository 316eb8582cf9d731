----------------------------- MODULE AuditTrail -----------------------------
(***************************************************************************)
(* The hash chain of cherryfin/intelligence/store_audit.py, the rows of    *)
(* audit_events of one tenant in the order of their sequence numbers.      *)
(* What of an event is neither its payload nor a hash is its body.  A      *)
(* SHA-256 digest is modelled by what it is the digest of.                 *)
(***************************************************************************)
EXTENDS Sequences, Integers

CONSTANT NoHash   \* the previous_hash of the first event

Sha256(value) == [digest |-> value]

\* event_hash: the digest of everything but the payload and itself.
EventHash(body, previous, payloadHash) ==
  Sha256([body |-> body, previous |-> previous, payloadHash |-> payloadHash])

LastHash(rows) == IF rows = <<>> THEN NoHash ELSE rows[Len(rows)].hash

\* append_audit_event
AppendAuditEvent(rows, body, payload) ==
  Append(rows,
    [body |-> body, payload |-> payload, payloadHash |-> Sha256(payload),
     previous |-> LastHash(rows),
     hash |-> EventHash(body, LastHash(rows), Sha256(payload))])

\* Fault: each event is verified by itself.
EventErrors(rows) ==
  {k \in DOMAIN rows :
     \/ rows[k].payloadHash # Sha256(rows[k].payload)
     \/ rows[k].hash #
          EventHash(rows[k].body, rows[k].previous, rows[k].payloadHash)}

\* verify_audit_chain: the rows that give rise to an error.
ChainErrors(rows) ==
  {k \in DOMAIN rows :
     \/ rows[k].payloadHash # Sha256(rows[k].payload)
     \/ rows[k].previous # LastHash(SubSeq(rows, 1, k - 1))
     \/ rows[k].hash #
          EventHash(rows[k].body, rows[k].previous, rows[k].payloadHash)}

ChainValid(rows) == ChainErrors(rows) = {}
=============================================================================
