-------------------------------- MODULE MCStore --------------------------------
(***************************************************************************)
(* Small instances of StoreTransactions.                                   *)
(***************************************************************************)
EXTENDS StoreTransactions, TLC

CONSTANTS t1, t2, t3

\* The API's calls that open their transaction explicitly, and the snapshots,
\* each of which is two queries.
ExplicitKinds == {"transaction", "snapshot"}

WritingKinds == {"transaction", "instrument", "event"}

AllKinds == {"transaction", "instrument", "event", "read"}

\* The threads of the pool are alike.  Used by the run without liveness only.
ThreadSymmetry == Permutations(Threads)
=============================================================================
