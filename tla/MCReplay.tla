------------------------------- MODULE MCReplay -------------------------------
(***************************************************************************)
(* A small instance of LedgerReplay: the claims of MCLedger, and the       *)
(* question for those that are active or disputed, the answer to which     *)
(* tells the two apart.                                                    *)
(***************************************************************************)
EXTENDS MCLedger, LedgerReplay

MCQuestions ==
  {[key |-> Revenue, business |-> 0, statuses |-> {"active", "disputed"}]}
=============================================================================
