---------------------------- MODULE LedgerReplay ----------------------------
(***************************************************************************)
(* Point-in-time replay over the ledger: a reader asks for the claims known *)
(* at a past instant, remembers the answer, and must get it again however  *)
(* the ledger goes on.                                                     *)
(*                                                                         *)
(* Readers take the store's lock, which the writer of a transaction holds  *)
(* from its BEGIN to its end: a query runs only while no ingestion is under *)
(* way.                                                                    *)
(***************************************************************************)
EXTENDS ClaimsLedger

CONSTANTS
  Questions,   \* records of a key, a business_as_of and the allowed statuses
  NothingAsked \* no answer is remembered

ASSUME ReplayAssumption ==
  /\ Questions \subseteq
       [key : Keys, business : Int, statuses : SUBSET ClaimStatuses]
  /\ NothingAsked \notin
       [question : Questions, knowledge : Nat,
        answer : SUBSET [id : ClaimIds, status : ClaimStatuses]]

VARIABLE seen  \* an earlier question, its knowledge_as_of and the answer

replayVars == <<db, disk, clock, job, seen>>

Answer(d, question, knowledge) ==
  QueryClaims(d, question.key, question.business, knowledge,
              question.statuses)

InitReplay == Init /\ seen = NothingAsked

\* EvidencePipeline.query about an instant before the present one.
Ask(question, knowledge) ==
  /\ job = Idle
  /\ seen = NothingAsked
  /\ knowledge < clock
  /\ seen' = [question |-> question, knowledge |-> knowledge,
              answer |-> Answer(db, question, knowledge)]
  /\ UNCHANGED vars

Write == Next /\ UNCHANGED seen

NextReplay ==
  \/ Write
  \/ \E question \in Questions, knowledge \in 0..MaxClock :
       Ask(question, knowledge)

SpecReplay == InitReplay /\ [][NextReplay]_replayVars

\* The remembered answer and its question have their types, and the question
\* was about the past.
ReplayTypeOK ==
  \/ seen = NothingAsked
  \/ /\ seen \in
          [question : Questions, knowledge : Nat,
           answer : SUBSET [id : ClaimIds, status : ClaimStatuses]]
     /\ seen.knowledge < clock

\* A later contradiction, restatement, retraction or adjudication does not
\* rewrite what an earlier replay saw: the same question about the same past
\* instant has the same answer, in the middle of an ingestion, after its commit
\* and after its rollback.
RepeatableReplay ==
  seen # NothingAsked =>
    /\ Answer(db, seen.question, seen.knowledge) = seen.answer
    /\ Answer(disk, seen.question, seen.knowledge) = seen.answer
=============================================================================
