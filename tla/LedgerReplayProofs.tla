-------------------------- MODULE LedgerReplayProofs --------------------------
(***************************************************************************)
(* Point-in-time replay repeats, for any claims and questions: with         *)
(* timestamps given by the server and a clock that is not set back, no step *)
(* of the ledger touches what was known before it.                         *)
(***************************************************************************)
EXTENDS LedgerReplay, ClaimsLedgerProofs

\* The answer to a question about the past is in the past.
LEMMA AnswerOfPast ==
  ASSUME NEW d, NEW n, ImageOK(d), HistoryOK(d), NEW k \in Nat,
         SamePast(d, n, k), NEW question
  PROVE  Answer(n, question, k) = Answer(d, question, k)
  BY QueryOfPast DEF Answer

\* The answer remembered is still the answer, of both images.
ReplayInv == Inv /\ ReplayTypeOK /\ RepeatableReplay

\* A query answers with stored claims of the statuses it asks for.
LEMMA AnswerType ==
  ASSUME NEW d, NEW question \in Questions, NEW k
  PROVE  Answer(d, question, k) \in
           SUBSET [id : ClaimIds, status : ClaimStatuses]
<1>1. question.statuses \subseteq ClaimStatuses
  BY ReplayAssumption
<1> QED
  BY <1>1 DEF Answer, QueryClaims, StoredClaims

\* A question asked keeps the invariant.
LEMMA AskStep ==
  ASSUME ReplayInv, NEW question \in Questions, NEW knowledge \in 0..MaxClock,
         Ask(question, knowledge)
  PROVE  ReplayInv'
<1>1. /\ job = Idle /\ knowledge < clock /\ UNCHANGED vars
      /\ seen' = [question |-> question, knowledge |-> knowledge,
                  answer |-> Answer(db, question, knowledge)]
  BY DEF Ask
<1>2. Inv' /\ db' = disk'
  BY <1>1 DEF ReplayInv, Inv, JobOK, vars
<1>3. Answer(db, question, knowledge) \in
        SUBSET [id : ClaimIds, status : ClaimStatuses]
  BY AnswerType
<1>4. knowledge \in Nat
  BY LedgerAssumption
<1>5. ReplayTypeOK'
  BY <1>1, <1>3, <1>4 DEF ReplayTypeOK, vars
<1>6. RepeatableReplay'
  BY <1>1, <1>2 DEF RepeatableReplay, vars
<1> QED
  BY <1>2, <1>5, <1>6 DEF ReplayInv

\* A step of the ledger keeps the invariant.
LEMMA WriteStep ==
  ASSUME ~TrustClientTimestamps, ~ClockMayStepBack, ReplayInv,
         [Next]_vars, UNCHANGED seen
  PROVE  ReplayInv'
<1>1. Inv'
  BY InvStep DEF ReplayInv
<1>2. CASE seen = NothingAsked
  BY <1>1, <1>2 DEF ReplayInv, ReplayTypeOK, RepeatableReplay
<1>3. CASE seen # NothingAsked
  <2> DEFINE k == seen.knowledge
             answer(d) == Answer(d, seen.question, k)
  <2>1. /\ k \in Nat /\ k < clock /\ Inv
        /\ seen \in
             [question : Questions, knowledge : Nat,
              answer : SUBSET [id : ClaimIds, status : ClaimStatuses]]
    BY <1>3 DEF ReplayInv, ReplayTypeOK
  <2>2. /\ SamePast(db, db', k) \/ db' = disk
        /\ disk' = disk \/ disk' = db'
        /\ k < clock'
    BY <2>1, PastStep
  <2>3. answer(db) = seen.answer /\ answer(disk) = seen.answer
    BY <1>3 DEF ReplayInv, RepeatableReplay
  <2>4. SamePast(db, db', k) => answer(db') = answer(db)
    BY <2>1, AnswerOfPast DEF Inv, Sound
  <2> HIDE DEF answer
  <2>5. answer(db') = seen.answer /\ answer(disk') = seen.answer
    BY <2>2, <2>3, <2>4
  <2>6. RepeatableReplay'
    BY <2>5 DEF RepeatableReplay, answer
  <2>7. ReplayTypeOK'
    BY <2>1, <2>2 DEF ReplayTypeOK
  <2> QED
    BY <1>1, <2>6, <2>7 DEF ReplayInv
<1> QED
  BY <1>2, <1>3

\* With server timestamps and a clock that only goes forward, a replay of a past
\* instant has the same answer at any later time, in the middle of an ingestion,
\* after its commit and after its rollback.
THEOREM ReplayRepeats ==
  ASSUME ~TrustClientTimestamps, ~ClockMayStepBack
  PROVE  SpecReplay => []RepeatableReplay
<1>1. InitReplay => ReplayInv
  BY InitInv DEF InitReplay, ReplayInv, ReplayTypeOK, RepeatableReplay
<1>2. ReplayInv /\ [NextReplay]_replayVars => ReplayInv'
  <2> SUFFICES ASSUME ReplayInv, [NextReplay]_replayVars PROVE ReplayInv'
    OBVIOUS
  <2>1. CASE Write
    BY <2>1, WriteStep DEF Write
  <2>2. CASE \E question \in Questions, knowledge \in 0..MaxClock :
               Ask(question, knowledge)
    BY <2>2, AskStep
  <2>3. CASE UNCHANGED replayVars
    BY <2>3, WriteStep DEF replayVars, vars
  <2> QED
    BY <2>1, <2>2, <2>3 DEF NextReplay
<1>3. ReplayInv => RepeatableReplay
  BY DEF ReplayInv
<1> QED
  BY <1>1, <1>2, <1>3, PTL DEF SpecReplay
=============================================================================
