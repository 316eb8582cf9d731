---------------------------- MODULE AnalysisProofs ----------------------------
(***************************************************************************)
(* Theorems about Analysis and its ReleaseGate: what the gate releases, and *)
(* that what the ledger held is what the model was shown.                  *)
(***************************************************************************)
EXTENDS Analysis, LedgerStatusProofs, FiniteSetTheorems, WellFoundedInduction

-----------------------------------------------------------------------------
(* Least numbers.                                                          *)

\* A nonempty set of natural numbers has a least element.
LEMMA LeastExists ==
  ASSUME NEW S, S \subseteq Nat, S # {}
  PROVE  Min(S) \in S /\ \A x \in S : Min(S) <= x
<1> DEFINE R == OpToRel(<, Nat)
<1>1. IsWellFoundedOn(R, Nat)
  BY NatLessThanWellFounded
<1>2. \A x \in Nat, y \in Nat : x < y => <<x, y>> \in R
  BY DEF OpToRel
<1> HIDE DEF R
<1>3. \E x \in S : \A y \in S : ~(<<y, x>> \in R)
  BY <1>1, WFMin
<1>4. PICK x \in S : \A y \in S : ~(<<y, x>> \in R)
  BY <1>3
<1>5. ASSUME NEW y \in S
      PROVE  x <= y
  <2>1. x \in Nat /\ y \in Nat /\ ~(y < x)
    BY <1>2, <1>4
  <2> QED
    BY <2>1
<1> QED
  BY <1>5 DEF Min

-----------------------------------------------------------------------------
(* The release gate.                                                       *)

\* What the gate is given: sources with confidences in hundredths.
Prompts ==
  [claims : SUBSET ClaimRecords, evidence : SUBSET Envelopes,
   market : BOOLEAN, business : Int \union {Unset},
   knowledge : Nat \union {Unset}]

\* The caps leave the citations and the actions of an answer alone.
LEMMA ApplyCapsFields ==
  ASSUME NEW prompt \in Prompts, NEW raw \in AnswerRecords,
         NEW answer, answer = ApplyCaps(prompt, raw)
  PROVE  /\ answer.claims = raw.claims /\ answer.evidence = raw.evidence
         /\ answer.actions = raw.actions
         /\ answer.calculations = raw.calculations
         /\ answer.promises = raw.promises /\ answer.risks = raw.risks
         /\ CitedClaims(prompt, answer) = CitedClaims(prompt, raw)
         /\ CitedEvidence(prompt, answer) = CitedEvidence(prompt, raw)
         /\ SourceScores(prompt, answer) = SourceScores(prompt, raw)
         /\ CitesDispute(prompt, answer) <=> CitesDispute(prompt, raw)
         /\ UnverifiedMarket(prompt, answer) <=> UnverifiedMarket(prompt, raw)
<1>1. /\ answer.claims = raw.claims /\ answer.evidence = raw.evidence
      /\ answer.actions = raw.actions
      /\ answer.calculations = raw.calculations
      /\ answer.promises = raw.promises /\ answer.risks = raw.risks
  BY DEF ApplyCaps, AnswerRecords
<1>2. /\ CitedClaims(prompt, answer) = CitedClaims(prompt, raw)
      /\ CitedEvidence(prompt, answer) = CitedEvidence(prompt, raw)
  BY <1>1 DEF CitedClaims, CitedEvidence
<1> QED
  BY <1>1, <1>2 DEF SourceScores, CitesDispute, UnverifiedMarket, Verified

\* The confidences and trusts of what is cited are natural numbers.
LEMMA SourceScoresType ==
  ASSUME NEW prompt \in Prompts, NEW raw
  PROVE  SourceScores(prompt, raw) \subseteq Nat
<1>1. \A e \in CitedEvidence(prompt, raw) : e.trust \in Nat
  BY DEF CitedEvidence, Prompts, Envelopes
<1>2. \A c \in CitedClaims(prompt, raw) : c.confidence \in Nat
  BY DEF CitedClaims, Prompts, ClaimRecords
<1> QED
  BY <1>1, <1>2 DEF SourceScores

\* The confidence is below each cap that applies, and never raised.
LEMMA ApplyCapsCaps ==
  ASSUME NEW prompt \in Prompts, NEW raw \in AnswerRecords,
         NEW answer, answer = ApplyCaps(prompt, raw)
  PROVE  /\ answer.confidence \in 0..raw.confidence
         /\ \A x \in SourceScores(prompt, raw) :
              answer.confidence <= x + SourceMargin
         /\ CitesDispute(prompt, raw) => answer.confidence <= DisputeCap
         /\ UnverifiedMarket(prompt, raw) => answer.confidence <= MarketCap
         /\ answer \in AnswerRecords
<1> DEFINE scores == SourceScores(prompt, raw)
           market == IF UnverifiedMarket(prompt, raw) THEN {MarketCap} ELSE {}
           dispute == IF CitesDispute(prompt, raw) THEN {DisputeCap} ELSE {}
           margin == IF scores = {} THEN {} ELSE {Min(scores) + SourceMargin, 100}
           caps == (market \union dispute \union margin) \union {raw.confidence}
<1>1. raw.confidence \in 0..100 /\ raw.limitations \in BOOLEAN
  BY DEF AnswerRecords
<1>2. scores \subseteq Nat
  BY SourceScoresType
<1>3. scores # {} => Min(scores) \in Nat /\ \A x \in scores : Min(scores) <= x
  BY <1>2, LeastExists
<1>4. answer = [raw EXCEPT
        !.confidence = Min(caps),
        !.limitations = raw.limitations \/ UnverifiedMarket(prompt, raw)
                          \/ CitesDispute(prompt, raw)]
  BY DEF ApplyCaps, AnswerRecords
<1> HIDE DEF scores
<1>5. caps \subseteq Nat /\ caps # {}
  BY <1>1, <1>3 DEF MarketCap, DisputeCap, SourceMargin
<1>6. /\ raw.confidence \in caps
      /\ UnverifiedMarket(prompt, raw) => MarketCap \in caps
      /\ CitesDispute(prompt, raw) => DisputeCap \in caps
      /\ scores # {} => Min(scores) + SourceMargin \in caps
  OBVIOUS
<1> HIDE DEF caps
<1>7. Min(caps) \in Nat /\ \A x \in caps : Min(caps) <= x
  BY <1>5, LeastExists
<1>8. answer.confidence = Min(caps)
  BY <1>4 DEF AnswerRecords
<1>9. Min(caps) \in 0..raw.confidence /\ Min(caps) \in 0..100
  BY <1>1, <1>6, <1>7
<1>10. ASSUME NEW x \in scores
       PROVE  answer.confidence <= x + SourceMargin
  <2>1. /\ Min(scores) + SourceMargin \in caps
        /\ Min(scores) \in Nat /\ Min(scores) <= x /\ x \in Nat
    BY <1>2, <1>3, <1>6
  <2> QED
    BY <1>7, <1>8, <2>1 DEF SourceMargin
<1>11. answer \in AnswerRecords
  <2>1. (raw.limitations \/ UnverifiedMarket(prompt, raw)
           \/ CitesDispute(prompt, raw)) \in BOOLEAN
    OBVIOUS
  <2> QED
    BY <1>4, <1>9, <2>1 DEF AnswerRecords
<1> QED
  BY <1>6, <1>7, <1>8, <1>9, <1>10, <1>11 DEF scores

\* A fact that holds is among those that hold.
LEMMA HoldingFact ==
  ASSUME NEW facts, NEW f \in DOMAIN facts
  PROVE  f \in Holding(facts) <=> facts[f]
  BY DEF Holding

\* The policy's own rule on confidence never blocks a capped answer.
LEMMA CappedIsNotBlocked ==
  ASSUME NEW prompt \in Prompts, NEW raw \in AnswerRecords,
         NEW answer, answer = ApplyCaps(prompt, raw)
  PROVE  "confidence" \notin Blocked(prompt, answer)
<1>1. UnverifiedMarket(prompt, answer) => answer.confidence <= MarketCap
  BY ApplyCapsFields, ApplyCapsCaps
<1>2. answer.confidence \in Nat
  BY ApplyCapsCaps DEF AnswerRecords
<1>3. ~(UnverifiedMarket(prompt, answer) /\ answer.confidence > MarketCap)
  BY <1>1, <1>2 DEF MarketCap
<1>4. "confidence" \notin Holding(RulesOnSources(prompt, answer))
  BY <1>3 DEF Holding, RulesOnSources
<1>5. "confidence" \notin Holding(RulesOnActions(answer.actions))
  BY DEF Holding, RulesOnActions
<1> QED
  BY <1>4, <1>5 DEF Blocked

\* The score is a percentage.
LEMMA ScoreType ==
  ASSUME NEW met
  PROVE  Score(met) \in 0..100
  BY DEF Score, Points, Weight

\* The threshold decides nothing: mandatory checks alone score above it.
LEMMA MandatoryScore ==
  ASSUME NEW met, Mandatory \subseteq met
  PROVE  Score(met) >= ReleaseScore
<1>1. Mandatory =
        {"evidence_ids_valid", "claim_ids_valid", "claim_support_complete",
         "point_in_time_safe", "market_claims_have_verified_sources",
         "calculations_are_deterministic", "side_effects_require_approval",
         "no_execution_authorized_in_analysis", "policy_allowed"}
  BY DEF Mandatory, Weight
<1> QED
  BY <1>1 DEF Score, Points, Weight, ReleaseScore

\* An answer passes exactly if every mandatory check is met.
LEMMA JudgePasses ==
  ASSUME NEW prompt, NEW raw, NEW response, response = Judge(prompt, raw)
  PROVE  response.passed <=>
           Mandatory \subseteq Holding(Checks(prompt, response.answer))
  BY MandatoryScore DEF Judge

\* What the gate returns has its type.
LEMMA JudgeType ==
  ASSUME NEW prompt \in Prompts, NEW raw \in AnswerRecords
  PROVE  Judge(prompt, raw) \in Responses
<1> DEFINE answer == ApplyCaps(prompt, raw)
           met == Holding(Checks(prompt, answer))
<1>1. answer \in AnswerRecords
  BY ApplyCapsCaps
<1>2. Blocked(prompt, answer) \in SUBSET Reasons
  <2>1. Holding(RulesOnSources(prompt, answer)) \subseteq Reasons
    BY DEF Holding, RulesOnSources, Reasons
  <2>2. Holding(RulesOnActions(answer.actions)) \subseteq Reasons
    BY DEF Holding, RulesOnActions, Reasons
  <2> HIDE DEF answer
  <2>3. (IF answer.calculations = "none" THEN {} ELSE {"calculations"})
            \subseteq Reasons
    BY DEF Reasons
  <2>4. (IF answer.promises THEN {"guarantee"} ELSE {}) \subseteq Reasons
    BY DEF Reasons
  <2> QED
    BY <2>1, <2>2, <2>3, <2>4 DEF Blocked
<1>3. Score(met) \in 0..100
  BY ScoreType
<1>4. Judge(prompt, raw) =
        [answer |-> answer,
         blocked |-> Blocked(prompt, answer),
         approval |-> \E x \in answer.actions : x.effect \in SideEffects,
         score |-> Score(met),
         passed |-> Score(met) >= ReleaseScore /\ Mandatory \subseteq met]
  BY DEF Judge
<1> HIDE DEF answer, met
<1> QED
  BY <1>1, <1>2, <1>3, <1>4 DEF Responses

\* What the gate lets pass: all citations are among the sources shown, which
\* support the claims cited and lie before the cutoffs; a market answer has a
\* reviewed source; and no rule on the actions is broken.
Releasable(prompt, answer) ==
  /\ answer.evidence \subseteq IdsOf(prompt.evidence)
  /\ answer.claims \subseteq IdsOf(prompt.claims)
  /\ SupportSupplied(prompt, answer)
  /\ PointInTime(prompt, answer)
  /\ ~UnverifiedMarket(prompt, answer)
  /\ Blocked(prompt, answer) = {}

LEMMA PassedIsReleasable ==
  ASSUME NEW prompt, NEW raw, NEW response, response = Judge(prompt, raw),
         response.passed
  PROVE  Releasable(prompt, response.answer)
<1> DEFINE answer == response.answer
           checks == Checks(prompt, answer)
<1>1. Mandatory \subseteq Holding(checks)
  BY JudgePasses
<1>2. {"evidence_ids_valid", "claim_ids_valid", "claim_support_complete",
       "point_in_time_safe", "market_claims_have_verified_sources",
       "policy_allowed"} \subseteq Mandatory
  BY DEF Mandatory, Weight
<1>3. /\ checks["evidence_ids_valid"] /\ checks["claim_ids_valid"]
      /\ checks["claim_support_complete"] /\ checks["point_in_time_safe"]
      /\ checks["market_claims_have_verified_sources"]
      /\ checks["policy_allowed"]
  BY <1>1, <1>2 DEF Holding
<1> HIDE DEF answer
<1>4. /\ answer.evidence \subseteq IdsOf(prompt.evidence)
      /\ answer.claims \subseteq IdsOf(prompt.claims)
      /\ SupportSupplied(prompt, answer)
      /\ PointInTime(prompt, answer)
      /\ ~UnverifiedMarket(prompt, answer)
      /\ Blocked(prompt, answer) = {}
  BY <1>3 DEF Checks
<1> QED
  BY <1>4 DEF Releasable, answer

\* An answer that breaks no rule breaks none of those on actions.
LEMMA NoRuleOnActions ==
  ASSUME NEW prompt, NEW answer, answer.actions \subseteq ActionRecords,
         Blocked(prompt, answer) = {},
         NEW x \in answer.actions, x.transactional
  PROVE  /\ x.effect = "execute" /\ x.approval /\ ExecutionEnabled /\ x.key
         /\ x.notional # Unset /\ x.notional <= MaxNotional
<1> DEFINE rules == RulesOnActions(answer.actions)
<1>1. Holding(rules) = {}
  BY DEF Blocked
<1>2. /\ ~rules["misclassified"] /\ ~rules["unapproved"]
      /\ ~rules["disabled"] /\ ~rules["no_key"] /\ ~rules["notional"]
  BY <1>1 DEF Holding, RulesOnActions
<1>3. x.effect = "execute"
  BY <1>2 DEF RulesOnActions
<1>4. x.approval /\ ExecutionEnabled /\ x.key
  BY <1>2, <1>3 DEF RulesOnActions, SideEffects
<1>5. x.notional # Unset /\ ~(x.notional > MaxNotional)
  BY <1>2, <1>3 DEF RulesOnActions
<1>6. x.notional \in Nat /\ MaxNotional \in Nat
  BY <1>5, GateAssumption DEF ActionRecords
<1> QED
  BY <1>3, <1>4, <1>5, <1>6

-----------------------------------------------------------------------------
(* What a call knows.                                                      *)

\* A call that has not been refused.
CallRecords ==
  [stage :
     {"reading", "asking", "judged", "joining", "recorded", "ended"},
   request : Requests, at : Nat, left : Seq(SUBSET Keys),
   claims : SUBSET ClaimRecords, evidence : SUBSET Envelopes,
   business : Nat \union {Unset}, knowledge : Nat \union {Unset},
   snapshot : SUBSET AuditEvents, attempt : 0..(MaxAttempts - 1),
   response : Responses \union {Unset}, status : {200, Unset}]

\* The claim k is one the image d held at the two times.
FoundIn(d, k, business, knowledge) ==
  /\ k.id \in StoredClaims(d)
  /\ k = [d.claims[k.id] EXCEPT !.status = k.status]
  /\ k.status \in {"active", "disputed"}
  /\ k.asserted <= knowledge /\ k.effective <= business /\ business < k.expires
  /\ \E row \in d.history[k.id] : row.at <= knowledge /\ row.status = k.status

\* The evidence e is that of the image d.
FromLedger(d, e) ==
  e.id \in StoredEvidence(d) /\ e = Envelope(d.evidence[e.id])

\* The events tell of the claim, its status and its evidence.
Told(events, k, knowledge) ==
  /\ \E v \in events :
       /\ v.action \in {"claim.created", "claim.status_changed"}
       /\ v.resource = k.id
       /\ v.outcome = k.status
       /\ v.at <= knowledge
  /\ \A id \in k.evidence : ArrivalTold(events, id)

\* What a call holds that is only about itself.
FormOK(c) ==
  /\ c \in CallRecords
  /\ IF c.request.context = NoContext
     THEN c.stage # "reading" /\ c.claims = {}
     ELSE c.business \in Nat /\ c.knowledge \in Nat
  /\ c.status = (IF c.stage = "ended" THEN 200 ELSE Unset)
  /\ IF c.stage \in {"judged", "joining", "recorded", "ended"}
     THEN \E answer \in Answers : c.response = Judge(Prompt(c), answer)
     ELSE c.response = Unset

\* What the call has read is in the image d.
ReadOK(d, c) ==
  /\ \A k \in c.claims : FoundIn(d, k, c.business, c.knowledge)
  /\ \A e \in c.evidence :
       \/ FromLedger(d, e)
       \/ c.stage # "reading" /\ e \in InlineEvidence(c.request)
  /\ c.snapshot \subseteq d.audit

\* The sources of a call that goes to the model are complete and unambiguous.
SourcesOK(d, c) ==
  /\ \A k \in c.claims :
       /\ Told(c.snapshot, k, c.knowledge)
       /\ k.evidence \subseteq IdsOf(c.evidence)
       /\ \A e \in c.evidence : e.id \in k.evidence => FromLedger(d, e)
  /\ \A e, f \in c.evidence : e.id = f.id => e = f
  /\ c.request.context = NoContext => ~RepeatsId(c.request.inline)

CallOK(d, c) ==
  /\ FormOK(c)
  /\ ReadOK(d, c)
  /\ c.stage # "reading" => SourcesOK(d, c)

\* No call, a refused one, or one that goes well.
CallState(d, c) ==
  \/ c = NoCall
  \/ \E status \in {400, 409, 500, 502} : c = Refused(status)
  \/ CallOK(d, c)

\* What the gate reads of a call has its type.
LEMMA PromptType ==
  ASSUME NEW c \in CallRecords
  PROVE  /\ Prompt(c) \in Prompts
         /\ Prompt(c).claims = c.claims /\ Prompt(c).evidence = c.evidence
         /\ Prompt(c).business = c.business
<1>1. c.request \in RequestRecords
  BY AnalysisAssumption DEF CallRecords
<1>2. c.request.context # NoContext =>
        c.request.context.knowledge \in Nat \union {Unset}
  BY <1>1 DEF RequestRecords, Contexts
<1>3. (RouteMode(c.request.mode, c.request.hits) \in MarketModes) \in BOOLEAN
  OBVIOUS
<1>4. c.claims \in SUBSET ClaimRecords /\ c.evidence \in SUBSET Envelopes
      /\ c.business \in Int \union {Unset}
  BY DEF CallRecords
<1> QED
  BY <1>2, <1>3, <1>4 DEF Prompt, Prompts

\* It depends on the request and the sources alone.
LEMMA PromptFrame ==
  ASSUME NEW c, NEW e, e.request = c.request, e.claims = c.claims,
         e.evidence = c.evidence, e.business = c.business
  PROVE  Prompt(e) = Prompt(c)
  BY DEF Prompt

\* Inline evidence is well formed, never from a reviewed source, and an
\* identifier names one item of it.
LEMMA InlineFacts ==
  ASSUME NEW r \in Requests
  PROVE  /\ InlineEvidence(r) \subseteq Envelopes
         /\ \A e \in InlineEvidence(r) : ~e.verified
         /\ \A e, f \in InlineEvidence(r) : e.id = f.id => e = f
<1>1. r.inline \in Seq(Envelopes)
  BY AnalysisAssumption DEF RequestRecords
<1>2. \A i \in DOMAIN r.inline : r.inline[i] \in Envelopes
  BY <1>1
<1>3. ASSUME NEW e \in Envelopes
      PROVE  /\ Sanitize(e) \in Envelopes
             /\ ~Sanitize(e).verified /\ Sanitize(e).id = e.id
  <2>1. e.trust \in Nat /\ MaxInlineTrust \in Nat
    BY GateAssumption DEF Envelopes
  <2>2. Least(e.trust, MaxInlineTrust) \in Nat
    BY <2>1 DEF Least
  <2> QED
    BY <2>2 DEF Sanitize, Envelopes
<1>4. \A e \in InlineEvidence(r) :
        \E i \in DOMAIN r.inline :
          /\ e = Sanitize(r.inline[i])
          /\ \A j \in DOMAIN r.inline : r.inline[j].id = r.inline[i].id => j <= i
  BY DEF InlineEvidence
<1>5. ASSUME NEW e \in InlineEvidence(r), NEW f \in InlineEvidence(r),
             e.id = f.id
      PROVE  e = f
  <2>1. PICK i \in DOMAIN r.inline :
          /\ e = Sanitize(r.inline[i])
          /\ \A j \in DOMAIN r.inline : r.inline[j].id = r.inline[i].id => j <= i
    BY <1>4
  <2>2. PICK j \in DOMAIN r.inline :
          /\ f = Sanitize(r.inline[j])
          /\ \A l \in DOMAIN r.inline : r.inline[l].id = r.inline[j].id => l <= j
    BY <1>4
  <2>3. r.inline[i].id = r.inline[j].id
    BY <1>2, <1>3, <1>5, <2>1, <2>2
  <2>4. i \in Nat /\ j \in Nat /\ i <= j /\ j <= i
    BY <1>1, <2>1, <2>2, <2>3
  <2>5. i = j
    BY <2>4
  <2> QED
    BY <2>1, <2>2, <2>5
<1> QED
  BY <1>2, <1>3, <1>4, <1>5

-----------------------------------------------------------------------------
(* What the ledger's images hold.                                          *)

\* The status of a claim at a time it was known is that of a row from then.
LEMMA StatusAtRow ==
  ASSUME NEW d, ImageOK(d), HistoryOK(d), NEW c \in StoredClaims(d),
         NEW k \in Nat, d.claims[c].asserted <= k
  PROVE  \E row \in d.history[c] :
           row.at <= k /\ row.status = StatusAt(d, c, k)
<1> DEFINE rows == {r \in d.history[c] : r.at <= k}
           ages == {k - r.at : r \in rows}
<1>1. rows # {}
  BY DEF HistoryOK, StoredClaims
<1>2. \A r \in rows : r.at \in Nat /\ r.at <= k
  BY ImageFields DEF StoredClaims, HistoryRows
<1>3. ages \subseteq Nat /\ ages # {}
  BY <1>1, <1>2
<1>4. PICK r \in rows : \A q \in rows : k - r.at <= k - q.at
  <2>1. Min(ages) \in ages /\ \A x \in ages : Min(ages) <= x
    BY <1>3, LeastExists
  <2>2. PICK r \in rows : Min(ages) = k - r.at
    BY <2>1
  <2> QED
    BY <2>1, <2>2
<1>5. \A q \in rows : q.at <= r.at
  BY <1>2, <1>4
<1>6. LatestRow(rows) \in rows
  BY <1>5 DEF LatestRow
<1>7. StatusAt(d, c, k) = LatestRow(rows).status
  BY <1>1 DEF StatusAt
<1> QED
  BY <1>6, <1>7

\* A claim with one of its statuses is a claim.
LEMMA ClaimWithStatus ==
  ASSUME NEW d, ImageOK(d), NEW c \in StoredClaims(d),
         NEW status \in ClaimStatuses,
         NEW k, k = [d.claims[c] EXCEPT !.status = status]
  PROVE  /\ k \in ClaimRecords /\ k.status = status
         /\ k.id = d.claims[c].id /\ k.key = d.claims[c].key
         /\ k.asserted = d.claims[c].asserted
         /\ k.effective = d.claims[c].effective
         /\ k.expires = d.claims[c].expires
         /\ k.evidence = d.claims[c].evidence
         /\ k.confidence = d.claims[c].confidence
<1>1. d.claims[c] \in ClaimRecords
  BY ImageFields DEF StoredClaims
<1> QED
  BY <1>1 DEF ClaimRecords

\* What query_claims finds is, as a claim, what the image holds.
LEMMA RowFound ==
  ASSUME NEW d, Sound(d), NEW keys, NEW business \in Nat, NEW knowledge \in Nat,
         NEW q \in Eligible(d, keys, business, knowledge),
         NEW k, k = ClaimOfRow(d, q)
  PROVE  /\ FoundIn(d, k, business, knowledge)
         /\ k \in ClaimRecords /\ k.id = q.id /\ k.key \in keys
         /\ k.status = StatusAt(d, k.id, knowledge)
<1>1. PICK key \in keys, c \in StoredClaims(d) :
        /\ q = [id |-> c, status |-> StatusAt(d, c, knowledge)]
        /\ d.claims[c].key = key
        /\ d.claims[c].effective <= business
        /\ d.claims[c].asserted <= knowledge
        /\ d.claims[c].expires > business
        /\ StatusAt(d, c, knowledge) \in {"active", "disputed"}
  BY DEF Eligible, QueryClaims
<1> DEFINE status == StatusAt(d, c, knowledge)
<1>2. q.id = c /\ q.status = status
  BY <1>1
<1>3. k = [d.claims[c] EXCEPT !.status = status]
  BY <1>2 DEF ClaimOfRow
<1>4. status \in ClaimStatuses /\ status \in {"active", "disputed"}
  BY <1>1 DEF ClaimStatuses
<1>5. PICK row \in d.history[c] : row.at <= knowledge /\ row.status = status
  BY <1>1, StatusAtRow DEF Sound
<1> HIDE DEF status
<1>6. /\ k \in ClaimRecords /\ k.status = status
      /\ k.id = d.claims[c].id /\ k.key = d.claims[c].key
      /\ k.asserted = d.claims[c].asserted
      /\ k.effective = d.claims[c].effective
      /\ k.expires = d.claims[c].expires
  BY <1>3, <1>4, ClaimWithStatus DEF Sound
<1>7. k.id = c
  BY <1>6 DEF Sound, HistoryOK, StoredClaims
<1>8. d.claims[c].expires \in Int
  BY ImageFields DEF Sound, StoredClaims, ClaimRecords
<1>9. business < k.expires
  BY <1>1, <1>6, <1>8
<1>10. FoundIn(d, k, business, knowledge)
  BY <1>1, <1>3, <1>4, <1>5, <1>6, <1>7, <1>9 DEF FoundIn
<1> QED
  BY <1>1, <1>2, <1>6, <1>7, <1>10 DEF status

\* What was found in an image is in every later one.
LEMMA FoundStays ==
  ASSUME NEW d, NEW n, Follows(d, n), NEW k, NEW business, NEW knowledge,
         FoundIn(d, k, business, knowledge)
  PROVE  FoundIn(n, k, business, knowledge)
<1>1. k.id \in StoredClaims(n) /\ n.claims[k.id] = d.claims[k.id]
  BY DEF FoundIn, Follows, StoredClaims
<1>2. d.history[k.id] \subseteq n.history[k.id]
  BY DEF FoundIn, Follows
<1> QED
  BY <1>1, <1>2 DEF FoundIn

\* So is evidence.
LEMMA FromLedgerStays ==
  ASSUME NEW d, NEW n, Follows(d, n), NEW e, FromLedger(d, e)
  PROVE  FromLedger(n, e)
  BY DEF FromLedger, Follows, StoredEvidence

\* The evidence a claim found rests on is there.
LEMMA FoundIsSupported ==
  ASSUME NEW d, Sound(d), NEW k, NEW business, NEW knowledge,
         FoundIn(d, k, business, knowledge)
  PROVE  /\ k.evidence = d.claims[k.id].evidence
         /\ k.evidence \subseteq StoredEvidence(d)
         /\ d.claims[k.id].asserted <= knowledge
         /\ d.claims[k.id].effective <= business
         /\ business < d.claims[k.id].expires
<1>1. k.id \in StoredClaims(d) /\ k.status \in ClaimStatuses
      /\ k = [d.claims[k.id] EXCEPT !.status = k.status]
  BY DEF FoundIn, ClaimStatuses
<1>2. /\ k.evidence = d.claims[k.id].evidence
      /\ k.asserted = d.claims[k.id].asserted
      /\ k.effective = d.claims[k.id].effective
      /\ k.expires = d.claims[k.id].expires
  BY <1>1, ClaimWithStatus DEF Sound
<1>3. d.claims[k.id].evidence \subseteq StoredEvidence(d)
  BY <1>1 DEF Sound, SupportOK
<1> QED
  BY <1>2, <1>3 DEF FoundIn

\* Stored evidence is under its identifier, and its envelope is well formed.
LEMMA EnvelopeType ==
  ASSUME NEW d, Sound(d), NEW e \in StoredEvidence(d), Whole(d, e)
  PROVE  /\ Envelope(d.evidence[e]) \in Envelopes
         /\ Envelope(d.evidence[e]).id = e
         /\ FromLedger(d, Envelope(d.evidence[e]))
<1>1. PICK i \in Ingestions :
        /\ i.document.id = e
        /\ SameDocument(d.evidence[e], i.document)
  BY DEF Whole, DocumentOf
<1> DEFINE stored == d.evidence[e]
           document == i.document
<1>2. stored \in EvidenceRecords
  BY ImageFields DEF Sound, StoredEvidence
<1>3. document \in Documents /\ document \in EvidenceRecords
  BY LedgerAssumption
<1>4. [stored EXCEPT !.ingested = document.ingested] = document
  BY <1>1 DEF SameDocument
<1>5. document.id = e
  BY <1>1
<1> HIDE DEF stored, document
<1>6. stored.id = e /\ stored.content = document.content
  BY <1>2, <1>4, <1>5 DEF EvidenceRecords
<1>7. DataTime[stored.content] \in Int
  BY <1>3, <1>6, AnalysisAssumption
<1>8. (stored.content \in VerifiedContents) \in BOOLEAN
  OBVIOUS
<1>9. Envelope(stored) \in Envelopes /\ Envelope(stored).id = e
  BY <1>2, <1>6, <1>7, <1>8 DEF Envelope, Envelopes, EvidenceRecords
<1> QED
  BY <1>9 DEF FromLedger, stored

\* A claim found and the evidence it rests on are told by the audit trail.
LEMMA FoundIsTold ==
  ASSUME NEW d, Sound(d), AuditOK(d), NEW k, NEW business, NEW knowledge,
         FoundIn(d, k, business, knowledge)
  PROVE  Told(d.audit, k, knowledge)
<1>1. /\ \A c \in ClaimIds : d.history[c] = RowsTold(d.audit, c)
      /\ \A e \in EvidenceIds : Arrived(d, e) <=> ArrivalTold(d.audit, e)
  BY AuditTells
<1>2. PICK row \in d.history[k.id] :
        row.at <= knowledge /\ row.status = k.status
  BY DEF FoundIn
<1>3. row \in RowsTold(d.audit, k.id)
  BY <1>1, <1>2 DEF FoundIn, StoredClaims
<1>4. PICK v \in d.audit :
        /\ v.resource = k.id
        /\ v.action \in {"claim.created", "claim.status_changed"}
        /\ row = [at |-> v.at, status |-> v.outcome]
  BY <1>3 DEF RowsTold
<1>5. v.outcome = k.status /\ v.at <= knowledge
  BY <1>2, <1>4
<1>6. \A id \in k.evidence : ArrivalTold(d.audit, id)
  BY <1>1, FoundIsSupported DEF StoredEvidence, Arrived
<1> QED
  BY <1>4, <1>5, <1>6 DEF Told

-----------------------------------------------------------------------------
(* The steps of a call.                                                    *)

\* A later image holds what the call has read.
LEMMA CallStateStays ==
  ASSUME NEW d, NEW n, Follows(d, n), NEW c, CallState(d, c)
  PROVE  CallState(n, c)
<1>1. ASSUME CallOK(d, c)
      PROVE  CallOK(n, c)
  <2>1. \A k \in c.claims : FoundIn(n, k, c.business, c.knowledge)
    BY <1>1, FoundStays DEF CallOK, ReadOK
  <2>2. \A e \in c.evidence : FromLedger(d, e) => FromLedger(n, e)
    BY FromLedgerStays
  <2>3. c.snapshot \subseteq n.audit
    BY <1>1 DEF CallOK, ReadOK, Follows
  <2>4. ReadOK(n, c)
    BY <1>1, <2>1, <2>2, <2>3 DEF CallOK, ReadOK
  <2>5. SourcesOK(d, c) => SourcesOK(n, c)
    BY <2>2 DEF SourcesOK
  <2> QED
    BY <1>1, <2>4, <2>5 DEF CallOK
<1> QED
  BY <1>1 DEF CallState

\* A call that is under way in one of the stages after the first.
LEMMA StageIsCall ==
  ASSUME NEW d, NEW c, CallState(d, c), c # NoCall, c.stage # "ended"
  PROVE  CallOK(d, c)
  BY DEF CallState, Refused

\* The stages after the first leave the sources alone.
LEMMA SourcesFrame ==
  ASSUME NEW d, NEW c, CallOK(d, c), c.stage # "reading",
         NEW n \in CallRecords, n.stage # "reading",
         n.request = c.request, n.claims = c.claims, n.evidence = c.evidence,
         n.business = c.business, n.knowledge = c.knowledge,
         n.snapshot = c.snapshot
  PROVE  /\ ReadOK(d, n) /\ SourcesOK(d, n)
         /\ IF n.request.context = NoContext
            THEN n.stage # "reading" /\ n.claims = {}
            ELSE n.business \in Nat /\ n.knowledge \in Nat
  BY DEF CallOK, FormOK, ReadOK, SourcesOK

\* What the request asks for has its type.
LEMMA RequestFacts ==
  ASSUME NEW r \in Requests
  PROVE  /\ r.asOf \in Nat \union {Unset}
         /\ r.inline \in Seq(Envelopes)
         /\ r.context # NoContext =>
              /\ r.context.queries \in Seq(SUBSET Keys)
              /\ r.context.business \in Nat \union {Unset}
              /\ r.context.knowledge \in Nat \union {Unset}
              /\ r.context.max \in Nat \ {0}
  BY AnalysisAssumption DEF RequestRecords, Contexts, QueryLists

\* A call that has just come in.
LEMMA SanitizedType ==
  ASSUME NEW r \in Requests, clock \in Nat
  PROVE  /\ Sanitized(r) \in CallRecords
         /\ Sanitized(r).stage = "reading" /\ Sanitized(r).request = r
         /\ Sanitized(r).claims = {} /\ Sanitized(r).evidence = {}
         /\ Sanitized(r).snapshot = {} /\ Sanitized(r).response = Unset
         /\ Sanitized(r).status = Unset /\ Sanitized(r).at = clock
         /\ Sanitized(r).left = <<>>
<1>1. r.asOf \in Nat \union {Unset}
  BY RequestFacts
<1>2. 0 \in 0..(MaxAttempts - 1)
  BY AnalysisAssumption
<1>3. <<>> \in Seq(SUBSET Keys)
  OBVIOUS
<1> QED
  BY <1>1, <1>2, <1>3 DEF Sanitized, CallRecords

\* A request with complete sources is refused, or it is asked about.
LEMMA PromptedState ==
  ASSUME NEW d, NEW c \in CallRecords, c.response = Unset, c.status = Unset,
         IF c.request.context = NoContext
         THEN c.claims = {}
         ELSE c.business \in Nat /\ c.knowledge \in Nat,
         \A k \in c.claims : FoundIn(d, k, c.business, c.knowledge),
         \A e \in c.evidence :
           FromLedger(d, e) \/ e \in InlineEvidence(c.request),
         c.snapshot \subseteq d.audit,
         \A k \in c.claims :
           /\ Told(c.snapshot, k, c.knowledge)
           /\ k.evidence \subseteq IdsOf(c.evidence)
           /\ \A e \in c.evidence : e.id \in k.evidence => FromLedger(d, e),
         \A e, f \in c.evidence : e.id = f.id => e = f
  PROVE  CallState(d, Prompted(c))
<1> DEFINE n == [c EXCEPT !.stage = "asking"]
<1>1. CASE Prompted(c) = Refused(500) \/ Prompted(c) = Refused(400)
  BY <1>1 DEF CallState
<1>2. CASE Preflight(c) /\ Prompted(c) = n
  <2>1. /\ n \in CallRecords /\ n.stage = "asking" /\ n.request = c.request
        /\ n.claims = c.claims /\ n.evidence = c.evidence
        /\ n.business = c.business /\ n.knowledge = c.knowledge
        /\ n.snapshot = c.snapshot /\ n.response = Unset /\ n.status = Unset
    BY DEF CallRecords
  <2> HIDE DEF n
  <2>2. FormOK(n)
    BY <2>1 DEF FormOK
  <2>3. ReadOK(d, n)
    BY <2>1 DEF ReadOK
  <2>4. SourcesOK(d, n)
    BY <1>2, <2>1 DEF SourcesOK, Preflight
  <2> QED
    BY <1>2, <2>2, <2>3, <2>4 DEF CallState, CallOK
<1> QED
  BY <1>1, <1>2 DEF Prompted

\* A request comes in.
LEMMA ReceiveStep ==
  ASSUME NEW d, clock \in Nat, NEW r \in Requests, Receive(r)
  PROVE  CallState(d, call')
<1> DEFINE s == Sanitized(r)
<1>1. /\ s \in CallRecords /\ s.stage = "reading" /\ s.request = r
      /\ s.claims = {} /\ s.evidence = {} /\ s.snapshot = {}
      /\ s.response = Unset /\ s.status = Unset
  BY SanitizedType
<1>2. CASE r.claims
  BY <1>2 DEF Receive, CallState
<1>3. CASE ~r.claims /\ r.context = NoContext
  <2> DEFINE c == [s EXCEPT !.evidence = InlineEvidence(r)]
  <2>1. call' = Prompted(c)
    BY <1>3 DEF Receive
  <2> HIDE DEF s
  <2>2. InlineEvidence(r) \in SUBSET Envelopes
    BY InlineFacts
  <2>3. /\ c \in CallRecords /\ c.request = r /\ c.claims = {}
        /\ c.evidence = InlineEvidence(r) /\ c.snapshot = {}
        /\ c.response = Unset /\ c.status = Unset
    BY <1>1, <2>2 DEF CallRecords
  <2> HIDE DEF c
  <2>4. \A e, f \in c.evidence : e.id = f.id => e = f
    BY <2>3, InlineFacts
  <2> QED
    BY <1>3, <2>1, <2>3, <2>4, PromptedState
<1>4. CASE ~r.claims /\ r.context # NoContext
  <2> DEFINE business == BusinessTimeOf(r)
             knowledge == KnowledgeTimeOf(r)
             queries == r.context.queries
             c == [s EXCEPT !.left = queries, !.business = business,
                            !.knowledge = knowledge]
  <2>1. call' = c
    BY <1>4 DEF Receive
  <2>2. business \in Nat /\ knowledge \in Nat
    BY <1>4, RequestFacts DEF BusinessTimeOf, KnowledgeTimeOf
  <2>3. queries \in Seq(SUBSET Keys)
    BY <1>4, RequestFacts
  <2> HIDE DEF s, business, knowledge, queries
  <2>4. /\ c \in CallRecords /\ c.stage = "reading" /\ c.request = r
        /\ c.claims = {} /\ c.evidence = {} /\ c.snapshot = {}
        /\ c.response = Unset /\ c.status = Unset
        /\ c.business = business /\ c.knowledge = knowledge
    BY <1>1, <2>2, <2>3 DEF CallRecords
  <2> HIDE DEF c
  <2>5. FormOK(c)
    BY <1>4, <2>2, <2>4 DEF FormOK
  <2>6. ReadOK(d, c)
    BY <2>4 DEF ReadOK
  <2> QED
    BY <2>1, <2>4, <2>5, <2>6 DEF CallState, CallOK
<1> QED
  BY <1>2, <1>3, <1>4

\* A call that has read the ledger so far.
LEMMA ReadingFacts ==
  ASSUME NEW d, CallState(d, call), Reading
  PROVE  /\ call \in CallRecords /\ call.stage = "reading"
         /\ call.request \in Requests
         /\ call.request.context # NoContext
         /\ call.business \in Nat /\ call.knowledge \in Nat
         /\ call.response = Unset /\ call.status = Unset
         /\ \A k \in call.claims :
              FoundIn(d, k, call.business, call.knowledge)
         /\ \A e \in call.evidence : FromLedger(d, e)
         /\ call.snapshot \subseteq d.audit
<1>1. CallOK(d, call)
  BY StageIsCall DEF Reading
<1>2. call \in CallRecords /\ call.stage = "reading"
  BY <1>1 DEF CallOK, FormOK, Reading
<1>3. call.request \in Requests
  BY <1>2 DEF CallRecords
<1> QED
  BY <1>1, <1>2, <1>3 DEF CallOK, FormOK, ReadOK

\* One query of the ledger.
LEMMA ReadClaimsStep ==
  ASSUME Sound(db), CallState(db, call), ReadClaims
  PROVE  CallState(db, call')
<1> DEFINE rows == Eligible(db, Head(call.left), call.business, call.knowledge)
           found == {ClaimOfRow(db, q) : q \in rows}
<1>1. PICK s \in FirstRows(found, Remaining) :
        call' = [call EXCEPT !.left = Tail(call.left),
                             !.claims = call.claims \union s]
  BY ReadingFacts DEF ReadClaims, CallRecords
<1>2. \A q \in rows : /\ FoundIn(db, ClaimOfRow(db, q), call.business,
                                  call.knowledge)
                      /\ ClaimOfRow(db, q) \in ClaimRecords
  BY RowFound, ReadingFacts DEF ReadClaims
<1> HIDE DEF rows
<1>3. s \subseteq found
  BY <1>1 DEF FirstRows
<1>4. \A k \in s : /\ FoundIn(db, k, call.business, call.knowledge)
                   /\ k \in ClaimRecords
  BY <1>2, <1>3
<1> DEFINE claims == call.claims \union s
           left == Tail(call.left)
<1>5. call \in CallRecords /\ call.left # <<>>
  BY ReadingFacts DEF ReadClaims
<1>6. left \in Seq(SUBSET Keys)
  BY <1>5 DEF CallRecords
<1>7. claims \in SUBSET ClaimRecords
  BY <1>4, <1>5 DEF CallRecords
<1>8. \A k \in claims : FoundIn(db, k, call.business, call.knowledge)
  BY <1>4, ReadingFacts DEF ReadClaims
<1> HIDE DEF claims, left
<1>9. /\ call' \in CallRecords /\ call'.stage = call.stage
      /\ call'.request = call.request /\ call'.claims = claims
      /\ call'.evidence = call.evidence /\ call'.business = call.business
      /\ call'.knowledge = call.knowledge /\ call'.snapshot = call.snapshot
      /\ call'.response = call.response /\ call'.status = call.status
  BY <1>1, <1>5, <1>6, <1>7 DEF CallRecords, claims, left
<1>10. FormOK(call')
  BY <1>9, ReadingFacts DEF FormOK, ReadClaims
<1>11. ReadOK(db, call')
  BY <1>8, <1>9, ReadingFacts DEF ReadOK, ReadClaims
<1>12. call'.stage = "reading"
  BY <1>9, ReadingFacts DEF ReadClaims
<1> QED
  BY <1>10, <1>11, <1>12 DEF CallState, CallOK

\* The loop over the predicates ends early.
LEMMA BreakOffStep ==
  ASSUME NEW d, CallState(d, call), BreakOff
  PROVE  CallState(d, call')
<1>1. call \in CallRecords /\ call.stage = "reading"
  BY ReadingFacts DEF BreakOff
<1>2. <<>> \in Seq(SUBSET Keys)
  OBVIOUS
<1>3. /\ call' \in CallRecords /\ call'.stage = call.stage
      /\ call'.request = call.request /\ call'.claims = call.claims
      /\ call'.evidence = call.evidence /\ call'.business = call.business
      /\ call'.knowledge = call.knowledge /\ call'.snapshot = call.snapshot
      /\ call'.response = call.response /\ call'.status = call.status
  BY <1>1, <1>2 DEF CallRecords, BreakOff
<1>4. FormOK(call')
  BY <1>3, ReadingFacts DEF FormOK, BreakOff
<1>5. ReadOK(d, call')
  BY <1>3, ReadingFacts DEF ReadOK, BreakOff
<1> QED
  BY <1>1, <1>3, <1>4, <1>5 DEF CallState, CallOK

\* A piece of evidence is read.
LEMMA ReadEvidenceStep ==
  ASSUME Sound(db), \A e \in StoredEvidence(db) : Whole(db, e),
         CallState(db, call), ReadEvidence
  PROVE  CallState(db, call')
<1>1. PICK id \in Unread :
        call' = [call EXCEPT !.evidence =
                  call.evidence \union {Envelope(db.evidence[id])}]
  BY ReadingFacts DEF ReadEvidence, CallRecords
<1>2. PICK k \in call.claims : id \in k.evidence
  BY DEF Unread
<1>3. id \in StoredEvidence(db)
  BY <1>2, ReadingFacts, FoundIsSupported DEF ReadEvidence
<1> DEFINE new == Envelope(db.evidence[id])
           evidence == call.evidence \union {new}
<1>4. new \in Envelopes /\ FromLedger(db, new)
  BY <1>3, EnvelopeType
<1> HIDE DEF new
<1>5. call \in CallRecords /\ call.stage = "reading"
  BY ReadingFacts DEF ReadEvidence
<1>6. evidence \in SUBSET Envelopes
  BY <1>4, <1>5 DEF CallRecords
<1>7. \A e \in evidence : FromLedger(db, e)
  BY <1>4, ReadingFacts DEF ReadEvidence
<1> HIDE DEF evidence
<1>8. /\ call' \in CallRecords /\ call'.stage = call.stage
      /\ call'.request = call.request /\ call'.claims = call.claims
      /\ call'.evidence = evidence /\ call'.business = call.business
      /\ call'.knowledge = call.knowledge /\ call'.snapshot = call.snapshot
      /\ call'.response = call.response /\ call'.status = call.status
  BY <1>1, <1>5, <1>6 DEF CallRecords, evidence, new
<1>9. FormOK(call')
  BY <1>8, ReadingFacts DEF FormOK, ReadEvidence
<1>10. ReadOK(db, call')
  BY <1>7, <1>8, ReadingFacts DEF ReadOK, ReadEvidence
<1> QED
  BY <1>5, <1>8, <1>9, <1>10 DEF CallState, CallOK

\* The snapshot is taken, and the inline evidence added.
LEMMA TakeSnapshotStep ==
  ASSUME Sound(db), AuditOK(db), CallState(db, call), TakeSnapshot
  PROVE  CallState(db, call')
<1> DEFINE inline == InlineEvidence(call.request)
           evidence == call.evidence \union inline
           c == [call EXCEPT !.snapshot = db.audit, !.evidence = evidence]
<1>1. /\ Reading /\ Unread = {} /\ ~Collides(call)
      /\ call' = Prompted(c)
  BY ReadingFacts DEF TakeSnapshot, HasRead, CallRecords
<1>2. /\ call \in CallRecords /\ call.request \in Requests
      /\ call.request.context # NoContext
      /\ call.business \in Nat /\ call.knowledge \in Nat
      /\ call.response = Unset /\ call.status = Unset
      /\ \A k \in call.claims :
           FoundIn(db, k, call.business, call.knowledge)
      /\ \A e \in call.evidence : FromLedger(db, e)
  BY <1>1, ReadingFacts
<1>3. /\ inline \subseteq Envelopes
      /\ \A e, f \in inline : e.id = f.id => e = f
  BY <1>2, InlineFacts
<1>4. \A e \in call.evidence : \A f \in inline : e.id # f.id
  BY <1>1 DEF Collides, IdsOf
<1>5. \A k \in call.claims : k.evidence \subseteq IdsOf(call.evidence)
  BY <1>1 DEF Unread
<1> HIDE DEF inline
<1>6. \A e, f \in evidence : e.id = f.id => e = f
  BY <1>2, <1>3, <1>4 DEF FromLedger
<1>7. ASSUME NEW k \in call.claims
      PROVE  /\ Told(db.audit, k, call.knowledge)
             /\ k.evidence \subseteq IdsOf(evidence)
             /\ \A e \in evidence : e.id \in k.evidence => FromLedger(db, e)
  <2>1. Told(db.audit, k, call.knowledge)
    BY <1>2, FoundIsTold
  <2>2. k.evidence \subseteq IdsOf(evidence)
    BY <1>5 DEF IdsOf
  <2>3. ASSUME NEW e \in evidence, e.id \in k.evidence
        PROVE  FromLedger(db, e)
    <3>1. PICK f \in call.evidence : f.id = e.id
      BY <1>5, <2>3 DEF IdsOf
    <3> QED
      BY <1>2, <1>6, <3>1
  <2> QED
    BY <2>1, <2>2, <2>3
<1>8. \A e \in evidence : FromLedger(db, e) \/ e \in inline
  BY <1>2
<1>9. evidence \in SUBSET Envelopes /\ db.audit \in SUBSET AuditEvents
  BY <1>2, <1>3, ImageFields DEF CallRecords, Sound
<1> HIDE DEF evidence
<1>10. /\ c \in CallRecords /\ c.request = call.request
       /\ c.claims = call.claims /\ c.evidence = evidence
       /\ c.business = call.business /\ c.knowledge = call.knowledge
       /\ c.snapshot = db.audit /\ c.response = Unset /\ c.status = Unset
  BY <1>2, <1>9 DEF CallRecords
<1> HIDE DEF c
<1> QED
  BY <1>1, <1>2, <1>6, <1>7, <1>8, <1>10, PromptedState DEF inline

\* A call that waits for the model, or has its answer.
LEMMA AskedFacts ==
  ASSUME NEW d, CallState(d, call), call # NoCall,
         call.stage \in {"asking", "judged", "joining", "recorded"}
  PROVE  /\ CallOK(d, call) /\ FormOK(call) /\ call \in CallRecords
         /\ call.status = Unset
         /\ call.stage = "asking" => call.response = Unset
         /\ call.stage # "asking" =>
              /\ call.response \in Responses
              /\ \E answer \in Answers :
                   call.response = Judge(Prompt(call), answer)
<1>1. CallOK(d, call)
  BY StageIsCall
<1>2. FormOK(call) /\ call \in CallRecords
  BY <1>1 DEF CallOK, FormOK
<1>3. ASSUME NEW answer \in Answers
      PROVE  Judge(Prompt(call), answer) \in Responses
  BY <1>2, AnalysisAssumption, PromptType, JudgeType
<1> QED
  BY <1>1, <1>2, <1>3 DEF FormOK

\* An attempt that fails is followed by another one, or by a refusal.
LEMMA AttemptStep ==
  ASSUME NEW d, CallState(d, call), AttemptFails
  PROVE  CallState(d, call')
<1>1. CASE call' = Refused(502)
  BY <1>1 DEF CallState
<1>2. CASE /\ call.attempt + 1 < MaxAttempts
           /\ call' = [call EXCEPT !.attempt = call.attempt + 1]
  <2>1. /\ CallOK(d, call) /\ call \in CallRecords /\ call.stage = "asking"
        /\ call.response = Unset /\ call.status = Unset
    BY AskedFacts DEF AttemptFails, Asking
  <2>2. call.attempt + 1 \in 0..(MaxAttempts - 1)
    BY <1>2, <2>1, AnalysisAssumption DEF CallRecords
  <2>3. /\ call' \in CallRecords /\ call'.stage = "asking"
        /\ call'.request = call.request /\ call'.claims = call.claims
        /\ call'.evidence = call.evidence /\ call'.business = call.business
        /\ call'.knowledge = call.knowledge /\ call'.snapshot = call.snapshot
        /\ call'.response = Unset /\ call'.status = Unset
    BY <1>2, <2>1, <2>2 DEF CallRecords
  <2>4. /\ ReadOK(d, call') /\ SourcesOK(d, call')
        /\ IF call'.request.context = NoContext
           THEN call'.stage # "reading" /\ call'.claims = {}
           ELSE call'.business \in Nat /\ call'.knowledge \in Nat
    BY <2>1, <2>3, SourcesFrame
  <2> QED
    BY <2>3, <2>4 DEF CallState, CallOK, FormOK
<1> QED
  <2>1. call \in CallRecords
    BY AskedFacts DEF AttemptFails, Asking
  <2> QED
    BY <1>1, <1>2, <2>1 DEF AttemptFails, CallRecords

\* The answer of the model is judged.
LEMMA AnswerStep ==
  ASSUME NEW d, CallState(d, call), NEW answer \in Answers, AnswerComes(answer)
  PROVE  CallState(d, call')
<1> DEFINE response == Judge(Prompt(call), answer)
<1>1. /\ CallOK(d, call) /\ call \in CallRecords /\ call.stage = "asking"
      /\ call.response = Unset /\ call.status = Unset
  BY AskedFacts DEF AnswerComes, Asking
<1>2. response \in Responses
  BY <1>1, AnalysisAssumption, PromptType, JudgeType
<1>3. 0 \in 0..(MaxAttempts - 1)
  BY AnalysisAssumption
<1>4. call' = [call EXCEPT !.stage = "judged", !.attempt = 0,
                           !.response = response]
  BY DEF AnswerComes
<1> HIDE DEF response
<1>5. /\ call' \in CallRecords /\ call'.stage = "judged"
      /\ call'.request = call.request /\ call'.claims = call.claims
      /\ call'.evidence = call.evidence /\ call'.business = call.business
      /\ call'.knowledge = call.knowledge /\ call'.snapshot = call.snapshot
      /\ call'.response = response /\ call'.status = Unset
  BY <1>1, <1>2, <1>3, <1>4 DEF CallRecords
<1>6. /\ ReadOK(d, call') /\ SourcesOK(d, call')
      /\ IF call'.request.context = NoContext
         THEN call'.stage # "reading" /\ call'.claims = {}
         ELSE call'.business \in Nat /\ call'.knowledge \in Nat
  BY <1>1, <1>5, SourcesFrame
<1>7. call'.response = Judge(Prompt(call'), answer)
  BY <1>5, PromptFrame DEF response
<1> QED
  BY <1>5, <1>6, <1>7 DEF CallState, CallOK, FormOK

\* The call goes on with its response: it is recorded, or delivered.
LEMMA ResponseStep ==
  ASSUME NEW d, CallState(d, call), call # NoCall,
         \/ /\ call.stage = "judged"
            /\ call' = [call EXCEPT !.stage = "joining"]
         \/ /\ call.stage \in {"judged", "joining"}
            /\ call' = [call EXCEPT !.stage = "recorded"]
         \/ /\ call.stage = "recorded"
            /\ call' = [call EXCEPT !.stage = "ended", !.status = 200]
  PROVE  /\ CallState(d, call')
         /\ call.response \in Responses
         /\ Completion(call') = Completion(call)
<1>1. /\ CallOK(d, call) /\ call \in CallRecords /\ call.stage # "reading"
      /\ call.status = Unset /\ call.response \in Responses
  BY AskedFacts
<1>2. PICK answer \in Answers : call.response = Judge(Prompt(call), answer)
  BY AskedFacts
<1>3. /\ call' \in CallRecords
      /\ call'.stage \in {"joining", "recorded", "ended"}
      /\ call'.request = call.request /\ call'.claims = call.claims
      /\ call'.evidence = call.evidence /\ call'.business = call.business
      /\ call'.knowledge = call.knowledge /\ call'.snapshot = call.snapshot
      /\ call'.response = call.response
      /\ call'.status = (IF call'.stage = "ended" THEN 200 ELSE Unset)
  <2>1. CASE \/ call' = [call EXCEPT !.stage = "recorded"]
             \/ call' = [call EXCEPT !.stage = "joining"]
    BY <1>1, <2>1 DEF CallRecords
  <2>2. CASE call' = [call EXCEPT !.stage = "ended", !.status = 200]
    <3>1. call' = [[call EXCEPT !.stage = "ended"] EXCEPT !.status = 200]
      BY <2>2
    <3> DEFINE c == [call EXCEPT !.stage = "ended"]
    <3>2. /\ c \in CallRecords /\ c.stage = "ended"
          /\ c.request = call.request /\ c.claims = call.claims
          /\ c.evidence = call.evidence /\ c.business = call.business
          /\ c.knowledge = call.knowledge /\ c.snapshot = call.snapshot
          /\ c.response = call.response
      BY <1>1 DEF CallRecords
    <3> HIDE DEF c
    <3>3. call' = [c EXCEPT !.status = 200]
      BY <3>1 DEF c
    <3>4. call'.status = 200 /\ call'.stage = "ended"
      BY <3>2, <3>3 DEF CallRecords
    <3>5. call' \in CallRecords
      BY <3>2, <3>3 DEF CallRecords
    <3>6. /\ call'.request = call.request /\ call'.claims = call.claims
          /\ call'.evidence = call.evidence /\ call'.business = call.business
          /\ call'.knowledge = call.knowledge /\ call'.snapshot = call.snapshot
          /\ call'.response = call.response
      BY <3>2, <3>3 DEF CallRecords
    <3> QED
      BY <3>4, <3>5, <3>6
  <2> QED
    BY <2>1, <2>2
<1>4. /\ ReadOK(d, call') /\ SourcesOK(d, call')
      /\ IF call'.request.context = NoContext
         THEN call'.stage # "reading" /\ call'.claims = {}
         ELSE call'.business \in Nat /\ call'.knowledge \in Nat
  BY <1>1, <1>3, SourcesFrame
<1>5. call'.response = Judge(Prompt(call'), answer)
  BY <1>2, <1>3, PromptFrame
<1>6. Completion(call') = Completion(call)
  BY <1>3 DEF Completion
<1> QED
  BY <1>1, <1>3, <1>4, <1>5, <1>6 DEF CallState, CallOK, FormOK

\* The event a completion leaves.
LEMMA CompletionType ==
  ASSUME NEW d, CallState(d, call), Judged \/ Joining
  PROVE  /\ Completion(call).claims \subseteq ClaimIds
         /\ Completion(call).score \in 0..100
         /\ Completion(call).snapshot \subseteq d.audit
<1>1. CallOK(d, call) /\ call.response \in Responses
  BY AskedFacts DEF Judged, Joining
<1>2. call.snapshot \subseteq d.audit
  BY <1>1 DEF CallOK, ReadOK
<1>3. call.response.answer \in AnswerRecords /\ call.response.score \in 0..100
  BY <1>1 DEF Responses
<1> QED
  BY <1>2, <1>3 DEF Completion, AnswerRecords

-----------------------------------------------------------------------------
(* The invariant.                                                          *)

\* The completion events have their types and a snapshot of the image d.
EventsOK(d) ==
  \A v \in Inserted :
    /\ v.claims \subseteq ClaimIds
    /\ v.score \in 0..100
    /\ v.snapshot \subseteq d.audit

\* One transaction is under way at a time, and an event not committed is in it.
OneTransaction ==
  /\ transaction \in {"none", "call", "left"}
  /\ job # Idle => transaction = "none"
  /\ (job = Idle /\ transaction = "none") => joined = {}

\* What has gone out, or is about to, has been inserted.
DeliveriesInserted ==
  /\ delivered \subseteq Inserted
  /\ (call # NoCall /\ call.stage = "recorded") => Completion(call) \in Inserted

CallsInv ==
  /\ CallState(disk, call)
  /\ EventsOK(disk)
  /\ OneTransaction
  /\ DeliveriesInserted

\* The steps of a call, but for those that write or deliver.
SilentStep ==
  \/ ReadClaims \/ BreakOff \/ ReadEvidence \/ RefuseCollision \/ TakeSnapshot
  \/ AttemptFails \/ AnswerEmpty \/ AnswerUnfit
  \/ \E answer \in Answers : AnswerComes(answer)
  \/ FindTransaction \/ RecordFails

\* The INSERT of the event, in its own transaction or in another's.
InsertStep == RecordAnalysis \/ InsertJoined \/ InsertLate

LEMMA CallStepKinds ==
  ASSUME CallStep
  PROVE  SilentStep \/ InsertStep \/ Deliver
BY DEF CallStep, SilentStep, InsertStep

\* They leave the ledger and the events alone.
LEMMA SilentFrame ==
  ASSUME SilentStep
  PROVE  UNCHANGED <<db, disk, clock, job, transaction, joined, completed,
                     delivered, lost>>
BY DEF SilentStep, ReadClaims, BreakOff, ReadEvidence, RefuseCollision,
       TakeSnapshot, AttemptFails, AnswerEmpty, AnswerUnfit, AnswerComes,
       FindTransaction, RecordFails, vars, eventVars

\* The event is in the trail, or in a transaction that is open.
LEMMA InsertFrame ==
  ASSUME OneTransaction, InsertStep
  PROVE  /\ UNCHANGED <<db, disk, clock, job, delivered, lost>>
         /\ call # NoCall /\ call.stage \in {"judged", "joining"}
         /\ Judged \/ Joining
         /\ call' = [call EXCEPT !.stage = "recorded"]
         /\ Inserted' = Inserted \union {Completion(call)}
         /\ completed \subseteq completed'
         /\ OneTransaction'
<1>1. CASE RecordAnalysis
  BY <1>1 DEF RecordAnalysis, Judged, vars, Inserted, OneTransaction
<1>2. CASE InsertJoined
  BY <1>2 DEF InsertJoined, Insert, Joining, LockFree, vars, Inserted,
              OneTransaction
<1>3. CASE InsertLate
  BY <1>3 DEF InsertLate, Insert, Joining, LockFree, vars, Inserted,
              OneTransaction
<1> QED
  BY <1>1, <1>2, <1>3 DEF InsertStep

LEMMA DeliverFrame ==
  ASSUME Deliver
  PROVE  /\ UNCHANGED <<db, disk, clock, job, transaction, joined, completed,
                        lost>>
         /\ call # NoCall /\ call.stage = "recorded"
         /\ call' = [call EXCEPT !.stage = "ended", !.status = 200]
         /\ delivered' = delivered \union {Completion(call)}
BY DEF Deliver, vars

\* A request that comes in leaves them alone, too.
LEMMA ReceiveFrame ==
  ASSUME \E r \in Requests : Receive(r)
  PROVE  UNCHANGED <<db, disk, clock, job, transaction, joined, completed,
                     delivered, lost>>
BY DEF Receive, vars, eventVars

\* The steps of the other threads.
OtherStep ==
  \/ CommitIngestion \/ RollBackIngestion \/ BeginCall \/ CommitCall
  \/ RollBackCall \/ LeaveOpen \/ LedgerStep \/ Die

LEMMA AnalysisKinds ==
  ASSUME [NextAnalysis]_analysisVars
  PROVE  \/ \E r \in Requests : Receive(r)
         \/ CallStep
         \/ OtherStep
         \/ UNCHANGED <<db, disk, clock, job, call, transaction, joined,
                        completed, delivered, lost>>
BY DEF NextAnalysis, OtherStep, analysisVars, callVars, eventVars

\* What the other threads do with the events: a transaction that is committed
\* keeps those in it, and only one that commits nothing loses them.
LEMMA OtherEvents ==
  ASSUME OneTransaction, OtherStep
  PROVE  /\ call' = call \/ call' = NoCall
         /\ delivered' = delivered
         /\ Inserted' = Inserted
         /\ completed \subseteq completed'
         /\ OneTransaction'
         /\ lost' # lost =>
              /\ lost' = lost \union joined
              /\ UNCHANGED <<disk, completed>>
              /\ job' = Idle /\ transaction' = "none"
<1>1. CASE CommitIngestion
  BY <1>1 DEF CommitIngestion, FinishIngestion, KeepJoined, Inserted,
              OneTransaction
<1>2. CASE RollBackIngestion
  BY <1>2 DEF RollBackIngestion, RejectIngestion, Crash, LoseJoined, Inserted,
              OneTransaction
<1>3. CASE BeginCall \/ LeaveOpen
  BY <1>3 DEF BeginCall, LeaveOpen, vars, Inserted, OneTransaction
<1>4. CASE CommitCall
  <2>1. job' = job
    BY <1>4 DEF CommitCall, PostClaim, ResolveContradiction,
                DismissContradiction, Transact, vars
  <2> QED
    BY <1>4, <2>1 DEF CommitCall, KeepJoined, Inserted, OneTransaction
<1>5. CASE RollBackCall
  BY <1>5 DEF RollBackCall, LoseJoined, vars, Inserted, OneTransaction
<1>6. CASE LedgerStep
  <2>1. /\ UNCHANGED <<disk, call, transaction, joined, completed, delivered,
                       lost>>
        /\ job # Idle => job' # Idle
        /\ transaction # "none" => job' = job
    BY <1>6 DEF LedgerStep, callVars, eventVars
  <2> QED
    BY <2>1 DEF Inserted, OneTransaction
<1>7. CASE Die
  BY <1>7 DEF Die, Crash, LoseJoined, Inserted, OneTransaction
<1> QED
  BY <1>1, <1>2, <1>3, <1>4, <1>5, <1>6, <1>7 DEF OtherStep

\* Each step is one of the ledger, or leaves it alone.
LEMMA StepOfLedger ==
  ASSUME [NextAnalysis]_analysisVars
  PROVE  [Next]_vars
<1>1. CASE \E r \in Requests : Receive(r)
  BY <1>1, ReceiveFrame DEF vars
<1>2. CASE CallStep
  <2>1. CASE SilentStep
    BY <2>1, SilentFrame DEF vars
  <2>2. CASE InsertStep
    BY <2>2 DEF InsertStep, RecordAnalysis, InsertJoined, InsertLate, Insert
  <2>3. CASE Deliver
    BY <2>3, DeliverFrame DEF vars
  <2> QED
    BY <1>2, <2>1, <2>2, <2>3, CallStepKinds
<1>3. CASE CommitIngestion \/ RollBackIngestion \/ LedgerStep \/ Die
  BY <1>3 DEF CommitIngestion, RollBackIngestion, LedgerStep, Die, Next
<1>4. CASE CommitCall
  BY <1>4 DEF CommitCall, Next
<1>5. CASE BeginCall \/ RollBackCall \/ LeaveOpen
  BY <1>5 DEF BeginCall, RollBackCall, LeaveOpen
<1>6. CASE UNCHANGED <<db, disk, clock, job, call, transaction, joined,
                       completed, delivered, lost>>
  BY <1>6 DEF vars
<1> QED
  BY <1>1, <1>2, <1>3, <1>4, <1>5, <1>6, AnalysisKinds DEF OtherStep

\* The steps of a call keep it in a good state.
LEMMA CallStepState ==
  ASSUME Inv, TablesInv, CallsInv, CallStep
  PROVE  CallState(disk, call')
<1>1. /\ Sound(db) /\ AuditOK(disk)
      /\ job = Idle => db = disk
      /\ \A e \in StoredEvidence(disk) : Whole(disk, e)
  BY DEF Inv, TablesInv, Accounted, WholeInv
<1>2. CallState(disk, call) /\ OneTransaction
  BY DEF CallsInv
<1>3. CASE ReadClaims
  <2>1. db = disk
    BY <1>1, <1>3 DEF ReadClaims, LockFree
  <2>2. CallState(db, call')
    BY <1>1, <1>2, <1>3, <2>1, ReadClaimsStep
  <2> QED
    BY <2>1, <2>2
<1>4. CASE BreakOff
  BY <1>2, <1>4, BreakOffStep
<1>5. CASE ReadEvidence
  <2>1. db = disk
    BY <1>1, <1>5 DEF ReadEvidence, LockFree
  <2>2. CallState(db, call')
    BY <1>1, <1>2, <1>5, <2>1, ReadEvidenceStep
  <2> QED
    BY <2>1, <2>2
<1>6. CASE TakeSnapshot
  <2>1. db = disk
    BY <1>1, <1>6 DEF TakeSnapshot, LockFree
  <2>2. CallState(db, call')
    BY <1>1, <1>2, <1>6, <2>1, TakeSnapshotStep
  <2> QED
    BY <2>1, <2>2
<1>7. CASE RefuseCollision \/ AnswerEmpty \/ AnswerUnfit \/ RecordFails
  BY <1>7 DEF RefuseCollision, AnswerEmpty, AnswerUnfit, RecordFails, CallState
<1>8. CASE AttemptFails
  BY <1>2, <1>8, AttemptStep
<1>9. CASE \E answer \in Answers : AnswerComes(answer)
  BY <1>2, <1>9, AnswerStep
<1>10. CASE FindTransaction
  BY <1>2, <1>10, ResponseStep DEF FindTransaction, Judged
<1>11. CASE InsertStep
  BY <1>2, <1>11, InsertFrame, ResponseStep
<1>12. CASE Deliver
  BY <1>2, <1>12, ResponseStep DEF Deliver
<1> QED
  BY <1>3, <1>4, <1>5, <1>6, <1>7, <1>8, <1>9, <1>10, <1>11, <1>12,
     CallStepKinds DEF SilentStep

\* A call that has not written yet is not in the stage that follows.
LEMMA NotRecordedYet ==
  ASSUME NEW d, CallState(d, call),
         (clock \in Nat /\ \E r \in Requests : Receive(r)) \/ SilentStep
  PROVE  ~(call' # NoCall /\ call'.stage = "recorded")
<1>1. ASSUME NEW status, call' = Refused(status)
      PROVE  call'.stage # "recorded"
  BY <1>1 DEF Refused
<1>2. ASSUME NEW c, "stage" \in DOMAIN c, call' = Prompted(c)
      PROVE  call'.stage # "recorded"
  <2>1. CASE call' = [c EXCEPT !.stage = "asking"]
    BY <1>2, <2>1
  <2>2. CASE call' = Refused(400) \/ call' = Refused(500)
    BY <1>1, <2>2
  <2> QED
    BY <1>2, <2>1, <2>2 DEF Prompted
<1>3. CASE clock \in Nat /\ \E r \in Requests : Receive(r)
  <2>1. PICK r \in Requests : Receive(r)
    BY <1>3
  <2> DEFINE s == Sanitized(r)
             inline == InlineEvidence(r)
  <2>2. s \in CallRecords /\ s.stage = "reading"
    BY <1>3, SanitizedType
  <2>3. CASE call' = Refused(400)
    BY <1>1, <2>3
  <2>4. CASE call' = Prompted([s EXCEPT !.evidence = inline])
    <3> HIDE DEF s, inline
    <3>1. "stage" \in DOMAIN [s EXCEPT !.evidence = inline]
      BY <2>2 DEF CallRecords
    <3> QED
      BY <1>2, <2>4, <3>1
  <2>5. CASE call' = [s EXCEPT !.left = r.context.queries,
                               !.business = BusinessTimeOf(r),
                               !.knowledge = KnowledgeTimeOf(r)]
    <3> HIDE DEF s
    <3>1. call'.stage = "reading"
      BY <2>2, <2>5 DEF CallRecords
    <3> QED
      BY <3>1
  <2> QED
    BY <2>1, <2>3, <2>4, <2>5 DEF Receive
<1>4. CASE ReadClaims \/ BreakOff \/ ReadEvidence
  <2>1. call \in CallRecords /\ call.stage = "reading"
    BY <1>4, ReadingFacts DEF ReadClaims, BreakOff, ReadEvidence
  <2>2. call'.stage = "reading"
    BY <1>4, <2>1 DEF ReadClaims, BreakOff, ReadEvidence, CallRecords
  <2> QED
    BY <2>2
<1>5. CASE TakeSnapshot
  <2> DEFINE evidence == call.evidence \union InlineEvidence(call.request)
             c == [call EXCEPT !.snapshot = db.audit, !.evidence = evidence]
  <2>1. call \in CallRecords
    BY <1>5, ReadingFacts DEF TakeSnapshot, HasRead
  <2>2. call' = Prompted(c)
    BY <1>5, <2>1 DEF TakeSnapshot, CallRecords
  <2> HIDE DEF evidence
  <2>3. "stage" \in DOMAIN c
    BY <2>1 DEF CallRecords
  <2> HIDE DEF c
  <2> QED
    BY <1>2, <2>2, <2>3
<1>6. CASE RefuseCollision \/ AnswerEmpty \/ AnswerUnfit \/ RecordFails
  BY <1>1, <1>6 DEF RefuseCollision, AnswerEmpty, AnswerUnfit, RecordFails
<1>7. CASE AttemptFails
  <2>1. call \in CallRecords /\ call.stage = "asking"
    BY <1>7, AskedFacts DEF AttemptFails, Asking
  <2>2. call'.stage = "asking" \/ call' = Refused(502)
    BY <1>7, <2>1 DEF AttemptFails, CallRecords
  <2> QED
    BY <1>1, <2>2
<1>8. CASE \E answer \in Answers : AnswerComes(answer)
  <2>1. call \in CallRecords
    BY <1>8, AskedFacts DEF AnswerComes, Asking
  <2>2. call'.stage = "judged"
    BY <1>8, <2>1 DEF AnswerComes, CallRecords
  <2> QED
    BY <2>2
<1>9. CASE FindTransaction
  <2>1. call \in CallRecords
    BY <1>9, AskedFacts DEF FindTransaction, Judged
  <2>2. call'.stage = "joining"
    BY <1>9, <2>1 DEF FindTransaction, CallRecords
  <2> QED
    BY <2>2
<1> QED
  BY <1>3, <1>4, <1>5, <1>6, <1>7, <1>8, <1>9 DEF SilentStep

\* Every step keeps the invariant.
LEMMA CallsStep ==
  ASSUME Inv, TablesInv, CallsInv, [NextAnalysis]_analysisVars
  PROVE  CallsInv'
<1>1. Follows(disk, disk')
  BY StepOfLedger, InvStep
<1>2. CallState(disk', call)
  BY <1>1, CallStateStays DEF CallsInv
<1>3. /\ EventsOK(disk') /\ OneTransaction /\ CallState(disk, call)
      /\ clock \in Nat
  BY <1>1, LedgerAssumption DEF CallsInv, EventsOK, Follows, Inv
<1>4. CASE \E r \in Requests : Receive(r)
  <2>1. PICK r \in Requests : Receive(r)
    BY <1>4
  <2>2. UNCHANGED <<disk, job, transaction, joined, completed, delivered, lost>>
    BY <1>4, ReceiveFrame
  <2>3. CallState(disk, call')
    BY <1>3, <2>1, ReceiveStep
  <2>4. ~(call' # NoCall /\ call'.stage = "recorded")
    BY <1>3, <1>4, NotRecordedYet
  <2> QED
    BY <2>2, <2>3, <2>4
       DEF CallsInv, EventsOK, OneTransaction, DeliveriesInserted, Inserted
<1>5. CASE SilentStep
  <2>1. UNCHANGED <<disk, job, transaction, joined, completed, delivered, lost>>
    BY <1>5, SilentFrame
  <2>2. CallState(disk, call')
    BY <1>5, CallStepState DEF SilentStep, CallStep
  <2>3. ~(call' # NoCall /\ call'.stage = "recorded")
    BY <1>3, <1>5, NotRecordedYet
  <2> QED
    BY <2>1, <2>2, <2>3
       DEF CallsInv, EventsOK, OneTransaction, DeliveriesInserted, Inserted
<1>6. CASE InsertStep
  <2>1. /\ UNCHANGED <<disk, delivered>>
        /\ call # NoCall /\ call.stage \in {"judged", "joining"}
        /\ Judged \/ Joining
        /\ call' = [call EXCEPT !.stage = "recorded"]
        /\ Inserted' = Inserted \union {Completion(call)}
        /\ OneTransaction'
    BY <1>3, <1>6, InsertFrame
  <2>2. CallState(disk, call') /\ Completion(call') = Completion(call)
    BY <1>3, <2>1, ResponseStep
  <2>3. /\ Completion(call).claims \subseteq ClaimIds
        /\ Completion(call).score \in 0..100
        /\ Completion(call).snapshot \subseteq disk.audit
    BY <1>3, <2>1, CompletionType
  <2>4. EventsOK(disk)'
    BY <2>1, <2>3 DEF CallsInv, EventsOK
  <2>5. DeliveriesInserted'
    <3>1. Completion(call)' = Completion(call')
      BY DEF Completion
    <3> QED
      BY <2>1, <2>2, <3>1 DEF CallsInv, DeliveriesInserted
  <2> QED
    BY <2>1, <2>2, <2>4, <2>5 DEF CallsInv
<1>7. CASE Deliver
  <2>1. /\ UNCHANGED <<disk, job, transaction, joined, completed, lost>>
        /\ call # NoCall /\ call.stage = "recorded"
        /\ call' = [call EXCEPT !.stage = "ended", !.status = 200]
        /\ delivered' = delivered \union {Completion(call)}
    BY <1>7, DeliverFrame
  <2>2. CallState(disk, call') /\ call \in CallRecords
    BY <1>3, <2>1, ResponseStep, AskedFacts
  <2>3. call'.stage = "ended"
    BY <2>1, <2>2 DEF CallRecords
  <2>4. Inserted' = Inserted /\ OneTransaction'
    BY <1>3, <2>1 DEF Inserted, OneTransaction
  <2>5. EventsOK(disk)'
    BY <2>1, <2>4 DEF CallsInv, EventsOK
  <2>6. DeliveriesInserted'
    BY <2>1, <2>3, <2>4 DEF CallsInv, DeliveriesInserted
  <2> QED
    BY <2>1, <2>2, <2>4, <2>5, <2>6 DEF CallsInv
<1>8. CASE OtherStep
  <2>1. /\ call' = call \/ call' = NoCall
        /\ delivered' = delivered
        /\ Inserted' = Inserted
        /\ OneTransaction'
    BY <1>3, <1>8, OtherEvents
  <2>2. CallState(disk', call')
    BY <1>2, <2>1 DEF CallState
  <2>3. EventsOK(disk)'
    BY <1>3, <2>1 DEF EventsOK
  <2>4. DeliveriesInserted'
    <3>1. Completion(call)' = Completion(call')
      BY DEF Completion
    <3> QED
      BY <2>1, <3>1 DEF CallsInv, DeliveriesInserted
  <2> QED
    BY <2>1, <2>2, <2>3, <2>4 DEF CallsInv
<1>9. CASE UNCHANGED <<db, disk, clock, job, call, transaction, joined,
                       completed, delivered, lost>>
  <2>1. Inserted' = Inserted /\ OneTransaction'
    BY <1>3, <1>9 DEF Inserted, OneTransaction
  <2>2. EventsOK(disk)'
    BY <1>9, <2>1 DEF CallsInv, EventsOK
  <2>3. DeliveriesInserted'
    BY <1>9, <2>1 DEF CallsInv, DeliveriesInserted, Completion
  <2> QED
    BY <1>2, <1>9, <2>1, <2>2, <2>3 DEF CallsInv
<1> QED
  BY <1>4, <1>5, <1>6, <1>7, <1>8, <1>9, AnalysisKinds, CallStepKinds

\* A request in hand has all that was proved of a call that goes well.
LEMMA InHandFacts ==
  ASSUME NEW d, CallState(d, call), InHand
  PROVE  /\ CallOK(d, call) /\ call \in CallRecords
         /\ call.stage # "reading" => SourcesOK(d, call)
         /\ \A k \in call.claims : FoundIn(d, k, call.business, call.knowledge)
  BY DEF CallState, InHand, Refused, CallOK, FormOK, ReadOK

\* The response is what the gate makes of one of the answers.
LEMMA AnsweredFacts ==
  ASSUME NEW d, CallState(d, call), Answered
  PROVE  /\ CallOK(d, call) /\ call \in CallRecords
         /\ call.stage # "reading"
         /\ Prompt(call) \in Prompts
         /\ \E raw \in AnswerRecords : call.response = Judge(Prompt(call), raw)
<1>1. CallOK(d, call) /\ call \in CallRecords
  BY InHandFacts DEF Answered
<1>2. /\ call.stage # "reading"
      /\ \E raw \in Answers : call.response = Judge(Prompt(call), raw)
  BY <1>1 DEF CallOK, FormOK, Answered
<1> QED
  BY <1>1, <1>2, AnalysisAssumption, PromptType

\* A released answer was let pass by the gate.
LEMMA ReleasedFacts ==
  ASSUME NEW d, CallState(d, call), Released
  PROVE  /\ Releasable(Prompt(call), call.response.answer)
         /\ call.response.answer \in AnswerRecords
<1>1. Prompt(call) \in Prompts
  BY AnsweredFacts DEF Released
<1>2. PICK raw \in AnswerRecords : call.response = Judge(Prompt(call), raw)
  BY AnsweredFacts DEF Released
<1>3. call.response \in Responses
  BY <1>1, <1>2, JudgeType
<1>4. Releasable(Prompt(call), call.response.answer)
  BY <1>2, PassedIsReleasable DEF Released
<1> QED
  BY <1>3, <1>4 DEF Responses

\* The types of the call and of the events.
LEMMA CallsTyped ==
  ASSUME CallsInv
  PROVE  AnalysisTypeOK
<1>1. ASSUME InHand
      PROVE  /\ call \in CallRecords
             /\ call.status = (IF call.stage = "ended" THEN 200 ELSE Unset)
  BY <1>1, InHandFacts DEF CallsInv, CallOK, FormOK
<1>2. ASSUME call # NoCall, ~InHand
      PROVE  call.status \in {400, 409, 500, 502}
  <2>1. CASE \E status \in {400, 409, 500, 502} : call = Refused(status)
    BY <2>1 DEF Refused
  <2>2. CASE CallOK(disk, call)
    BY <1>2, <2>2 DEF CallOK, FormOK, InHand
  <2> QED
    BY <1>2, <2>1, <2>2 DEF CallsInv, CallState
<1>3. InHand =>
        /\ call.stage \in
             {"reading", "asking", "judged", "joining", "recorded", "ended"}
        /\ call.request \in Requests
        /\ call.left \in Seq(SUBSET Keys)
        /\ \A c \in call.claims : c \in ClaimRecords
        /\ \A e \in call.evidence : e \in Envelopes
        /\ call.snapshot \subseteq AuditEvents
        /\ call.attempt \in 0..(MaxAttempts - 1)
        /\ call.response = Unset \/ call.response \in Responses
  BY <1>1 DEF CallRecords
<1> QED
  BY <1>1, <1>2, <1>3
     DEF AnalysisTypeOK, CallsInv, EventsOK, OneTransaction, DeliveriesInserted

\* The confidence is capped.
LEMMA CallsCapped ==
  ASSUME CallsInv
  PROVE  CapsHold
<1> SUFFICES ASSUME Answered
             PROVE  LET prompt == Prompt(call)
                        answer == call.response.answer
                    IN  /\ \A x \in SourceScores(prompt, answer) :
                             answer.confidence <= x + SourceMargin
                        /\ CitesDispute(prompt, answer) =>
                             answer.confidence <= DisputeCap
                        /\ UnverifiedMarket(prompt, answer) =>
                             answer.confidence <= MarketCap
                        /\ "confidence" \notin call.response.blocked
  BY DEF CapsHold
<1>1. Prompt(call) \in Prompts
  BY AnsweredFacts DEF CallsInv
<1>2. PICK raw \in AnswerRecords : call.response = Judge(Prompt(call), raw)
  BY AnsweredFacts DEF CallsInv
<1>3. /\ call.response.answer = ApplyCaps(Prompt(call), raw)
      /\ call.response.blocked = Blocked(Prompt(call), call.response.answer)
  BY <1>2 DEF Judge
<1> QED
  BY <1>1, <1>3, ApplyCapsFields, ApplyCapsCaps, CappedIsNotBlocked

\* The actions of a released answer are bounded.
LEMMA CallsActions ==
  ASSUME CallsInv
  PROVE  ReleasedActionsBounded
<1> SUFFICES ASSUME Released, NEW x \in call.response.answer.actions,
                    x.transactional
             PROVE  /\ x.approval /\ call.response.approval
                    /\ ExecutionEnabled /\ x.key
                    /\ x.notional # Unset /\ x.notional <= MaxNotional
  BY DEF ReleasedActionsBounded
<1>1. /\ Releasable(Prompt(call), call.response.answer)
      /\ call.response.answer \in AnswerRecords
  BY ReleasedFacts DEF CallsInv
<1>2. call.response.answer.actions \subseteq ActionRecords
  BY <1>1 DEF AnswerRecords
<1>3. /\ x.effect = "execute" /\ x.approval /\ ExecutionEnabled /\ x.key
      /\ x.notional # Unset /\ x.notional <= MaxNotional
  BY <1>1, <1>2, NoRuleOnActions DEF Releasable
<1>4. PICK raw \in AnswerRecords : call.response = Judge(Prompt(call), raw)
  BY AnsweredFacts DEF CallsInv, Released
<1>5. call.response.approval
  BY <1>3, <1>4 DEF Judge, SideEffects
<1> QED
  BY <1>3, <1>5

\* A released market answer has a reviewed source of the ledger.
LEMMA CallsVerified ==
  ASSUME CallsInv
  PROVE  MarketReleaseVerified
<1> DEFINE prompt == Prompt(call)
           answer == call.response.answer
<1> SUFFICES ASSUME Released, prompt.market
             PROVE  \E e \in UsedSources(prompt, answer) :
                      /\ e.id \in StoredEvidence(disk)
                      /\ disk.evidence[e.id].content \in VerifiedContents
  BY DEF MarketReleaseVerified
<1>1. /\ CallOK(disk, call) /\ call \in CallRecords
      /\ prompt \in Prompts /\ Releasable(prompt, answer)
  BY AnsweredFacts, ReleasedFacts DEF CallsInv, Released
<1>2. prompt.claims = call.claims /\ prompt.evidence = call.evidence
  BY <1>1, PromptType
<1>3. call.request \in Requests
  BY <1>1 DEF CallRecords
<1> HIDE DEF prompt, answer
<1>4. Verified(prompt, answer)
  BY <1>1 DEF Releasable, UnverifiedMarket
<1>5. PICK e \in prompt.evidence : e.verified /\ e \in UsedSources(prompt, answer)
  <2>1. CASE \E e \in CitedEvidence(prompt, answer) : e.verified
    BY <2>1 DEF CitedEvidence, UsedSources
  <2>2. ASSUME NEW k \in CitedClaims(prompt, answer),
               \A id \in k.evidence :
                 \E e \in prompt.evidence : e.id = id /\ e.verified
        PROVE  \E e \in prompt.evidence :
                 e.verified /\ e \in UsedSources(prompt, answer)
    <3>1. k \in ClaimRecords
      BY <1>1 DEF CitedClaims, Prompts
    <3>2. PICK id \in k.evidence : TRUE
      BY <3>1 DEF ClaimRecords
    <3>3. PICK e \in prompt.evidence : e.id = id /\ e.verified
      BY <2>2
    <3>4. e \in UsedSources(prompt, answer)
      BY <3>2, <3>3 DEF UsedSources
    <3> QED
      BY <3>3, <3>4
  <2> QED
    BY <1>4, <2>1, <2>2 DEF Verified
<1>6. FromLedger(disk, e)
  BY <1>1, <1>2, <1>3, <1>5, InlineFacts DEF CallOK, ReadOK
<1>7. disk.evidence[e.id].content \in VerifiedContents
  <2>1. e = Envelope(disk.evidence[e.id])
    BY <1>6 DEF FromLedger
  <2>2. \A stored : Envelope(stored).verified
                      <=> stored.content \in VerifiedContents
    BY DEF Envelope
  <2> QED
    BY <1>5, <2>1, <2>2, Zenon
<1> QED
  BY <1>5, <1>6, <1>7 DEF FromLedger

\* The sources of a call are unambiguous.
LEMMA CallsUnambiguous ==
  ASSUME CallsInv
  PROVE  UnambiguousSources
<1>1. HasSources => SourcesOK(disk, call)
  BY InHandFacts DEF CallsInv, HasSources
<1> QED
  BY <1>1 DEF UnambiguousSources, SourcesOK, FromLedger

\* The snapshot covers the sources.
LEMMA CallsCovered ==
  ASSUME CallsInv
  PROVE  SnapshotCovers
<1>1. HasSources => SourcesOK(disk, call)
  BY InHandFacts DEF CallsInv, HasSources
<1> QED
  BY <1>1 DEF SnapshotCovers, SourcesOK, Told, ArrivalTold, CallsInv, EventsOK

\* A released answer rests on what was known.
LEMMA CallsKnown ==
  ASSUME Inv, CallsInv, ~TrustClientTimestamps
  PROVE  ReleasedOnKnownSources
<1> DEFINE prompt == Prompt(call)
           answer == call.response.answer
           context == call.request.context
<1> SUFFICES ASSUME Released
             PROVE  /\ \A id \in answer.claims :
                         /\ id \in StoredClaims(disk)
                         /\ disk.claims[id].asserted <= call.knowledge
                         /\ disk.claims[id].effective <= call.business
                         /\ call.business < disk.claims[id].expires
                         /\ \A e \in disk.claims[id].evidence :
                              /\ disk.evidence[e].ingested <= call.knowledge
                              /\ Envelope(disk.evidence[e]).dated
                                   <= call.business
                    /\ \A id \in answer.evidence :
                         \E e \in call.evidence :
                           /\ e.id = id
                           /\ call.business # Unset => e.dated <= call.business
                           /\ (context # NoContext
                                /\ call.knowledge = context.knowledge) =>
                                e.observed <= call.knowledge
  BY DEF ReleasedOnKnownSources
<1>1. /\ CallOK(disk, call) /\ call \in CallRecords /\ call.stage # "reading"
      /\ prompt \in Prompts /\ Releasable(prompt, answer)
  BY AnsweredFacts, ReleasedFacts DEF CallsInv, Released
<1>2. /\ prompt.claims = call.claims /\ prompt.evidence = call.evidence
      /\ prompt.business = call.business
  BY <1>1, PromptType
<1>3. /\ answer.evidence \subseteq IdsOf(call.evidence)
      /\ answer.claims \subseteq IdsOf(call.claims)
      /\ PointInTime(prompt, answer)
  BY <1>1, <1>2 DEF Releasable
<1>4. SourcesOK(disk, call) /\ Sound(disk)
  BY <1>1 DEF CallOK, Inv
<1>5. prompt.knowledge = IF context = NoContext THEN Unset
                         ELSE context.knowledge
  BY DEF Prompt
<1>6. /\ call.claims # {} => call.business \in Nat /\ call.knowledge \in Nat
      /\ context # NoContext => call.business \in Nat /\ call.knowledge \in Nat
  BY <1>1 DEF CallOK, FormOK
<1> HIDE DEF prompt, answer, context
<1>7. ASSUME NEW id \in answer.claims
      PROVE  /\ id \in StoredClaims(disk)
             /\ disk.claims[id].asserted <= call.knowledge
             /\ disk.claims[id].effective <= call.business
             /\ call.business < disk.claims[id].expires
             /\ \A e \in disk.claims[id].evidence :
                  /\ disk.evidence[e].ingested <= call.knowledge
                  /\ Envelope(disk.evidence[e]).dated <= call.business
  <2>1. PICK k \in call.claims : k.id = id
    BY <1>3 DEF IdsOf
  <2>2. FoundIn(disk, k, call.business, call.knowledge)
    BY <1>1 DEF CallOK, ReadOK
  <2>3. /\ id \in StoredClaims(disk)
        /\ k.evidence = disk.claims[id].evidence
        /\ k.evidence \subseteq StoredEvidence(disk)
        /\ disk.claims[id].asserted <= call.knowledge
        /\ disk.claims[id].effective <= call.business
        /\ call.business < disk.claims[id].expires
    BY <1>4, <2>1, <2>2, FoundIsSupported DEF FoundIn
  <2>4. call.business \in Nat /\ call.knowledge \in Nat
    BY <1>6, <2>1
  <2>5. ASSUME NEW e \in disk.claims[id].evidence
        PROVE  /\ disk.evidence[e].ingested <= call.knowledge
               /\ Envelope(disk.evidence[e]).dated <= call.business
    <3>1. disk.evidence[e].ingested <= disk.claims[id].asserted
      BY <1>4, <2>3 DEF Sound, SupportOK
    <3>2. disk.evidence[e].ingested \in Nat /\ disk.claims[id].asserted \in Nat
      BY <1>4, <2>3, ImageFields
         DEF Sound, StoredClaims, StoredEvidence, EvidenceRecords, ClaimRecords
    <3>3. disk.evidence[e].ingested <= call.knowledge
      BY <2>3, <2>4, <3>1, <3>2
    <3>4. e \in IdsOf(call.evidence)
      BY <1>4, <2>1, <2>3 DEF SourcesOK
    <3>5. PICK f \in call.evidence : f.id = e
      BY <3>4 DEF IdsOf
    <3>6. f = Envelope(disk.evidence[e])
      BY <1>4, <2>1, <2>3, <3>5 DEF SourcesOK, FromLedger
    <3>7. f \in UsedSources(prompt, answer)
      BY <1>2, <2>1, <2>3, <3>5 DEF UsedSources, CitedClaims
    <3>8. f.dated <= call.business
      BY <1>2, <1>3, <2>4, <3>7, GateAssumption DEF PointInTime
    <3> QED
      BY <3>3, <3>6, <3>8
  <2> QED
    BY <2>3, <2>5
<1>8. ASSUME NEW id \in answer.evidence
      PROVE  \E e \in call.evidence :
               /\ e.id = id
               /\ call.business # Unset => e.dated <= call.business
               /\ (context # NoContext /\ call.knowledge = context.knowledge) =>
                    e.observed <= call.knowledge
  <2>1. PICK e \in call.evidence : e.id = id
    BY <1>3 DEF IdsOf
  <2>2. e \in UsedSources(prompt, answer)
    BY <1>2, <2>1 DEF UsedSources
  <2>3. call.business # Unset => e.dated <= call.business
    BY <1>2, <1>3, <2>2 DEF PointInTime
  <2>4. ASSUME context # NoContext, call.knowledge = context.knowledge
        PROVE  e.observed <= call.knowledge
    BY <1>3, <1>5, <1>6, <2>2, <2>4, GateAssumption DEF PointInTime
  <2> QED
    BY <2>1, <2>3, <2>4
<1> QED
  BY <1>7, <1>8

-----------------------------------------------------------------------------
(* The ledger holds finitely many claims.                                  *)

FiniteClaims ==
  IsFiniteSet(StoredClaims(db)) /\ IsFiniteSet(StoredClaims(disk))

\* record adds one claim at most.
LEMMA RecordClaimFinite ==
  ASSUME NEW d, Sound(d), NEW submitted \in ClaimRecords, NEW now \in Nat,
         AcceptsClaim(d, submitted, now), IsFiniteSet(StoredClaims(d))
  PROVE  IsFiniteSet(StoredClaims(RecordClaim(d, submitted, now)))
<1>1. CASE AlreadyStored(d, submitted)
  BY <1>1 DEF RecordClaim
<1>2. CASE ~AlreadyStored(d, submitted)
  <2> DEFINE c == Stamped(submitted, now)
             rivals == NewRivals(d, c)
             n == RecordClaim(d, submitted, now)
  <2>1. Recorded(d, c, rivals, n)
    BY <1>2, RecordClaimFields
  <2> HIDE DEF c, rivals, n
  <2>2. StoredClaims(n) = StoredClaims(d) \union {c.id}
    BY <2>1 DEF Recorded
  <2>3. IsFiniteSet(StoredClaims(n))
    BY <2>2, FS_AddElement
  <2> QED
    BY <2>3 DEF n
<1> QED
  BY <1>1, <1>2

\* No step adds infinitely many.
LEMMA FiniteClaimsStep ==
  ASSUME Inv, FiniteClaims, [Next]_vars
  PROVE  FiniteClaims'
<1>1. clock \in Nat /\ Sound(db)
  BY LedgerAssumption DEF Inv
<1>2. \A d, n : n.claims = d.claims => StoredClaims(n) = StoredClaims(d)
  BY DEF StoredClaims
<1>3. CASE \E c \in Submissions : PostClaim(c)
  <2>1. PICK c \in Submissions : PostClaim(c)
    BY <1>3
  <2>2. IsFiniteSet(StoredClaims(RecordClaim(db, c, clock)))
    BY <1>1, <2>1, RecordClaimFinite, LedgerAssumption
       DEF PostClaim, FiniteClaims
  <2> QED
    BY <2>1, <2>2 DEF PostClaim, Transact, FiniteClaims
<1>4. CASE IngestClaim
  <2>1. NextClaim \in ClaimRecords
    BY <1>4, NextClaimType DEF IngestClaim
  <2>2. IsFiniteSet(StoredClaims(RecordClaim(db, NextClaim, clock)))
    BY <1>1, <1>4, <2>1, RecordClaimFinite DEF IngestClaim, FiniteClaims
  <2> QED
    BY <1>4, <2>2 DEF IngestClaim, FiniteClaims
<1>5. CASE /\ db'.claims = db.claims \/ db' = disk
           /\ disk' = disk \/ disk' = db'
  BY <1>2, <1>5 DEF FiniteClaims
<1>6. CASE \E i \in Ingestions : StartIngestion(i)
  <2>1. PICK i \in Ingestions : StartIngestion(i)
    BY <1>6
  <2>2. db'.claims = db.claims
    BY <1>1, <2>1 DEF StartIngestion, AddEvidence, Sound, ImageOK
  <2> QED
    BY <1>5, <2>1, <2>2 DEF StartIngestion
<1>7. CASE FinishIngestion
  <2>1. db'.claims = db.claims
    BY <1>1, <1>7 DEF FinishIngestion, Sound, ImageOK
  <2> QED
    BY <1>5, <1>7, <2>1 DEF FinishIngestion
<1>8. \A target, pair, status, accepted, now :
        LET n == SetClaimStatuses(db, target)
        IN  n.claims = db.claims
              /\ Close(n, pair, status, accepted, now).claims = db.claims
  BY <1>1, ImageFields DEF SetClaimStatuses, Close, Sound, ImageOK
<1>9. CASE \E pair \in Pairs, accepted \in ClaimIds :
             ResolveContradiction(pair, accepted)
  BY <1>5, <1>8, <1>9 DEF ResolveContradiction, Transact
<1>10. CASE \E pair \in Pairs : DismissContradiction(pair)
  <2>1. db'.claims = db.claims /\ disk' = db'
    BY <1>1, <1>10 DEF DismissContradiction, Transact, Close, Sound, ImageOK
  <2> QED
    BY <1>5, <2>1
<1>11. CASE \E c \in ClaimIds, status \in ClaimStatuses :
              SetClaimStatus(c, status)
  BY <1>5, <1>8, <1>11 DEF SetClaimStatus, Transact
<1>12. CASE RejectIngestion \/ Crash \/ Tick \/ StepBack \/ UNCHANGED vars
  BY <1>5, <1>12 DEF RejectIngestion, Crash, Tick, StepBack, vars
<1> QED
  BY <1>3, <1>4, <1>6, <1>7, <1>9, <1>10, <1>11, <1>12 DEF Next

-----------------------------------------------------------------------------
(* What a call has asked the ledger for.                                   *)

\* The number of queries that have been answered, or are no longer needed.
Done(c) == Len(c.request.context.queries) - Len(c.left)

\* What is left are the last of the queries; the claims come from those done,
\* and are within the limit.
PickedOK(c) ==
  /\ Len(c.left) <= Len(c.request.context.queries)
  /\ \A i \in 1..Len(c.left) :
       c.left[i] = c.request.context.queries[Done(c) + i]
  /\ \A k \in c.claims :
       \E i \in 1..Done(c) : k.key \in c.request.context.queries[i]
  /\ IsFiniteSet(c.claims)
  /\ Cardinality(c.claims) <= c.request.context.max

\* A call about the past that has begun to read sees only that past, of which
\* the queries done have left nothing out if there was room.
SeenOK(d, i, c) ==
  /\ SamePast(d, i, c.knowledge)
  /\ \A k \in c.claims : k.status = StatusAt(d, k.id, c.knowledge)
  /\ Cardinality(c.claims) < c.request.context.max =>
       \A j \in 1..Done(c) :
         \A q \in Eligible(d, c.request.context.queries[j], c.business,
                           c.knowledge) :
           q.id \in IdsOf(c.claims)

\* With d the committed image, i the one the connection sees, and the time.
HydrationOK(d, i, now, c) ==
  /\ c.at <= now
  /\ c.stage # "reading" => c.left = <<>>
  /\ c.request.context # NoContext =>
       /\ PickedOK(c)
       /\ c.knowledge < c.at /\ Done(c) # 0 => SeenOK(d, i, c)

HydrationInv ==
  FiniteClaims /\ (InHand => HydrationOK(disk, db, clock, call))

\* It depends on what a call reads, and on what for.
LEMMA HydrationFrame ==
  ASSUME NEW d, NEW i, NEW now, NEW c, HydrationOK(d, i, now, c),
         NEW n, n.at = c.at, n.left = c.left, n.request = c.request,
         n.claims = c.claims, n.business = c.business,
         n.knowledge = c.knowledge,
         n.stage # "reading" => c.left = <<>>
  PROVE  HydrationOK(d, i, now, n)
  BY DEF HydrationOK, PickedOK, SeenOK, Done

\* The ledger goes on, and with it the clock.
LEMMA HydrationStays ==
  ASSUME SteadyClock, Inv, [Next]_vars, NEW c \in CallRecords,
         CallOK(disk, c), HydrationOK(disk, db, clock, c)
  PROVE  HydrationOK(disk', db', clock', c)
<1>1. clock \in Nat /\ clock' \in Nat /\ clock <= clock'
  <2>1. clock \in Nat /\ clock' \in Nat
    BY InvStep, LedgerAssumption DEF Inv
  <2>2. clock' = clock \/ clock' = clock + 1
    BY DEF SteadyClock, Next, PostClaim, StartIngestion, IngestClaim,
           RejectIngestion, FinishIngestion, ResolveContradiction,
           DismissContradiction, SetClaimStatus, Crash, Tick, StepBack,
           Transact, vars
  <2> QED
    BY <2>1, <2>2
<1>2. c.at \in Nat /\ c.at <= clock'
  BY <1>1 DEF CallRecords, HydrationOK
<1>3. ASSUME c.request.context # NoContext, c.knowledge < c.at, Done(c) # 0
      PROVE  SeenOK(disk', db', c)
  <2> DEFINE k == c.knowledge
  <2>1. c.business \in Nat /\ k \in Nat /\ k < clock
    BY <1>1, <1>2, <1>3 DEF CallOK, FormOK, HydrationOK
  <2>2. SeenOK(disk, db, c)
    BY <1>3 DEF HydrationOK
  <2> HIDE DEF k
  <2>3. SamePast(disk, db, k)
    BY <2>2 DEF SeenOK, k
  <2>4. /\ SamePast(db, db', k) \/ db' = disk
        /\ disk' = disk \/ disk' = db'
    BY <2>1, PastStep DEF SteadyClock
  <2>5. \A d : SamePast(d, d, k)
    BY SamePastFrame
  <2>6. SamePast(disk, db', k)
    BY <2>3, <2>4, <2>5, SamePastTransitive
  <2>7. SamePast(disk, disk', k) /\ SamePast(disk', db', k)
    BY <2>4, <2>5, <2>6
  <2>8. ImageOK(disk) /\ HistoryOK(disk) /\ Sound(disk)
    BY DEF Inv, Sound
  <2>9. ASSUME NEW e \in c.claims
        PROVE  e.status = StatusAt(disk', e.id, k)
    <3>1. FoundIn(disk, e, c.business, k)
      BY DEF CallOK, ReadOK, k
    <3>2. e.id \in StoredClaims(disk) /\ disk.claims[e.id].asserted <= k
      BY <2>8, <3>1, FoundIsSupported DEF FoundIn
    <3>3. StatusAt(disk', e.id, k) = StatusAt(disk, e.id, k)
      BY <2>1, <2>7, <2>8, <3>2, StatusOfPast
    <3> QED
      BY <2>2, <3>3 DEF SeenOK, k
  <2>10. \A keys : Eligible(disk', keys, c.business, k)
                     = Eligible(disk, keys, c.business, k)
    <3>1. \A key : QueryClaims(disk', key, c.business, k, {"active", "disputed"})
                = QueryClaims(disk, key, c.business, k, {"active", "disputed"})
      BY <2>1, <2>7, <2>8, QueryOfPast
    <3> QED
      BY <3>1 DEF Eligible
  <2> QED
    BY <2>2, <2>7, <2>9, <2>10 DEF SeenOK, k
<1> QED
  BY <1>2, <1>3 DEF HydrationOK

\* Finitely many claims are found, for finitely many are stored.
LEMMA FoundFinite ==
  ASSUME NEW d, IsFiniteSet(StoredClaims(d)), NEW found,
         \A k \in found : k.id \in StoredClaims(d),
         \A k, m \in found : k.id = m.id => k = m
  PROVE  IsFiniteSet(found)
<1> DEFINE f == [k \in found |-> k.id]
<1>1. f \in [found -> StoredClaims(d)]
  OBVIOUS
<1>2. \A k, m \in found : f[k] = f[m] => k = m
  OBVIOUS
<1> HIDE DEF f
<1>3. f \in Injection(found, StoredClaims(d))
  BY <1>1, <1>2 DEF Injection, IsInjective
<1> QED
  BY <1>3, FS_Injection

\* The sizes of two finite sets without a common element add up.
LEMMA SizesAdd ==
  ASSUME NEW S, NEW T, IsFiniteSet(S), IsFiniteSet(T), S \intersect T = {}
  PROVE  /\ IsFiniteSet(S \union T)
         /\ Cardinality(S) \in Nat /\ Cardinality(T) \in Nat
         /\ Cardinality(S \union T) = Cardinality(S) + Cardinality(T)
<1>1. IsFiniteSet(S \union T)
      /\ Cardinality(S \union T) =
           Cardinality(S) + Cardinality(T) - Cardinality(S \intersect T)
  BY FS_Union
<1>2. Cardinality(S \intersect T) = 0
  BY FS_EmptySet
<1>3. Cardinality(S) \in Nat /\ Cardinality(T) \in Nat
  BY FS_CardinalityType
<1> QED
  BY <1>1, <1>2, <1>3

\* A query returns no more than its limit, and all there is if it returns less.
LEMMA FirstRowsSize ==
  ASSUME NEW found, IsFiniteSet(found), NEW n \in Nat,
         NEW s \in FirstRows(found, n)
  PROVE  /\ s \subseteq found /\ IsFiniteSet(s)
         /\ Cardinality(s) \in Nat /\ Cardinality(s) <= n
         /\ Cardinality(s) < n => s = found
<1>1. s \in SUBSET found /\ Cardinality(s) = Least(n, Cardinality(found))
  BY DEF FirstRows
<1>2. /\ IsFiniteSet(s)
      /\ Cardinality(found) = Cardinality(s) => found = s
  BY <1>1, FS_Subset
<1>3. Cardinality(s) \in Nat /\ Cardinality(found) \in Nat
  BY <1>2, FS_CardinalityType
<1> QED
  BY <1>1, <1>2, <1>3 DEF Least

\* One more query is done.
LEMMA ReadClaimsHydration ==
  ASSUME Sound(db), IsFiniteSet(StoredClaims(db)),
         CallState(db, call), HydrationOK(db, db, clock, call), ReadClaims
  PROVE  HydrationOK(db, db, clock, call')
<1> DEFINE queries == call.request.context.queries
           max == call.request.context.max
           business == call.business
           knowledge == call.knowledge
           keys == Head(call.left)
           rows == Eligible(db, keys, business, knowledge)
           found == {ClaimOfRow(db, q) : q \in rows}
           done == Done(call)
<1>1. /\ call \in CallRecords /\ call.stage = "reading"
      /\ call.request \in Requests /\ call.request.context # NoContext
      /\ business \in Nat /\ knowledge \in Nat
      /\ call.left # <<>> /\ Remaining > 0
  BY ReadingFacts DEF ReadClaims
<1>2. PICK s \in FirstRows(found, Remaining) :
        call' = [call EXCEPT !.left = Tail(call.left),
                             !.claims = call.claims \union s]
  BY <1>1 DEF ReadClaims, CallRecords
<1>3. /\ queries \in Seq(SUBSET Keys) /\ max \in Nat \ {0}
      /\ \A i, j \in DOMAIN queries :
           i # j => queries[i] \intersect queries[j] = {}
  <2>1. call.request.context \in Contexts
    BY <1>1, AnalysisAssumption DEF RequestRecords
  <2> QED
    BY <2>1 DEF Contexts, QueryLists
<1>4. PickedOK(call) /\ call.at <= clock
  BY <1>1 DEF HydrationOK
<1>5. call.left \in Seq(SUBSET Keys)
  BY <1>1 DEF CallRecords
<1> DEFINE left == Tail(call.left)
           claims == call.claims \union s
<1>6. /\ left \in Seq(SUBSET Keys) /\ Len(left) = Len(call.left) - 1
      /\ Len(call.left) \in Nat \ {0} /\ Len(queries) \in Nat
      /\ \A i \in 1..Len(left) : left[i] = call.left[i + 1]
      /\ keys = call.left[1]
  BY <1>1, <1>3, <1>5
<1>7. /\ call'.request = call.request /\ call'.left = left
      /\ call'.claims = claims /\ call'.business = business
      /\ call'.knowledge = knowledge /\ call'.at = call.at
      /\ call'.stage = "reading"
  BY <1>1, <1>2 DEF CallRecords
<1>8. /\ done \in Nat /\ done + 1 \in DOMAIN queries
      /\ Len(call.left) <= Len(queries)
      /\ Done(call') = done + 1
      /\ queries[done + 1] = keys
  <2>1. /\ Len(call.left) <= Len(queries)
        /\ \A i \in 1..Len(call.left) : call.left[i] = queries[done + i]
    BY <1>4 DEF PickedOK
  <2>2. done = Len(queries) - Len(call.left)
    BY DEF Done
  <2>3. Done(call') = Len(queries) - Len(left)
    BY <1>7 DEF Done
  <2> HIDE DEF done, left, keys, queries
  <2>4. done \in Nat /\ done + 1 \in 1..Len(queries) /\ Done(call') = done + 1
    BY <1>6, <2>1, <2>2, <2>3
  <2>5. queries[done + 1] = keys
    BY <1>6, <2>1
  <2> QED
    BY <1>3, <2>1, <2>4, <2>5
<1>9. \A q \in rows :
        LET k == ClaimOfRow(db, q)
        IN  /\ FoundIn(db, k, business, knowledge)
            /\ k \in ClaimRecords /\ k.id = q.id /\ k.key \in keys
            /\ k.status = StatusAt(db, k.id, knowledge)
  BY <1>1, RowFound
<1> HIDE DEF rows, keys, left, done, queries, max, business, knowledge
<1>10. \A k \in found :
         /\ k.id \in StoredClaims(db) /\ k.key \in keys
         /\ k.status = StatusAt(db, k.id, knowledge)
         /\ k = [db.claims[k.id] EXCEPT !.status = k.status]
  BY <1>9 DEF FoundIn
<1>11. \A k, m \in found : k.id = m.id => k = m
  BY <1>10
<1>12. \A q \in rows : q.id \in IdsOf(found)
  BY <1>9 DEF IdsOf
<1> HIDE DEF found
<1>13. IsFiniteSet(found)
  BY <1>10, <1>11, FoundFinite
<1>14. /\ IsFiniteSet(call.claims) /\ Cardinality(call.claims) \in Nat
       /\ Cardinality(call.claims) <= max
  BY <1>4, FS_CardinalityType DEF PickedOK, max
<1>15. Remaining = max - Cardinality(call.claims) /\ Remaining \in Nat
  BY <1>3, <1>14 DEF Remaining, max
<1>16. /\ s \subseteq found /\ IsFiniteSet(s)
       /\ Cardinality(s) \in Nat /\ Cardinality(s) <= Remaining
       /\ Cardinality(s) < Remaining => s = found
  BY <1>2, <1>13, <1>15, FirstRowsSize
<1>17. call.claims \intersect s = {}
  <2>1. ASSUME NEW k \in call.claims, k \in s
        PROVE  FALSE
    <3>1. PICK i \in 1..done : k.key \in queries[i]
      BY <1>4 DEF PickedOK, done, queries
    <3>2. i \in DOMAIN queries /\ i # done + 1
      BY <1>3, <1>6, <1>8
    <3>3. k.key \in queries[done + 1]
      BY <1>8, <1>10, <1>16, <2>1
    <3> QED
      BY <1>3, <1>8, <3>1, <3>2, <3>3
  <2> QED
    BY <2>1
<1>18. /\ IsFiniteSet(claims)
       /\ Cardinality(claims) = Cardinality(call.claims) + Cardinality(s)
  BY <1>14, <1>16, <1>17, SizesAdd
<1> HIDE DEF claims
<1>19. PickedOK(call')
  <2>1. Len(left) <= Len(queries)
    BY <1>6, <1>8
  <2>2. ASSUME NEW i \in 1..Len(left)
        PROVE  left[i] = queries[done + 1 + i]
    <3>1. i + 1 \in 1..Len(call.left) /\ left[i] = call.left[i + 1]
      BY <1>6
    <3>2. call.left[i + 1] = queries[done + (i + 1)]
      BY <1>4, <3>1 DEF PickedOK, queries, done
    <3> QED
      BY <1>8, <3>1, <3>2
  <2>3. ASSUME NEW k \in claims
        PROVE  \E i \in 1..(done + 1) : k.key \in queries[i]
    <3>1. CASE k \in call.claims
      <4>1. PICK i \in 1..done : k.key \in queries[i]
        BY <1>4, <3>1 DEF PickedOK, queries, done
      <4> QED
        BY <1>8, <4>1
    <3>2. CASE k \in s
      BY <1>8, <1>10, <1>16, <3>2
    <3> QED
      BY <2>3, <3>1, <3>2 DEF claims
  <2>4. Cardinality(claims) <= max
    BY <1>3, <1>14, <1>15, <1>16, <1>18 DEF max
  <2> QED
    BY <1>7, <1>8, <1>18, <2>1, <2>2, <2>3, <2>4 DEF PickedOK, queries, max
<1>20. ASSUME call.knowledge < call.at
       PROVE  SeenOK(db, db, call')
  <2>1. done # 0 => SeenOK(db, db, call)
    BY <1>1, <1>20 DEF HydrationOK, done
  <2>2. call.claims # {} => done # 0
    BY <1>4, <1>8 DEF PickedOK, done
  <2>3. SamePast(db, db, knowledge)
    BY SamePastFrame
  <2>4. \A k \in claims : k.status = StatusAt(db, k.id, knowledge)
    BY <1>10, <1>16, <2>1, <2>2 DEF SeenOK, claims, knowledge
  <2>5. ASSUME Cardinality(claims) < max, NEW j \in 1..(done + 1),
               NEW q \in Eligible(db, queries[j], business, knowledge)
        PROVE  q.id \in IdsOf(claims)
    <3>1. CASE j = done + 1
      <4>1. Cardinality(s) < Remaining
        BY <1>3, <1>14, <1>15, <1>16, <1>18, <2>5 DEF max
      <4>2. s = found /\ q \in rows
        BY <1>8, <1>16, <2>5, <3>1, <4>1 DEF rows
      <4> QED
        BY <1>12, <4>2 DEF IdsOf, claims
    <3>2. CASE j # done + 1
      <4>1. j \in 1..done /\ done # 0
        BY <1>8, <3>2
      <4>2. Cardinality(call.claims) < max
        BY <1>3, <1>14, <1>16, <1>18, <2>5 DEF max
      <4>3. q.id \in IdsOf(call.claims)
        BY <2>1, <2>5, <4>1, <4>2
           DEF SeenOK, done, max, queries, business, knowledge
      <4> QED
        BY <4>3 DEF IdsOf, claims
    <3> QED
      BY <3>1, <3>2
  <2> QED
    BY <1>7, <1>8, <2>3, <2>4, <2>5 DEF SeenOK, queries, max
<1> QED
  BY <1>4, <1>7, <1>19, <1>20 DEF HydrationOK, knowledge

\* A call that comes in has asked for nothing yet.
LEMMA ReceiveHydration ==
  ASSUME NEW d, NEW i, clock \in Nat, NEW r \in Requests, Receive(r), InHand'
  PROVE  HydrationOK(d, i, clock, call')
<1> DEFINE s == Sanitized(r)
<1>1. /\ s \in CallRecords /\ s.stage = "reading" /\ s.request = r
      /\ s.claims = {} /\ s.left = <<>> /\ s.at = clock
  BY SanitizedType
<1>2. \A status \in {400, 500} : call' # Refused(status)
  BY DEF InHand, Refused
<1>3. ~r.claims
  BY <1>2 DEF Receive
<1>4. CASE r.context = NoContext
  <2> DEFINE c == [s EXCEPT !.evidence = InlineEvidence(r)]
  <2>1. call' = Prompted(c)
    BY <1>3, <1>4 DEF Receive
  <2>2. call' = [c EXCEPT !.stage = "asking"]
    BY <1>2, <2>1 DEF Prompted
  <2> HIDE DEF s
  <2>3. /\ call'.request = r /\ call'.left = <<>> /\ call'.at = clock
    BY <1>1, <2>2 DEF CallRecords
  <2> QED
    BY <1>4, <2>3 DEF HydrationOK
<1>5. CASE r.context # NoContext
  <2> DEFINE queries == r.context.queries
             c == [s EXCEPT !.left = queries, !.business = BusinessTimeOf(r),
                            !.knowledge = KnowledgeTimeOf(r)]
  <2>1. call' = c
    BY <1>3, <1>5 DEF Receive
  <2>2. queries \in Seq(SUBSET Keys) /\ r.context.max \in Nat
    BY <1>5, RequestFacts
  <2> HIDE DEF s, queries
  <2>3. /\ call'.request = r /\ call'.left = queries /\ call'.claims = {}
        /\ call'.at = clock /\ call'.stage = "reading"
    BY <1>1, <2>1 DEF CallRecords
  <2>4. Len(queries) \in Nat /\ Done(call') = 0
    BY <2>2, <2>3 DEF Done, queries
  <2>5. IsFiniteSet({}) /\ Cardinality({}) = 0
    BY FS_EmptySet
  <2>6. PickedOK(call')
    BY <2>2, <2>3, <2>4, <2>5 DEF PickedOK, queries
  <2> QED
    BY <2>3, <2>4, <2>6 DEF HydrationOK
<1> QED
  BY <1>4, <1>5

\* The loop over the predicates ends early: there are claims enough.
LEMMA BreakOffHydration ==
  ASSUME NEW d, NEW i, CallState(d, call), HydrationOK(d, i, clock, call),
         BreakOff
  PROVE  HydrationOK(d, i, clock, call')
<1> DEFINE queries == call.request.context.queries
           max == call.request.context.max
<1>1. /\ call \in CallRecords /\ call.stage = "reading"
      /\ call.request \in Requests /\ call.request.context # NoContext
      /\ call.left # <<>> /\ Remaining <= 0
      /\ call' = [call EXCEPT !.left = <<>>]
  BY ReadingFacts DEF BreakOff
<1>2. /\ call'.request = call.request /\ call'.left = <<>>
      /\ call'.claims = call.claims /\ call'.at = call.at
      /\ call'.stage = "reading" /\ call'.knowledge = call.knowledge
  BY <1>1 DEF CallRecords
<1>3. PickedOK(call) /\ call.at <= clock
  BY <1>1 DEF HydrationOK
<1>4. queries \in Seq(SUBSET Keys) /\ max \in Nat
  BY <1>1, RequestFacts
<1>5. call.left \in Seq(SUBSET Keys)
  BY <1>1 DEF CallRecords
<1>6. Cardinality(call.claims) \in Nat
  BY <1>3, FS_CardinalityType DEF PickedOK
<1>7. ~(Cardinality(call.claims) < max)
  BY <1>1, <1>4, <1>6 DEF Remaining
<1> HIDE DEF queries, max
<1>8. /\ Len(queries) \in Nat /\ Len(call.left) \in Nat \ {0}
      /\ Len(call.left) <= Len(queries)
      /\ Done(call') = Len(queries) /\ Done(call) = Len(queries) - Len(call.left)
  BY <1>1, <1>2, <1>3, <1>4, <1>5 DEF Done, PickedOK, queries
<1>9. PickedOK(call')
  <2>1. \A j \in 1..Done(call) : j \in 1..Done(call')
    BY <1>8
  <2> QED
    BY <1>2, <1>3, <1>8, <2>1 DEF PickedOK, queries
<1>10. call.claims # {}
  <2>1. max # 0
    BY <1>1, RequestFacts DEF max
  <2> SUFFICES ASSUME call.claims = {}
               PROVE  FALSE
    OBVIOUS
  <2>2. Cardinality(call.claims) = 0
    BY FS_EmptySet
  <2> QED
    BY <1>4, <1>7, <2>1, <2>2
<1>11. Done(call) # 0
  BY <1>3, <1>8, <1>10 DEF PickedOK
<1>12. call.knowledge < call.at => SeenOK(d, i, call')
  BY <1>1, <1>2, <1>7, <1>11 DEF HydrationOK, SeenOK, max
<1> QED
  BY <1>2, <1>3, <1>9, <1>12 DEF HydrationOK

\* All the other steps of a call leave what it has asked for alone.
LEMMA CallStepHydration ==
  ASSUME Inv, CallsInv, HydrationInv, CallStep, InHand'
  PROVE  HydrationOK(disk, db, clock, call')
<1>1. CallState(disk, call) /\ Sound(db)
  BY DEF CallsInv, Inv
<1>2. call # NoCall
  BY DEF CallStep, ReadClaims, BreakOff, ReadEvidence, RefuseCollision,
         TakeSnapshot, AttemptFails, AnswerEmpty, AnswerUnfit, AnswerComes,
         RecordAnalysis, FindTransaction, InsertJoined, InsertLate,
         RecordFails, Deliver, Reading, HasRead, Asking, Judged, Joining
<1>3. call.stage # "ended"
  BY DEF CallStep, ReadClaims, BreakOff, ReadEvidence, RefuseCollision,
         TakeSnapshot, AttemptFails, AnswerEmpty, AnswerUnfit, AnswerComes,
         RecordAnalysis, FindTransaction, InsertJoined, InsertLate,
         RecordFails, Deliver, Reading, HasRead, Asking, Judged, Joining
<1>4. /\ call \in CallRecords /\ HydrationOK(disk, db, clock, call)
      /\ call.stage \in {"reading", "asking", "judged", "joining", "recorded"}
  <2>1. CallOK(disk, call)
    BY <1>1, <1>2, <1>3, StageIsCall
  <2>2. call \in CallRecords
    BY <2>1 DEF CallOK, FormOK
  <2> QED
    BY <1>2, <1>3, <2>2 DEF HydrationInv, InHand, CallRecords
<1>5. \A status \in {400, 409, 500, 502} : call' # Refused(status)
  BY DEF InHand, Refused
<1>6. CASE ReadClaims
  <2>1. db = disk
    BY <1>6 DEF ReadClaims, LockFree, Inv
  <2> QED
    BY <1>1, <1>4, <1>6, <2>1, ReadClaimsHydration DEF HydrationInv, FiniteClaims
<1>7. CASE BreakOff
  BY <1>1, <1>4, <1>7, BreakOffHydration
<1>8. ASSUME NEW stage, NEW evidence, NEW snapshot, NEW attempt, NEW response,
             NEW status,
             call' = [call EXCEPT !.stage = stage, !.evidence = evidence,
                        !.snapshot = snapshot, !.attempt = attempt,
                        !.response = response, !.status = status],
             stage # "reading" => call.left = <<>>
      PROVE  HydrationOK(disk, db, clock, call')
  <2>1. /\ call'.at = call.at /\ call'.left = call.left
        /\ call'.request = call.request /\ call'.claims = call.claims
        /\ call'.business = call.business /\ call'.knowledge = call.knowledge
        /\ call'.stage = stage
    BY <1>4, <1>8 DEF CallRecords
  <2> QED
    BY <1>4, <1>8, <2>1, HydrationFrame
<1>9. CASE ReadEvidence
  <2>1. PICK id \in Unread :
          call' = [call EXCEPT !.evidence =
                     call.evidence \union {Envelope(db.evidence[id])}]
    BY <1>4, <1>9 DEF ReadEvidence, CallRecords
  <2> DEFINE evidence == call.evidence \union {Envelope(db.evidence[id])}
  <2>2. call.left = <<>>
    BY <1>9 DEF ReadEvidence
  <2> HIDE DEF evidence
  <2>3. /\ call'.at = call.at /\ call'.left = call.left
        /\ call'.request = call.request /\ call'.claims = call.claims
        /\ call'.business = call.business /\ call'.knowledge = call.knowledge
    BY <1>4, <2>1 DEF CallRecords, evidence
  <2> QED
    BY <1>4, <2>2, <2>3, HydrationFrame
<1>10. CASE TakeSnapshot
  <2> DEFINE evidence == call.evidence \union InlineEvidence(call.request)
             c == [call EXCEPT !.snapshot = db.audit, !.evidence = evidence]
  <2>1. call' = Prompted(c) /\ call.left = <<>>
    BY <1>4, <1>10 DEF TakeSnapshot, HasRead, CallRecords
  <2>2. call' = [c EXCEPT !.stage = "asking"]
    BY <1>5, <2>1 DEF Prompted
  <2> HIDE DEF evidence
  <2>3. /\ call'.at = call.at /\ call'.left = call.left
        /\ call'.request = call.request /\ call'.claims = call.claims
        /\ call'.business = call.business /\ call'.knowledge = call.knowledge
    BY <1>4, <2>2 DEF CallRecords
  <2> QED
    BY <1>4, <2>1, <2>3, HydrationFrame
<1>11. CASE RefuseCollision \/ AnswerEmpty \/ AnswerUnfit \/ RecordFails
  BY <1>5, <1>11 DEF RefuseCollision, AnswerEmpty, AnswerUnfit, RecordFails
<1>12. CASE \/ AttemptFails
            \/ \E answer \in Answers : AnswerComes(answer)
            \/ FindTransaction \/ InsertStep \/ Deliver
  <2>1. call.left = <<>>
    BY <1>4, <1>12 DEF AttemptFails, AnswerComes, FindTransaction, InsertStep,
                RecordAnalysis, InsertJoined, InsertLate, Deliver, Asking,
                Judged, Joining, HydrationOK
  <2>2. /\ call'.at = call.at /\ call'.left = call.left
        /\ call'.request = call.request /\ call'.claims = call.claims
        /\ call'.business = call.business /\ call'.knowledge = call.knowledge
    <3>1. CASE AttemptFails
      BY <1>4, <1>5, <3>1 DEF AttemptFails, CallRecords
    <3>2. CASE \E answer \in Answers : AnswerComes(answer)
      BY <1>4, <3>2 DEF AnswerComes, CallRecords
    <3>3. CASE FindTransaction \/ InsertStep
      BY <1>4, <3>3 DEF FindTransaction, InsertStep, RecordAnalysis,
                  InsertJoined, InsertLate, Insert, CallRecords
    <3>4. CASE Deliver
      BY <1>4, <3>4 DEF Deliver, CallRecords
    <3> QED
      BY <1>12, <3>1, <3>2, <3>3, <3>4
  <2> QED
    BY <1>4, <2>1, <2>2, HydrationFrame
<1> QED
  BY <1>6, <1>7, <1>9, <1>10, <1>11, <1>12 DEF CallStep, InsertStep

\* Every step keeps the invariant, while the clock is steady.
LEMMA HydrationStep ==
  ASSUME SteadyClock, Inv, CallsInv, HydrationInv,
         [NextAnalysis]_analysisVars
  PROVE  HydrationInv'
<1>1. [Next]_vars
  BY StepOfLedger
<1>2. FiniteClaims'
  BY <1>1, FiniteClaimsStep DEF HydrationInv
<1>3. CASE UNCHANGED vars /\ (\E r \in Requests : Receive(r)) /\ InHand'
  <2>1. clock \in Nat
    BY LedgerAssumption DEF Inv
  <2>2. HydrationOK(disk, db, clock, call')
    BY <1>3, <2>1, ReceiveHydration
  <2> QED
    BY <1>2, <1>3, <2>2 DEF HydrationInv, vars
<1>4. CASE CallStep /\ InHand'
  <2>1. HydrationOK(disk, db, clock, call')
    BY <1>4, CallStepHydration
  <2>2. UNCHANGED vars
    <3>1. CASE SilentStep
      BY <3>1, SilentFrame DEF vars
    <3>2. CASE InsertStep
      BY <3>2 DEF InsertStep, RecordAnalysis, InsertJoined, InsertLate, Insert
    <3>3. CASE Deliver
      BY <3>3 DEF Deliver
    <3> QED
      BY <1>4, <3>1, <3>2, <3>3, CallStepKinds
  <2> QED
    BY <1>2, <2>1, <2>2 DEF HydrationInv, vars
<1>5. CASE UNCHANGED call /\ InHand'
  <2>1. InHand
    BY <1>5 DEF InHand
  <2>2. CallOK(disk, call) /\ call \in CallRecords
    BY <2>1, InHandFacts DEF CallsInv
  <2>3. HydrationOK(disk', db', clock', call)
    BY <1>1, <2>1, <2>2, HydrationStays DEF HydrationInv
  <2> QED
    BY <1>2, <1>5, <2>3 DEF HydrationInv
<1>6. CASE ~InHand'
  BY <1>2, <1>6 DEF HydrationInv
<1>7. CASE OtherStep
  <2>1. call' = call \/ call' = NoCall
    BY <1>7, OtherEvents DEF CallsInv
  <2> QED
    BY <1>5, <1>6, <2>1 DEF InHand
<1>8. CASE UNCHANGED call
  BY <1>5, <1>6, <1>8
<1>9. CASE \E r \in Requests : Receive(r)
  BY <1>3, <1>6, <1>9 DEF Receive
<1> QED
  BY <1>4, <1>6, <1>7, <1>8, <1>9, AnalysisKinds

-----------------------------------------------------------------------------
(* What follows of what a call has read.                                   *)

\* The claims of a call are those the ledger holds for its knowledge time.
LEMMA CallsAsKnown ==
  ASSUME CallsInv, HydrationInv
  PROVE  SourcesAsKnown
<1> SUFFICES ASSUME InHand, NEW c \in call.claims
             PROVE  /\ FoundIn(disk, c, call.business, call.knowledge)
                    /\ AboutThePast =>
                         c.status = StatusAt(disk, c.id, call.knowledge)
  BY DEF SourcesAsKnown, FoundIn
<1>1. /\ CallOK(disk, call) /\ HydrationOK(disk, db, clock, call)
      /\ FoundIn(disk, c, call.business, call.knowledge)
  BY InHandFacts DEF CallsInv, HydrationInv
<1>2. call.request.context # NoContext
  BY <1>1 DEF CallOK, FormOK
<1>3. Done(call) # 0
  <2>1. PICK i \in 1..Done(call) : c.key \in call.request.context.queries[i]
    BY <1>1, <1>2 DEF HydrationOK, PickedOK
  <2> QED
    BY <2>1
<1> QED
  BY <1>1, <1>2, <1>3 DEF AboutThePast, HydrationOK, SeenOK

\* They are all there are, as long as there is room.
LEMMA CallsComplete ==
  ASSUME CallsInv, HydrationInv
  PROVE  SelectionComplete
<1> DEFINE context == call.request.context
           keys == UNION {context.queries[i] : i \in DOMAIN context.queries}
<1> SUFFICES ASSUME InHand, context # NoContext
             PROVE  /\ Cardinality(call.claims) <= context.max
                    /\ (HasSources /\ AboutThePast
                         /\ Cardinality(call.claims) < context.max) =>
                         \A q \in Eligible(disk, keys, call.business,
                                           call.knowledge) :
                           q.id \in IdsOf(call.claims)
  BY DEF SelectionComplete
<1>1. CallOK(disk, call) /\ call \in CallRecords /\ PickedOK(call)
  BY InHandFacts DEF CallsInv, HydrationInv, HydrationOK
<1>2. ASSUME HasSources, AboutThePast, Cardinality(call.claims) < context.max,
             NEW q \in Eligible(disk, keys, call.business, call.knowledge)
      PROVE  q.id \in IdsOf(call.claims)
  <2>1. call.left = <<>> /\ call.request \in Requests
    BY <1>1, <1>2 DEF HasSources, HydrationInv, HydrationOK, CallRecords
  <2>2. context.queries \in Seq(SUBSET Keys)
    BY <2>1, RequestFacts
  <2>3. Done(call) = Len(context.queries) /\ Len(context.queries) \in Nat
    BY <2>1, <2>2 DEF Done
  <2>4. PICK i \in DOMAIN context.queries :
          \E key \in context.queries[i] :
            q \in QueryClaims(disk, key, call.business, call.knowledge,
                              {"active", "disputed"})
    BY <1>2 DEF Eligible
  <2>5. i \in 1..Done(call)
    BY <2>2, <2>3, <2>4
  <2>6. q \in Eligible(disk, context.queries[i], call.business, call.knowledge)
    BY <2>4 DEF Eligible
  <2>7. SeenOK(disk, db, call)
    BY <1>2, <2>5 DEF AboutThePast, HydrationInv, HydrationOK
  <2> QED
    BY <1>2, <2>5, <2>6, <2>7 DEF SeenOK
<1> QED
  BY <1>1, <1>2 DEF PickedOK

\* What is inserted is committed, or shares the fate of the transaction it is in.
LEMMA CompletionsKept ==
  ASSUME Inv, TablesInv, CallsInv, [NextAnalysis]_analysisVars
  PROVE  /\ completed \subseteq completed'
         /\ delivered' \subseteq Inserted'
         /\ joined \subseteq Inserted'
         /\ lost' # lost =>
              /\ lost' = lost \union joined
              /\ UNCHANGED <<disk, completed>>
              /\ job' = Idle /\ transaction' = "none"
<1>1. delivered' \subseteq Inserted'
  BY CallsStep DEF CallsInv, DeliveriesInserted
<1>2. OneTransaction /\ joined \subseteq Inserted
  BY DEF CallsInv, Inserted
<1>3. CASE (\E r \in Requests : Receive(r)) \/ SilentStep \/ Deliver
  BY <1>1, <1>2, <1>3, ReceiveFrame, SilentFrame, DeliverFrame DEF Inserted
<1>4. CASE InsertStep
  BY <1>1, <1>2, <1>4, InsertFrame
<1>5. CASE OtherStep
  BY <1>1, <1>2, <1>5, OtherEvents
<1>6. CASE UNCHANGED <<db, disk, clock, job, call, transaction, joined,
                       completed, delivered, lost>>
  BY <1>1, <1>2, <1>6 DEF Inserted
<1> QED
  BY <1>3, <1>4, <1>5, <1>6, AnalysisKinds, CallStepKinds

-----------------------------------------------------------------------------
(* The theorems.                                                           *)

\* At first there is no call, and no claim to ask for.
LEMMA InitCalls ==
  ASSUME InitAnalysis
  PROVE  Inv /\ TablesInv /\ CallsInv /\ HydrationInv
<1>1. Inv /\ TablesInv
  BY InitInv, InitTables DEF InitAnalysis
<1>2. CallsInv
  BY DEF InitAnalysis, CallsInv, CallState, EventsOK, OneTransaction,
         DeliveriesInserted, Inserted
<1>3. StoredClaims(db) = {} /\ StoredClaims(disk) = {}
  BY DEF InitAnalysis, Init, EmptyImage, StoredClaims
<1>4. FiniteClaims
  BY <1>3, FS_EmptySet DEF FiniteClaims
<1>5. HydrationInv
  BY <1>4 DEF InitAnalysis, HydrationInv, InHand
<1> QED
  BY <1>1, <1>2, <1>5

\* The ledger stays sound beside the calls that read it, and what a call holds
\* is, at each of its stages, what the ledger and the gate made it.
THEOREM CallsInvariance == SpecAnalysis => [](Inv /\ TablesInv /\ CallsInv)
<1>1. InitAnalysis => Inv /\ TablesInv /\ CallsInv
  BY InitCalls
<1>2. ASSUME Inv, TablesInv, CallsInv, [NextAnalysis]_analysisVars
      PROVE  Inv' /\ TablesInv' /\ CallsInv'
  <2>1. [Next]_vars
    BY <1>2, StepOfLedger
  <2>2. Inv' /\ TablesInv'
    BY <1>2, <2>1, InvStep, TablesStep
  <2>3. CallsInv'
    BY <1>2, CallsStep
  <2> QED
    BY <2>2, <2>3
<1> QED
  BY <1>1, <1>2, PTL DEF SpecAnalysis

\* While the clock is not set back, what a call has read is a part of the
\* ledger as of its knowledge time, and all of the part it has asked for that
\* there was room for, however many steps the ledger takes in between.
THEOREM HydrationInvariance ==
  ASSUME SteadyClock
  PROVE  SpecAnalysis => []HydrationInv
<1>1. InitAnalysis => HydrationInv
  BY InitCalls
<1>2. Inv /\ TablesInv /\ CallsInv /\ HydrationInv
        /\ [NextAnalysis]_analysisVars => HydrationInv'
  BY HydrationStep
<1> QED
  BY <1>1, <1>2, CallsInvariance, PTL DEF SpecAnalysis

\* A call and the completion events have their types, the attempts stay below
\* the limit, and a call has a status exactly when it has ended.
THEOREM CallsAreTyped == SpecAnalysis => []AnalysisTypeOK
<1>1. CallsInv => AnalysisTypeOK
  BY CallsTyped
<1> QED
  BY <1>1, CallsInvariance, PTL

\* What goes out is below every confidence cap at once: _apply_confidence_caps
\* leaves nothing for the confidence rule of the policy to block.
THEOREM CapsAreKept == SpecAnalysis => []CapsHold
<1>1. CallsInv => CapsHold
  BY CallsCapped
<1> QED
  BY <1>1, CallsInvariance, PTL

\* A transaction is released only as a bounded proposal open to approval,
\* whatever the model calls its side effect.
THEOREM ReleasedActionsAreBounded == SpecAnalysis => []ReleasedActionsBounded
<1>1. CallsInv => ReleasedActionsBounded
  BY CallsActions
<1> QED
  BY <1>1, CallsInvariance, PTL

\* A released market answer rests on evidence of the ledger from a reviewed
\* source: inline evidence never counts as one.
THEOREM MarketReleasesAreVerified == SpecAnalysis => []MarketReleaseVerified
<1>1. CallsInv => MarketReleaseVerified
  BY CallsVerified
<1> QED
  BY <1>1, CallsInvariance, PTL

\* When the model is asked an identifier names one piece of evidence, that of
\* the ledger if a claim rests on it.
THEOREM SourcesAreUnambiguous == SpecAnalysis => []UnambiguousSources
<1>1. CallsInv => UnambiguousSources
  BY CallsUnambiguous
<1> QED
  BY <1>1, CallsInvariance, PTL

\* The snapshot of a call tells of all the claims, statuses and evidence it was
\* given, although they are read under different holds of the lock.
THEOREM SnapshotsCover == SpecAnalysis => []SnapshotCovers
<1>1. CallsInv => SnapshotCovers
  BY CallsCovered
<1> QED
  BY <1>1, CallsInvariance, PTL

\* A released answer rests on nothing the ledger learned after the knowledge
\* time, if the server stamps what comes in by its own clock.
THEOREM ReleasesRestOnKnownSources ==
  ASSUME ~TrustClientTimestamps
  PROVE  SpecAnalysis => []ReleasedOnKnownSources
<1>1. Inv /\ CallsInv => ReleasedOnKnownSources
  BY CallsKnown
<1> QED
  BY <1>1, CallsInvariance, PTL

\* While the clock is not set back, the claims of a call are what the ledger
\* holds for its knowledge time, all the time the model takes.
THEOREM SourcesStayAsKnown ==
  ASSUME SteadyClock
  PROVE  SpecAnalysis => []SourcesAsKnown
<1>1. CallsInv /\ HydrationInv => SourcesAsKnown
  BY CallsAsKnown
<1> QED
  BY <1>1, CallsInvariance, HydrationInvariance, PTL

\* While the clock is not set back, the queries of a call together stay within
\* max_claims, and leave out nothing that was known while there is room.
THEOREM SelectionsAreComplete ==
  ASSUME SteadyClock
  PROVE  SpecAnalysis => []SelectionComplete
<1>1. CallsInv /\ HydrationInv => SelectionComplete
  BY CallsComplete
<1> QED
  BY <1>1, CallsInvariance, HydrationInvariance, PTL

\* A response goes out only after its event was inserted.  What is committed
\* stays; what has joined another thread's transaction is committed with it, or
\* lost when that transaction commits nothing: rolled back, or dead with the
\* process.
THEOREM DeliveriesAreRecorded == SpecAnalysis => DeliveredIsRecorded
<1>1. Inv /\ TablesInv /\ CallsInv /\ [NextAnalysis]_analysisVars =>
        [ /\ completed \subseteq completed'
          /\ delivered' \subseteq Inserted'
          /\ joined \subseteq Inserted'
          /\ lost' # lost =>
               /\ lost' = lost \union joined
               /\ UNCHANGED <<disk, completed>>
               /\ job' = Idle /\ transaction' = "none" ]_analysisVars
  BY CompletionsKept DEF analysisVars, vars
<1> QED
  BY <1>1, CallsInvariance, PTL DEF SpecAnalysis, DeliveredIsRecorded
===============================================================================
