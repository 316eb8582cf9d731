----------------------------- MODULE ReleaseGate -----------------------------
(***************************************************************************)
(* What CherryFin does with a request before it asks the model, and with   *)
(* the answer of the model before it goes out: the mode is routed, the     *)
(* preflight of the policy, the confidence caps, the policy and the        *)
(* evaluation.  All of it is pure.                                         *)
(*                                                                         *)
(* A prompt is what the model is given: the claims and the evidence that   *)
(* may be cited, whether the routed mode is about markets, and the two     *)
(* cutoffs.  An answer is what the model made of it; its text is one fact, *)
(* whether it promises something.  Confidence and trust are in hundredths. *)
(***************************************************************************)
EXTENDS Integers, Sequences, FiniteSetsExt

CONSTANTS
  ExecutionEnabled,  \* settings.execution_enabled
  MaxNotional,       \* settings.max_transaction_notional
  MaxInlineTrust,    \* settings.max_inline_evidence_trust
  Unset              \* a field that is None

ASSUME GateAssumption ==
  /\ ExecutionEnabled \in BOOLEAN
  /\ MaxNotional \in Nat
  /\ MaxInlineTrust \in 0..80
  /\ Unset \notin Int

\* The modes of _KEYWORDS, in their order.
RoutedModes ==
  <<"trading_research", "portfolio_risk", "business_cfo", "personal_cfo",
    "investment_research">>

MarketModes == {"trading_research", "portfolio_risk", "investment_research"}

\* route_mode: hits[i] counts the keywords of RoutedModes[i] in the query, and
\* the first mode with the most of them is taken.
RouteMode(mode, hits) ==
  IF mode # "auto" THEN mode
  ELSE IF \A i \in DOMAIN hits : hits[i] = 0 THEN "investment_research"
  ELSE RoutedModes[CHOOSE i \in DOMAIN hits :
                     \A j \in DOMAIN hits :
                       hits[j] < hits[i] \/ (hits[j] = hits[i] /\ i <= j)]

Least(x, y) == IF x <= y THEN x ELSE y

\* Fault: the kind the caller gives is believed.
SanitizeTrustOnly(e) == [e EXCEPT !.trust = Least(@, MaxInlineTrust)]

\* _sanitize_analysis_request, for one piece of inline evidence: it is user
\* provided, whatever kind the caller gives it.  Its identifier stands for the
\* one the request gets here, with the prefix user:, which nothing keeps a
\* document of the ledger from having.
Sanitize(e) ==
  [e EXCEPT !.verified = FALSE, !.trust = Least(@, MaxInlineTrust)]

-----------------------------------------------------------------------------
(* Citations.                                                              *)

IdsOf(records) == {r.id : r \in records}

CitedEvidence(prompt, answer) ==
  {e \in prompt.evidence : e.id \in answer.evidence}

CitedClaims(prompt, answer) == {c \in prompt.claims : c.id \in answer.claims}

\* Fault: the evidence of the cited claims is not looked at.
DirectSources(prompt, answer) == CitedEvidence(prompt, answer)

\* used_source_ids: the evidence cited, and that of the claims cited.
UsedSources(prompt, answer) ==
  {e \in prompt.evidence :
     \/ e.id \in answer.evidence
     \/ \E c \in CitedClaims(prompt, answer) : e.id \in c.evidence}

SupportSupplied(prompt, answer) ==
  \A c \in CitedClaims(prompt, answer) : c.evidence \subseteq IdsOf(prompt.evidence)

\* answer_has_verified_sources: evidence from a reviewed source, or a claim
\* all evidence of which is from one.
Verified(prompt, answer) ==
  \/ \E e \in CitedEvidence(prompt, answer) : e.verified
  \/ \E c \in CitedClaims(prompt, answer) :
       \A id \in c.evidence :
         \E e \in prompt.evidence : e.id = id /\ e.verified

-----------------------------------------------------------------------------
(* _apply_confidence_caps.                                                 *)

MarketCap == 35

DisputeCap == 50

SourceMargin == 10

SourceScores(prompt, answer) ==
  {e.trust : e \in CitedEvidence(prompt, answer)} \union
  {c.confidence : c \in CitedClaims(prompt, answer)}

UnverifiedMarket(prompt, answer) == prompt.market /\ ~Verified(prompt, answer)

CitesDispute(prompt, answer) ==
  \E c \in CitedClaims(prompt, answer) : c.status = "disputed"

\* Fault: the cap of the sources replaces that of the market.
LastCapOnly(prompt, answer) ==
  LET scores == SourceScores(prompt, answer)
      caps == IF CitesDispute(prompt, answer) THEN {DisputeCap, 100}
              ELSE IF scores # {} THEN {Min(scores) + SourceMargin, 100}
              ELSE IF UnverifiedMarket(prompt, answer) THEN {MarketCap}
              ELSE {100}
  IN  [answer EXCEPT !.confidence = Min(caps \union {answer.confidence})]

\* The answer with the least of the caps that apply; a cap of the market or of
\* a dispute adds a limitation.
ApplyCaps(prompt, answer) ==
  LET market == UnverifiedMarket(prompt, answer)
      dispute == CitesDispute(prompt, answer)
      scores == SourceScores(prompt, answer)
      caps == (IF market THEN {MarketCap} ELSE {}) \union
              (IF dispute THEN {DisputeCap} ELSE {}) \union
              (IF scores = {} THEN {} ELSE {Min(scores) + SourceMargin, 100})
  IN  [answer EXCEPT
        !.confidence = Min(caps \union {answer.confidence}),
        !.limitations = @ \/ market \/ dispute]

-----------------------------------------------------------------------------
(* PolicyEngine.evaluate: the rules an answer breaks.                      *)

RulesOnSources(prompt, answer) ==
  LET claims == CitedClaims(prompt, answer)
      evidence == CitedEvidence(prompt, answer)
  IN  [invented_evidence |-> ~(answer.evidence \subseteq IdsOf(prompt.evidence)),
       invented_claims |-> ~(answer.claims \subseteq IdsOf(prompt.claims)),
       missing_support |-> ~SupportSupplied(prompt, answer),
       future_support |->
         \E c \in claims, e \in prompt.evidence :
           e.id \in c.evidence /\ e.observed > c.asserted,
       retracted |-> \E c \in claims : c.status = "retracted",
       business_time |->
         /\ prompt.business # Unset
         /\ \/ \E c \in claims : \/ c.effective > prompt.business
                                 \/ c.expires <= prompt.business
            \/ \E e \in evidence : e.dated > prompt.business,
       knowledge_time |->
         /\ prompt.knowledge # Unset
         /\ \/ \E c \in claims : c.asserted > prompt.knowledge
            \/ \E e \in evidence : e.observed > prompt.knowledge,
       confidence |->
         UnverifiedMarket(prompt, answer) /\ answer.confidence > MarketCap]

SideEffects == {"write", "execute"}

\* Fault: a transaction may be called a write.
RulesOnClassifiedActions(actions) ==
  [unapproved |-> \E x \in actions : x.effect \in SideEffects /\ ~x.approval,
   disabled |-> \E x \in actions : x.effect = "execute" /\ ~ExecutionEnabled,
   no_key |-> \E x \in actions : x.effect = "execute" /\ ~x.key,
   notional |->
     \E x \in actions :
       /\ x.effect = "execute"
       /\ x.notional = Unset \/ MaxNotional = 0 \/ x.notional > MaxNotional]

RulesOnActions(actions) ==
  [misclassified |-> \E x \in actions : x.transactional /\ x.effect # "execute",
   unapproved |-> \E x \in actions : x.effect \in SideEffects /\ ~x.approval,
   disabled |-> \E x \in actions : x.effect = "execute" /\ ~ExecutionEnabled,
   no_key |-> \E x \in actions : x.effect = "execute" /\ ~x.key,
   notional |->
     \E x \in actions :
       /\ x.effect = "execute"
       /\ x.notional = Unset \/ MaxNotional = 0 \/ x.notional > MaxNotional]

\* What an answer can be blocked for.
Reasons ==
  {"invented_evidence", "invented_claims", "missing_support", "future_support",
   "retracted", "business_time", "knowledge_time", "confidence",
   "misclassified", "unapproved", "disabled", "no_key", "notional",
   "calculations", "guarantee"}

\* The names of the facts that hold.
Holding(facts) == {f \in DOMAIN facts : facts[f]}

\* The reasons to block the answer; warnings are left out.
Blocked(prompt, answer) ==
  Holding(RulesOnSources(prompt, answer)) \union
  Holding(RulesOnActions(answer.actions)) \union
  (IF answer.calculations = "none" THEN {} ELSE {"calculations"}) \union
  (IF answer.promises THEN {"guarantee"} ELSE {})

-----------------------------------------------------------------------------
(* evaluate_answer: the release gate.                                      *)

\* The claims and all their evidence lie before the cutoffs.
PointInTime(prompt, answer) ==
  /\ prompt.business # Unset =>
       /\ \A c \in CitedClaims(prompt, answer) :
            c.effective <= prompt.business /\ prompt.business < c.expires
       /\ \A e \in UsedSources(prompt, answer) : e.dated <= prompt.business
  /\ prompt.knowledge # Unset =>
       /\ \A c \in CitedClaims(prompt, answer) : c.asserted <= prompt.knowledge
       /\ \A e \in UsedSources(prompt, answer) : e.observed <= prompt.knowledge

Checks(prompt, answer) ==
  [mode_resolved |-> TRUE,
   evidence_ids_valid |-> answer.evidence \subseteq IdsOf(prompt.evidence),
   claim_ids_valid |-> answer.claims \subseteq IdsOf(prompt.claims),
   claim_support_complete |-> SupportSupplied(prompt, answer),
   point_in_time_safe |-> PointInTime(prompt, answer),
   market_claims_have_verified_sources |-> ~UnverifiedMarket(prompt, answer),
   calculations_are_deterministic |-> answer.calculations # "other",
   risk_is_disclosed |-> prompt.market => answer.risks,
   uncertainty_is_explained |-> answer.limitations \/ answer.confidence >= 80,
   side_effects_require_approval |->
     \A x \in answer.actions : x.effect \in SideEffects => x.approval,
   no_execution_authorized_in_analysis |-> TRUE,
   policy_allowed |-> Blocked(prompt, answer) = {}]

Weight ==
  [mode_resolved |-> 5, evidence_ids_valid |-> 10, claim_ids_valid |-> 10,
   claim_support_complete |-> 10, point_in_time_safe |-> 10,
   market_claims_have_verified_sources |-> 15,
   calculations_are_deterministic |-> 10, risk_is_disclosed |-> 5,
   uncertainty_is_explained |-> 5, side_effects_require_approval |-> 5,
   no_execution_authorized_in_analysis |-> 5, policy_allowed |-> 10]

\* Every critical failure is that of a mandatory check.
Mandatory ==
  DOMAIN Weight \ {"mode_resolved", "risk_is_disclosed",
                   "uncertainty_is_explained"}

ReleaseScore == 80

\* What a check adds to the score when it is met.
Points(met, check) == IF check \in met THEN Weight[check] ELSE 0

\* The sum of the weights of the checks that are met.
Score(met) ==
  Points(met, "mode_resolved") + Points(met, "evidence_ids_valid") +
  Points(met, "claim_ids_valid") + Points(met, "claim_support_complete") +
  Points(met, "point_in_time_safe") +
  Points(met, "market_claims_have_verified_sources") +
  Points(met, "calculations_are_deterministic") +
  Points(met, "risk_is_disclosed") + Points(met, "uncertainty_is_explained") +
  Points(met, "side_effects_require_approval") +
  Points(met, "no_execution_authorized_in_analysis") +
  Points(met, "policy_allowed")

\* What analyze returns: the capped answer, what the policy and the evaluation
\* say of it, and whether it may be released.
Judge(prompt, raw) ==
  LET answer == ApplyCaps(prompt, raw)
      met == Holding(Checks(prompt, answer))
  IN  [answer |-> answer,
       blocked |-> Blocked(prompt, answer),
       approval |-> \E x \in answer.actions : x.effect \in SideEffects,
       score |-> Score(met),
       passed |-> Score(met) >= ReleaseScore /\ Mandatory \subseteq met]
=============================================================================
