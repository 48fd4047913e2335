------------------------------ MODULE Scoring ------------------------------
(***************************************************************************)
(* How a candidate is scored for an AC (scoring, probabilistic_scoring)    *)
(* and how the weights are learnt from reviews (calibration).  There is no *)
(* state here: Judgements has the variables.                               *)
(*                                                                         *)
(* The code's floating point is counted in thousandths, rounded down.  A   *)
(* sigmoid is compared with a bound by comparing its argument with the     *)
(* bound's logit.  Words are those of all tokens and tags, folded.         *)
(***************************************************************************)
EXTENDS Integers, SequencesExt

Unit == 1000
Clip(x) == IF x < 0 THEN 0 ELSE IF x > Unit THEN Unit ELSE x
Bound(x, low, high) == IF x < low THEN low ELSE IF x > high THEN high ELSE x

\* The sum of a sequence of numbers.
Total(numbers) ==
  LET sum[n \in 0 .. Len(numbers)] == IF n = 0 THEN 0 ELSE sum[n - 1] + numbers[n]
  IN  sum[Len(numbers)]
-----------------------------------------------------------------------------
(* scoring.py.  A signal has a confidence, a type, tags, words, a source.  *)

GrowthTypes == {"traction", "growth", "revenue", "investment", "partnership"}
ImpactTypes == {"impact", "social_impact", "esg", "climate"}

SignalTags(signals) == UNION {s.tags : s \in ToSet(signals)}
Observed(signals)   == SignalTags(signals) \union UNION {s.words : s \in ToSet(signals)}

AverageConfidence(signals) ==
  IF signals = <<>> THEN 0
  ELSE Total([k \in DOMAIN signals |-> Clip(signals[k].confidence)]) \div Len(signals)

HasType(signals, types) == \E s \in ToSet(signals) : s.type \in types

BaseScore(signals) ==
  IF signals = <<>> THEN 0
  ELSE LET volume == IF Len(signals) < 3 THEN Len(signals) ELSE 3
           sum == 20 * AverageConfidence(signals) + (5 * Unit * volume) \div 3
                  + (IF HasType(signals, GrowthTypes) THEN 5 * Unit ELSE 0)
                  + (IF HasType(signals, ImpactTypes) THEN 5 * Unit ELSE 0)
       IN  IF sum > 35 * Unit THEN 35 * Unit ELSE sum

\* Mutation of Share: of all words there are.
ShareOfAll(expected, observed) ==
  IF expected = {} THEN 0
  ELSE (Unit * Cardinality(expected \intersect observed)) \div Cardinality(expected \union observed)

\* _tag_or_token_score, as a share of its max_score.
Share(expected, observed) ==
  IF expected = {} THEN 0
  ELSE (Unit * Cardinality(expected \intersect observed)) \div Cardinality(expected)

FundFit(signals, profile)   == Share(profile.purpose, Observed(signals))
ImpactFit(signals, profile) == Share(profile.impact, Observed(signals))
RecruitingFit(entity, profile) ==
  IF entity.region # "" /\ entity.region \in profile.regions THEN Unit ELSE 0
HypothesisFit(signals, entity, profile) ==
  Share(profile.desired, Observed(signals) \union ({entity.industry} \ {""}))

TotalScore(signals, entity, profile) ==
  LET sum == BaseScore(signals) + 15 * FundFit(signals, profile)
             + 15 * RecruitingFit(entity, profile)
             + 15 * HypothesisFit(signals, entity, profile) + 20 * ImpactFit(signals, profile)
  IN  IF sum > 100 * Unit THEN 100 * Unit ELSE sum

RecommendedAction(total) ==
  IF total >= 75 * Unit THEN "advance"
  ELSE IF total >= 55 * Unit THEN "watchlist"
  ELSE IF total >= 40 * Unit THEN "request_more_info"
  ELSE "archive"

ChannelTrust(tags) ==
  IF tags \intersect {"internal_screening_memo", "semi_qualified_signal",
                      "external_referral", "referral_signal"} # {} THEN 900
  ELSE IF tags \intersect {"info_mail", "inbound_intent"} # {} THEN 700
  ELSE IF tags \intersect {"hankyung_ceo_interview", "public_cold_lead"} # {} THEN 350
  ELSE 550
MultiChannelSignal(signals) ==
  IF Cardinality({s.source : s \in ToSet(signals)}) >= 2 THEN Unit ELSE 0
PriorDecision(tags) ==
  IF "prior_advance" \in tags THEN Unit
  ELSE IF tags \intersect {"prior_watchlist", "prior_hold"} # {} THEN 450
  ELSE IF "prior_reject" \in tags THEN 0
  ELSE 200
Freshness(tags) == IF "stale" \in tags THEN 100 ELSE IF "fresh" \in tags THEN Unit ELSE 650
Risk(tags) == IF "high_risk" \in tags THEN 900 ELSE IF "risk" \in tags THEN 500 ELSE 100

Uncertainty(signals) ==
  Clip(Unit - AverageConfidence(signals) + IF Len(signals) <= 1 THEN 250 ELSE 0)

Features(signals, entity, profile) ==
  LET tags == SignalTags(signals)
  IN  [fund_fit |-> FundFit(signals, profile), recruitment_fit |-> RecruitingFit(entity, profile),
       impact_fit |-> ImpactFit(signals, profile), channel_trust |-> ChannelTrust(tags),
       multi_channel_signal |-> MultiChannelSignal(signals),
       prior_decision |-> PriorDecision(tags), freshness |-> Freshness(tags), risk |-> Risk(tags)]
-----------------------------------------------------------------------------
(* probabilistic_scoring.py                                                *)

DefaultModel ==
  [beta0 |-> -2000, fund_fit |-> 1500, recruitment_fit |-> 1200, impact_fit |-> 1800,
   channel_trust |-> 1400, multi_channel_signal |-> 800, prior_decision |-> 700,
   freshness |-> 500, risk |-> 1100]

Utility(model, f) ==
  LET part(field) == (model[field] * Clip(f[field])) \div Unit
  IN  model.beta0 + part("fund_fit") + part("recruitment_fit") + part("impact_fit")
      + part("channel_trust") + part("multi_channel_signal") + part("prior_decision")
      + part("freshness") - part("risk")

Logit75 == 1099   \* of 0.75, rounded up
Logit40 == -405   \* of 0.4, rounded up

\* Mutation of RouteCandidate: the watchlist begins at one half.
RouteHalf(utility, uncertainty, impact_fit, thesis_conflict, new_channel) ==
  IF utility >= Logit75 THEN "priority"
  ELSE IF \/ uncertainty >= 650
          \/ impact_fit >= 800 /\ thesis_conflict
          \/ impact_fit >= 750 /\ new_channel
    THEN "exploration"
  ELSE IF utility >= 0 THEN "watchlist" ELSE "archive"

RouteCandidate(utility, uncertainty, impact_fit, thesis_conflict, new_channel) ==
  IF utility >= Logit75 THEN "priority"
  ELSE IF \/ uncertainty >= 650
          \/ impact_fit >= 800 /\ thesis_conflict
          \/ impact_fit >= 750 /\ new_channel
    THEN "exploration"
  ELSE IF utility >= Logit40 THEN "watchlist" ELSE "archive"

QueueType(model, signals, entity, profile) ==
  LET tags == SignalTags(signals)
      f    == Features(signals, entity, profile)
  IN  RouteCandidate(Utility(model, f), Uncertainty(signals), f.impact_fit,
                     "thesis_conflict" \in tags, "new_channel" \in tags)
-----------------------------------------------------------------------------
(* calibration.py.  An example is a decision and the fits it was made on.  *)

DecisionWeight ==
  [advance |-> 1000, watchlist |-> 350, request_more_info |-> -250, reject |-> -1000]
Usable(example) == example.decision \in DOMAIN DecisionWeight
LearningRate == 250
MaxDelta == 200
Ceiling == 5000

\* The places of the usable examples, and the sum of a value over them.
UsableOf(examples) == {k \in DOMAIN examples : Usable(examples[k])}
Aggregate(examples, Value(_)) ==
  Total([k \in DOMAIN examples |-> IF Usable(examples[k]) THEN Value(examples[k]) ELSE 0])

Weight(example) == DecisionWeight[example.decision]
Weighted(examples, field) == Aggregate(examples, LAMBDA x : Weight(x) * Clip(x[field]))

\* Mutation of FeatureDelta: divided by all examples there are.
FeatureDeltaOfAll(examples, field) ==
  Bound((LearningRate * Weighted(examples, field)) \div (Unit * Unit * Len(examples)),
        -MaxDelta, MaxDelta)

FeatureDelta(examples, field) ==
  Bound((LearningRate * Weighted(examples, field))
          \div (Unit * Unit * Cardinality(UsableOf(examples))), -MaxDelta, MaxDelta)

InterceptDelta(examples) ==
  Bound((LearningRate * Aggregate(examples, Weight))
          \div (4 * Unit * Cardinality(UsableOf(examples))), -MaxDelta, MaxDelta)

Calibrated(examples) ==
  IF UsableOf(examples) = {} THEN DefaultModel
  ELSE LET learnt(field) == Bound(DefaultModel[field] + FeatureDelta(examples, field), 0, Ceiling)
       IN  [DefaultModel EXCEPT
              !.beta0 = @ + InterceptDelta(examples), !.fund_fit = learnt("fund_fit"),
              !.recruitment_fit = learnt("recruitment_fit"), !.impact_fit = learnt("impact_fit")]

\* _corpus_hash: equal for the same usable reviews, in any order.
CorpusHash(examples) ==
  {[id |-> examples[k].id, decision |-> examples[k].decision, fund_fit |-> examples[k].fund_fit,
    recruitment_fit |-> examples[k].recruitment_fit, impact_fit |-> examples[k].impact_fit] :
     k \in UsableOf(examples)}
=============================================================================
