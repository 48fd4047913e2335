------------------------------ MODULE Judgements ------------------------------
(***************************************************************************)
(* The scores, coefficients, matches and marks of Scoring and Resolution   *)
(* as their inputs grow: signals of a candidate, reviews of an AC, facts   *)
(* of three records, words of an address.  The jobs that call them are in  *)
(* ReviewCards and CandidateDetail.                                        *)
(***************************************************************************)
EXTENDS Scoring, Resolution

CONSTANTS
  Signals, Profiles, Candidates, MaxEvidence, \* what is scored; bound
  Fits, MaxReviews,   \* fits of the cards reviewed; bound
  Facts, MaxFacts,    \* of each record, what may become known; bound
  Words               \* of addresses

Nobody(id) == [id |-> id, name |-> {}, aliases |-> {}, domain |-> "", mail |-> "",
               founder |-> "", words |-> {}, region |-> "", year |-> ""]

\* Words are finitely many, and fits are numbers.
ASSUME JudgementAssumption ==
  /\ \A s \in Signals : s.confidence \in Int
  /\ \A p \in Profiles : IsFiniteSet(p.purpose) /\ IsFiniteSet(p.impact) /\ IsFiniteSet(p.desired)
  /\ \A f \in Fits : {f.fund_fit, f.recruitment_fit, f.impact_fit} \subseteq Int
  /\ DOMAIN Facts = 1 .. 3
  /\ \A k \in 1 .. 3 : \A field \in DOMAIN Facts[k] :
       /\ field \in DOMAIN Nobody(k) \ {"id"}
       /\ field \in {"name", "words", "aliases"} => \A v \in Facts[k][field] : IsFiniteSet(v)
       /\ field = "aliases" => \A v \in Facts[k][field] : \A n \in v : IsFiniteSet(n)

VARIABLES
  what,      \* "score", "learn", "resolve" or "mark"
  case,      \* the profile and the entity that are scored
  evidence,  \* signals of the candidate
  examples,  \* reviews of the AC, as they were last decided
  records,   \* three records, the first of which is looked up among the others
  place      \* an address, and whether a keyword of the social economy is known

judged == <<what, case, evidence, examples, records, place>>

Decisions == DOMAIN DecisionWeight \union {"hold"}

JudgeInit ==
  /\ what \in {"score", "learn", "resolve", "mark"}
  /\ case \in [profile : Profiles, entity : Candidates]
  /\ what # "score" => case = CHOOSE c \in [profile : Profiles, entity : Candidates] : TRUE
  /\ evidence = <<>> /\ examples = <<>>
  /\ records = [k \in 1 .. 3 |-> Nobody(k)]
  /\ place = [address |-> {}, social |-> FALSE]

Signal(s) ==
  /\ what = "score" /\ Len(evidence) < MaxEvidence
  /\ evidence' = Append(evidence, s)
  /\ UNCHANGED <<what, case, examples, records, place>>

Review(decision, fit) ==
  /\ what = "learn" /\ Len(examples) < MaxReviews
  /\ examples' = Append(examples,
       [id |-> Len(examples) + 1, decision |-> decision, fund_fit |-> fit.fund_fit,
        recruitment_fit |-> fit.recruitment_fit, impact_fit |-> fit.impact_fit])
  /\ UNCHANGED <<what, case, evidence, records, place>>

\* Another decision of the same review, or reviews in another order.
Redecide(k, decision) ==
  /\ examples' = [examples EXCEPT ![k].decision = decision]
  /\ UNCHANGED <<what, case, evidence, records, place>>
Reorder(k) ==
  /\ k > 1 /\ examples' = [examples EXCEPT ![k] = examples[k - 1], ![k - 1] = examples[k]]
  /\ UNCHANGED <<what, case, evidence, records, place>>

\* A record that has nothing there gets a fact.
Known(k, field) == records[k][field] # Nobody(k)[field]
Learn(k, field, value) ==
  /\ what = "resolve" /\ ~Known(k, field)
  /\ Quantify((DOMAIN records) \X (DOMAIN Facts[1]), LAMBDA p : Known(p[1], p[2])) < MaxFacts
  /\ records' = [records EXCEPT ![k][field] = value]
  /\ UNCHANGED <<what, case, evidence, examples, place>>

Mark(address, social) ==
  /\ what = "mark" /\ place' = [address |-> address, social |-> social]
  /\ UNCHANGED <<what, case, evidence, examples, records>>

JudgeNext ==
  \/ \E s \in Signals : Signal(s)
  \/ \E d \in Decisions, f \in Fits : Review(d, f)
  \/ \E k \in DOMAIN examples : Reorder(k) \/ \E d \in Decisions : Redecide(k, d)
  \/ \E k \in DOMAIN records : \E f \in DOMAIN Facts[k] : \E v \in Facts[k][f] : Learn(k, f, v)
  \/ \E w \in Words : Mark(place.address \union {w}, place.social)
  \/ Mark(place.address, TRUE)

JudgeSpec == JudgeInit /\ [][JudgeNext]_judged
-----------------------------------------------------------------------------
(* Properties.                                                             *)

Score(s) == TotalScore(s, case.entity, case.profile)

\* A signal at least as sure as the others so far takes nothing from the total
\* and adds nothing to the uncertainty. (The priority is another number: tags of
\* risk or staleness that come with a signal may still lower that one.)
SureSignalNeverLowers ==
  [][\A s \in Signals :
       evidence' = Append(evidence, s) /\ s.confidence >= AverageConfidence(evidence) =>
         Score(evidence') >= Score(evidence) /\ Uncertainty(evidence') <= Uncertainty(evidence)]_judged

\* The two verdicts on a card agree at the extremes: with the coefficients
\* that no review has changed, who is to be advanced never goes to the archive.
AdvanceNeverArchived ==
  RecommendedAction(Score(evidence)) = "advance" =>
    QueueType(DefaultModel, evidence, case.entity, case.profile) # "archive"

\* Coefficients are left alone while the hash of the corpus is the same; that
\* is right, as whatever leaves the hash alone would not change them either.
SameHashSameModel ==
  [][CorpusHash(examples') = CorpusHash(examples) => Calibrated(examples') = Calibrated(examples)]_judged

Existing == <<records[2], records[3]>>

\* Records that the rules would merge by homepage or by name, the weights take
\* to be of one company as well, or at least show them to a reviewer.
MergedByRuleIsNeverNew ==
  LET rule == ResolveByRule(records[1], Existing, <<>>)
  IN  rule.action = "merge" => Resolve(records[1], Existing).action # "create"

Higher(a, b) == a = b \/ a = "N" \/ b = "Y"

\* Nothing that becomes known of a company takes a P1 mark from it: the mark
\* that enrich_sminfo works out for a row of the tab, from the crawl's fields
\* and SMINFO's address, is no lower than the crawl's.  (A candidate from the
\* queue comes without the crawl's fields: CandidateDetail has that.)
MoreIsNeverUnmarked ==
  [][LET old == EvaluateP1(place.address, place.social)
         new == EvaluateP1(place.address, place.social)'
     IN  Higher(old.region, new.region) /\ Higher(old.purpose, new.purpose)]_judged
=============================================================================
