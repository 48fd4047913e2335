------------------------------ MODULE Resolution ------------------------------
(***************************************************************************)
(* Whether two records are of one company (entity_resolution by rules,     *)
(* probabilistic_resolution by weights), and how its address and purpose   *)
(* are marked for the P1 fund (regional_priority).  No state here.         *)
(*                                                                         *)
(* A normalised name is the set of its words; a domain, founder, region or *)
(* year a value, "" if unknown.  Weights are in thousandths.               *)
(***************************************************************************)
EXTENDS Integers, SequencesExt

CONSTANTS
  Areas,      \* _POPULATION_DECLINE_AREAS: of a province, its localities
  Ambiguous,  \* _AMBIGUOUS_LOCALITIES
  Inside      \* of some words, the names of places that are part of them

Same(a, b) == a # "" /\ a = b
-----------------------------------------------------------------------------
(* entity_resolution.py: aliases are pairs of a name and an entity.        *)

Result(action, entity, reason) == [action |-> action, entity |-> entity, reason |-> reason]

FirstPlace(places) == CHOOSE k \in places : \A j \in places : k <= j

RegionConflict(a, b) == a.region # "" /\ b.region # "" /\ a.region # b.region

ResolveByRule(candidate, entities, aliases) ==
  LET byDomain == {k \in DOMAIN entities : Same(candidate.domain, entities[k].domain)}
      byAlias  == {k \in DOMAIN aliases : candidate.name # {} /\ candidate.name = aliases[k].name}
      byName   == {k \in DOMAIN entities : candidate.name # {} /\ candidate.name = entities[k].name}
      named    == entities[FirstPlace(byName)]
  IN  IF byDomain # {} THEN Result("merge", entities[FirstPlace(byDomain)].id, "homepage_domain")
      ELSE IF byAlias # {} THEN Result("merge", aliases[FirstPlace(byAlias)].entity, "known_alias")
      ELSE IF byName = {} THEN Result("create", candidate.id, "new_entity")
      ELSE IF RegionConflict(candidate, named)
        THEN Result("needs_review", named.id, "name_match_region_conflict")
      ELSE Result("merge", named.id, "normalized_name")
-----------------------------------------------------------------------------
(* probabilistic_resolution.py                                             *)

Jaccard(a, b) ==
  IF a = {} \/ b = {} THEN 0
  ELSE (1000 * Cardinality(a \intersect b)) \div Cardinality(a \union b)

Agree(a, b) == IF Same(a, b) THEN 1000 ELSE 0

NameOverlap(a, b) ==
  LET names(o) == ({o.name} \union o.aliases) \ {{}}
  IN  IF names(a) \intersect names(b) # {} THEN 1000
      ELSE Jaccard(UNION names(a), UNION names(b))

\* Mutation of RegionMatch: an unknown region is no match.
RegionMatchOnly(a, b) == IF Same(a.region, b.region) THEN 1000 ELSE 0

RegionMatch(a, b) ==
  IF a.region = "" \/ b.region = "" THEN 500 ELSE IF a.region = b.region THEN 1000 ELSE 0
TimeContext(a, b) ==
  IF a.year = "" \/ b.year = "" THEN 500 ELSE IF a.year = b.year THEN 1000 ELSE 200

SameEntityUtility(a, b) ==
  (3200 * Agree(a.domain, b.domain) + 1400 * Agree(a.mail, b.mail)
   + 1600 * Agree(a.founder, b.founder) + 1800 * NameOverlap(a, b)
   + 1200 * Jaccard(a.words, b.words) + 800 * RegionMatch(a, b)
   + 400 * TimeContext(a, b)) \div 1000 - 2400

Logit85 == 1735   \* of merge_threshold, rounded up
Logit45 == -200   \* of review_threshold, rounded up

Resolve(candidate, existing) ==
  IF existing = <<>> THEN [action |-> "create", entity |-> candidate.id]
  ELSE LET of(k) == SameEntityUtility(candidate, existing[k])
           best  == CHOOSE k \in DOMAIN existing : \A j \in DOMAIN existing :
                      of(j) < of(k) \/ (of(j) = of(k) /\ k <= j)
       IN  IF of(best) >= Logit85 THEN [action |-> "merge", entity |-> existing[best].id]
           ELSE IF of(best) >= Logit45 THEN [action |-> "needs_review", entity |-> existing[best].id]
           ELSE [action |-> "create", entity |-> candidate.id]
-----------------------------------------------------------------------------
(* regional_priority.py: an address is a set of words; a name of a place   *)
(* is in the text as well when it is part of a longer word.                *)

Text(address) == address \union UNION {Inside[w] : w \in address \intersect DOMAIN Inside}

SpecificRegions == {"jeonju", "gyeongbuk", "cheongdo", "namhae", "yeongam"}

PopulationDecline(text) ==
  \E province \in DOMAIN Areas : \E locality \in Areas[province] \intersect text :
    province \in text \/ locality \notin Ambiguous

LocationRules(text) ==
  {rule \in {"specific", "gyeonggi", "gwacheon", "jeju", "decline"} :
     CASE rule = "specific" -> text \intersect SpecificRegions # {}
       [] rule = "decline"  -> PopulationDecline(text)
       [] OTHER -> rule \in text}

\* Mutation of PurposeMatch: a keyword only counts where one was asked for.
PurposeMatchAsked(rules, social) ==
  IF social THEN IF "gyeonggi" \in rules THEN "Y" ELSE "N"
  ELSE IF rules \ {"gyeonggi"} # {} THEN "Y"
  ELSE IF "gyeonggi" \in rules THEN "check" ELSE "N"

PurposeMatch(rules, social) ==
  IF social THEN IF rules # {} THEN "Y" ELSE "N"
  ELSE IF rules \ {"gyeonggi"} # {} THEN "Y"
  ELSE IF "gyeonggi" \in rules THEN "check" ELSE "N"

EvaluateP1(address, social) ==
  LET rules == LocationRules(Text(address))
  IN  [region |-> IF rules # {} THEN "Y" ELSE "N", purpose |-> PurposeMatch(rules, social)]
=============================================================================
