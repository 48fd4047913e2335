------------------------------ MODULE MCJudgements ------------------------------
(* Instances of Judgements for TLC. *)
EXTENDS Judgements

MCAreas  == [busan |-> {"seogu", "donggu"}, gangwon |-> {"goseong", "taebaek"},
             gyeongnam |-> {"goseong", "namhae"}]
MCInside == [gangseogu |-> {"seogu"}, seongdonggu |-> {"donggu"}]
MCWords  == {"busan", "seogu", "gangseogu", "seongdonggu", "goseong", "taebaek", "gyeonggi", "gwacheon"}

Doubts == {"public_cold_lead", "stale", "high_risk", "prior_reject"}
S(confidence, type, tags, words, source) ==
  [confidence |-> confidence, type |-> type, tags |-> tags, words |-> words, source |-> source]
MCSignals ==
  {S(1000, "growth", Doubts, {"water"}, "a"), S(1000, "impact", {}, {"ai", "soil"}, "a"),
   S(1000, "team", {"thesis_conflict"}, {"seed"}, "a"), S(600, "team", {"new_channel"}, {"seed", "soil"}, "b"),
   S(300, "esg", {"fresh", "prior_hold"}, {"noise"}, "c")}
MCProfiles ==
  {[purpose |-> {"seed"}, impact |-> {"water", "sun"}, desired |-> {"ai", "soil"}, regions |-> {"jeju"}],
   [purpose |-> {"seed", "water"}, impact |-> {"water", "soil", "sun"}, desired |-> {"food"}, regions |-> {}]}
MCCandidates == {[industry |-> "food", region |-> "jeju"], [industry |-> "", region |-> ""]}

Fit(f, r, i) == [fund_fit |-> f, recruitment_fit |-> r, impact_fit |-> i]
MCFits == {Fit(333, 0, 1000), Fit(1000, 1000, 0)}

Names == {{"green"}, {"green", "farm"}}
MCFacts ==
  <<[name |-> Names, domain |-> {"green.kr"}, mail |-> {"a.kr"},
     region |-> {"jeju"}, year |-> {"2025"}],
    [name |-> Names, aliases |-> {{{"green"}}}, domain |-> {"green.kr", "farm.kr"}, mail |-> {"a.kr"},
     region |-> {"jeju", "busan"}, year |-> {"2025", "2026"}],
    [name |-> Names, domain |-> {"green.kr"}]>>
=============================================================================
