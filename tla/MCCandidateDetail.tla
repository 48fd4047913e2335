--------------------------- MODULE MCCandidateDetail ---------------------------
(* Instances of CandidateDetail for TLC. *)
EXTENDS CandidateDetail, TLC

CONSTANTS a, b

\* a is written with its legal form; SMINFO knows two companies named like b.
NormOf == "Acme Inc." :> "acme"
CardOf == a :> [name |-> "Acme Inc.", investor |-> "vc1"] @@ b :> [name |-> "beta", investor |-> "vc2"]
D(home, region, rep) == [home |-> home, region |-> region, rep |-> rep]
ProfileOf ==
  a :> [nodes |-> <<D("", "", ""), D("", "jeju", "kim")>>,
        links |-> <<[url |-> "news.kr", as |-> "ref"], [url |-> "a.kr", as |-> "homepage"]>>,
        text  |-> D("", "seoul", "")] @@
  b :> [nodes |-> <<D("b.kr", "", "")>>, links |-> <<>>, text |-> D("", "seoul", "lee")]
SearchOf ==
  "acme" :> <<[name |-> "acme", rep |-> "kim", place |-> "seoul", figure |-> "f1"]>> @@
  "beta" :> <<[name |-> "betamax", rep |-> "lee", place |-> "seoul", figure |-> "f2"],
              [name |-> "beta", rep |-> "lee", place |-> "jeju", figure |-> "f3"]>>
Areas == {"jeju"}
Blank == [f \in Fields |-> ""]
Row(name, home, region, mark) ==
  [Blank EXCEPT !.company = name, !.collected = "yes", !.home = home, !.region = region, !.p1 = mark,
                !.rule = IF mark = "Y" THEN "area" ELSE ""]
OldTab == <<Row("company", "", "", ""),
            [Row("Acme Inc.", "a.kr", "jeju", "Y") EXCEPT !.round = "r2"],
            [Row("beta", "", "", "N") EXCEPT !.round = "r2"]>>
C(company, year) == [co |-> company, round |-> year]
FourCards == <<C(b, "r2"), C(b, "r1"), C(a, "r2"), C(a, "r1")>>
NextCards == <<C(b, "r3")>>
T(browser, required) == [browser |-> browser, required |-> required]
Jobs == {<<T("no", "no")>>, <<T("yes", "yes")>>}
ThreeRounds == <<"r1", "r2", "r3">>
Known == {"vc1"}
Heading == {"company"}
=============================================================================
