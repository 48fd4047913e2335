--------------------------- MODULE CandidateSources ---------------------------
(***************************************************************************)
(* What the jobs about candidates take from the web, and how: the login to *)
(* THE VC, the cards of its pages, the company chosen among SMINFO's       *)
(* search results, and the marks computed from what was found.  Pages and  *)
(* their markup are cut down to the fields that the jobs go on to use.     *)
(***************************************************************************)
EXTENDS Integers, SequencesExt

CONSTANTS
  Norm,     \* normalize_company_name, for the names it changes
  P1Areas   \* places within the areas of regional_priority

NormName(name) == IF name \in DOMAIN Norm THEN Norm[name] ELSE name
-----------------------------------------------------------------------------
(* THE VC                                                                  *)

\* _ensure_logged_in: before is the outcome remembered by the client, account
\* that it has credentials, button and gated what the page shows, accepted
\* that THE VC takes the credentials.
Login(before, required, account, button, gated, accepted) ==
  IF before # "unknown" THEN IF required /\ before = "failed" THEN "raised" ELSE before
  ELSE IF (~button /\ ~gated) \/ (account /\ button /\ accepted) THEN "succeeded"
  ELSE IF required THEN "raised"
  ELSE IF account THEN "failed" ELSE "not_attempted"

Least(a, b) == IF a < b THEN a ELSE b
Take(s, n) == SubSeq(s, 1, Least(n, Len(s)))

\* The cards of the pages, one after the other.
CardsOf(pages, n) ==
  LET upTo[k \in 0 .. Len(pages)] ==
        IF k = 0 THEN <<>> ELSE upTo[k - 1] \o Take(pages[k], n)
  IN  upTo[Len(pages)]

\* Mutation of FromPages: cards met twice are taken twice.
FromPagesTwice(pages, n) == Take(CardsOf(pages, n), n)

\* extract_thevc_sources_from_rendered_pages: the first card of each profile.
FromPages(pages, n) ==
  LET all == CardsOf(pages, n)
      upTo[k \in 0 .. Len(all)] ==
        IF k = 0 THEN <<>>
        ELSE IF \E j \in 1 .. k - 1 : all[j].co = all[k].co THEN upTo[k - 1]
        ELSE Append(upTo[k - 1], all[k])
  IN  Take(upTo[Len(all)], n)

Or(x, y) == IF x # "" THEN x ELSE y

\* _detail_from_json_ld: the first node that says anything about the company.
FirstTold(nodes) ==
  LET told == SelectSeq(nodes, LAMBDA n : n.home # "" \/ n.region # "" \/ n.rep # "")
  IN  IF told = <<>> THEN [home |-> "", region |-> "", rep |-> ""] ELSE told[1]

\* _homepage_from_anchors: links labelled as the homepage, then those with ref=thevc.
FirstLink(links) ==
  LET picked == SelectSeq(links, LAMBDA l : l.as = "homepage") \o SelectSeq(links, LAMBDA l : l.as = "ref")
  IN  IF picked = <<>> THEN "" ELSE picked[1].url

\* extract_thevc_company_detail: nodes before links before text.
Detail(page) ==
  LET node == FirstTold(page.nodes)
  IN  [home   |-> Or(node.home, Or(FirstLink(page.links), page.text.home)),
       region |-> Or(node.region, page.text.region),
       rep    |-> Or(node.rep, page.text.rep)]

\* _enrich_card: the company's page, or nothing when it cannot be fetched.
Enriched(card, site, fetched, browser) ==
  [co |-> card.co, browser |-> browser, name |-> site.name, round |-> card.round, investor |-> site.investor,
   home   |-> IF fetched THEN site.home ELSE "",
   region |-> IF fetched THEN site.region ELSE "",
   rep    |-> IF fetched THEN site.rep ELSE ""]
-----------------------------------------------------------------------------
(* SMINFO                                                                  *)

\* Mutation of ChooseResult: the first of several results is taken.
ChooseFirst(company, candidate, results) ==
  IF results = <<>> THEN [status |-> "not_found", place |-> "", figure |-> ""]
  ELSE [status |-> "matched", place |-> results[1].place, figure |-> results[1].figure]

\* choose_sminfo_search_result, and the profile behind the result chosen.
ChooseResult(company, candidate, results) ==
  LET None(status) == [status |-> status, place |-> "", figure |-> ""]
      IsOne(set) == \E k \in set : set = {k}
      exact == {k \in DOMAIN results : NormName(results[k].name) = NormName(company)}
      named == IF exact = {} /\ Len(results) = 1 THEN DOMAIN results ELSE exact
      byRep == {k \in named : candidate.rep # "" /\ results[k].rep = candidate.rep}
      left  == IF byRep = {} THEN named ELSE byRep
      near  == {k \in left : candidate.region # "" /\ results[k].place = candidate.region}
      one   == IF IsOne(named) THEN named ELSE IF IsOne(byRep) THEN byRep ELSE near
      best  == results[CHOOSE k \in one : TRUE]
  IN  IF results = <<>> THEN None("not_found")
      ELSE IF ~IsOne(one) THEN None("ambiguous")
      ELSE [status |-> "matched", place |-> best.place, figure |-> best.figure]
-----------------------------------------------------------------------------
(* Marks                                                                   *)

\* The columns of evaluate_p1_regional_priority about the region.
P1(places) ==
  IF places \intersect P1Areas = {} THEN [p1 |-> "N", rule |-> ""] ELSE [p1 |-> "Y", rule |-> "area"]

\* _kvic_investor_context: the investor if KVIC knows it as a manager.
KvicContext(investor, managers) == IF investor \in managers THEN investor ELSE ""
=============================================================================
