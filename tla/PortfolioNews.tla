---------------------------- MODULE PortfolioNews ----------------------------
(***************************************************************************)
(* The news side of crawl_sources: the Platum targets are read one after   *)
(* the other, each with its watchlist and its sheet tab; what is new goes  *)
(* into the store, then onto the tabs, then to Slack, and the rows of what *)
(* was sent are marked.  The agent loop runs the job again and again in    *)
(* one process; a run may die, or fail with an exception, at every step.   *)
(*                                                                         *)
(* A news is an <<article, company>> pair, in the code its url and the     *)
(* company its watchlist matched.  Each target has a tab of its own.  One  *)
(* upsert of a tab is one step.  The "Evidence" tab, the message's wording *)
(* and its limit of ten entries are left out.                              *)
(***************************************************************************)
EXTENDS Integers, SequencesExt

CONSTANTS
  Tabs,        \* the tabs of the Platum targets, in the order of the targets
  DefaultTab,  \* "Portfolio News"
  RecentOnly,  \* tabs whose target sets portfolio_notify_recent_days
  Watch,       \* for each tab, the news its watchlist matches, as a sequence
  AllPages,    \* articles on the max_pages pages that a target reads
  OnePage,     \* articles on the first of them
  MaxFaults,   \* bound: deaths and failed reads of later pages
  MaxEdits     \* bound: rows that operators delete

News      == UNION {ToSet(Watch[t]) : t \in DOMAIN Watch}
Articles  == {n[1] : n \in News}
Companies == {n[2] : n \in News}

ASSUME NewsAssumption ==
  /\ Tabs \in Seq(ToSet(Tabs)) /\ IsInjective(Tabs)
  /\ DefaultTab \in ToSet(Tabs) /\ RecentOnly \subseteq ToSet(Tabs)
  /\ DOMAIN Watch = ToSet(Tabs) /\ \A t \in ToSet(Tabs) : Watch[t] \in Seq(ToSet(Watch[t]))
  /\ \A n \in News : n = <<n[1], n[2]>> /\ n[1] # "" /\ n[2] # ""
  /\ OnePage \in Nat \ {0} /\ AllPages \in Nat /\ OnePage <= AllPages
  /\ MaxFaults \in Nat /\ MaxEdits \in Nat

Sheet == INSTANCE SheetUpsert WITH KeyFields <- <<"url", "company">>, Protected <- {}

VARIABLES
  site,       \* articles of the category page, the newest last
  old,        \* those published before the recent days
  known,      \* news with raw source, signal and entity in the store
  sheet,      \* rows of each tab
  announced,  \* Slack messages about each news, per tab
  step,       \* of the run: "idle", "read", "ingest", "publish", "notify", "mark"
  at,         \* the target or the tab it is at
  sources,    \* news to ingest
  batch,      \* portfolio_news_batches
  told,       \* news of the message just sent
  faults,
  edits       \* rows that operators deleted, per tab

world == <<site, old>>
run   == <<step, at, sources, batch, told>>
bound == <<faults, edits>>
vars  == <<world, known, sheet, announced, run, bound>>

TabSet == ToSet(Tabs)
Tab    == Tabs[at]
NoBatch == [t \in TabSet |-> <<>>]

Row(n, notified_at) == [url |-> n[1], company |-> n[2], notified_at |-> notified_at]
Rows(news, notified_at) == [k \in DOMAIN news |-> Row(news[k], notified_at)]
OnSheet(t) == {<<row.url, row.company>> : row \in ToSet(sheet[t])}
Shown(k)   == SubSeq(site, IF Len(site) > k THEN Len(site) - k + 1 ELSE 1, Len(site))
-----------------------------------------------------------------------------
(* The world.                                                              *)

\* An article comes out.
Appear(a) ==
  /\ a \notin ToSet(site)
  /\ site' = Append(site, a)
  /\ UNCHANGED <<old, known, sheet, announced, run, bound>>

\* Days pass.
Age(a) ==
  /\ a \in ToSet(site) \ old
  /\ old' = old \union {a}
  /\ UNCHANGED <<site, known, sheet, announced, run, bound>>

\* An operator deletes a row.
Delete(t, k) ==
  /\ k \in DOMAIN sheet[t] /\ edits[t] < MaxEdits
  /\ sheet' = [sheet EXCEPT ![t] = RemoveAt(@, k)]
  /\ edits' = [edits EXCEPT ![t] = @ + 1]
  /\ UNCHANGED <<world, known, announced, run, faults>>
-----------------------------------------------------------------------------
(* A run of crawl_sources.                                                 *)

\* The first tab from k on with something to do in this phase, 0 if none.
NextTab(k, has(_)) ==
  LET left == {j \in k .. Len(Tabs) : has(Tabs[j])}
  IN  IF left = {} THEN 0 ELSE CHOOSE j \in left : \A i \in left : j <= i

Goto(phase, k) == step' = phase /\ at' = k

Start ==
  /\ step = "idle"
  /\ Goto("read", 1)
  /\ UNCHANGED <<world, known, sheet, announced, sources, batch, told, bound>>

\* extract_platum_portfolio_news_sources over k articles, the newest first.
Extracted(t, k) ==
  LET articles == Reverse(Shown(k))
      f[j \in 0 .. Len(articles)] ==
        IF j = 0 THEN <<>>
        ELSE f[j - 1] \o Sheet!Only(Watch[t], {n \in News : n[1] = articles[j]})
  IN  f[Len(articles)]

\* Mutations of Candidates: no tab goes by the store; every tab does.
CandidatesAll(t, found) == found
CandidatesNew(t, found) == Sheet!Only(found, News \ known)

\* sheet_candidate_sources: only the default tab goes by the store.
Candidates(t, found) ==
  IF t = DefaultTab THEN Sheet!Only(found, News \ known) ELSE found

\* One target: its pages, the store and its tab are read.  If a later page
\* cannot be fetched the first ones have to do.
Read ==
  /\ step = "read"
  /\ \E k \in {OnePage, AllPages} :
       LET found == Extracted(Tab, k)
       IN  /\ k = AllPages \/ faults < MaxFaults
           /\ faults' = IF k = AllPages THEN faults ELSE faults + 1
           /\ sources' = sources \union {n \in ToSet(found) : n \notin known}
           /\ batch' = [batch EXCEPT ![Tab] =
                Sheet!Only(Candidates(Tab, found), News \ OnSheet(Tab))]
  /\ IF at < Len(Tabs) THEN Goto("read", at + 1) ELSE Goto("ingest", 1)
  /\ UNCHANGED <<world, known, sheet, announced, told, edits>>

\* The run ends.
Done == Goto("idle", 1) /\ sources' = {} /\ batch' = NoBatch /\ told' = <<>>
Same == UNCHANGED <<sources, batch, told>>

ToPublish(k) ==
  LET j == NextTab(k, LAMBDA t : batch[t] # <<>>)
  IN  IF j = 0 THEN Goto("notify", 1) ELSE Goto("publish", j)

\* ingest_sources; a source is taken for known by its last table only.
Ingest ==
  /\ step = "ingest"
  /\ known' = known \union sources
  /\ ToPublish(1) /\ Same
  /\ UNCHANGED <<world, sheet, announced, bound>>

\* _publish_portfolio_news_projection of one tab.
Publish ==
  /\ step = "publish"
  /\ sheet' = [sheet EXCEPT ![Tab] = Sheet!Upsert(@, Rows(batch[Tab], ""))]
  /\ ToPublish(at + 1) /\ Same
  /\ UNCHANGED <<world, known, announced, bound>>

\* Mutation of Notifiable: every tab wants recent news only.
NotifiableRecent(t) == Sheet!Only(batch[t], {n \in News : n[1] \notin old})

\* _notifiable_portfolio_news_sources
Notifiable(t) ==
  Sheet!Only(batch[t], {n \in News : t \notin RecentOnly \/ n[1] \notin old})

\* _notify_portfolio_news of the next tab with something to tell.
Notify ==
  /\ step = "notify"
  /\ LET j == NextTab(at, LAMBDA t : Notifiable(t) # <<>>)
     IN  IF j = 0 THEN Done /\ UNCHANGED announced
         ELSE /\ announced' = [announced EXCEPT ![Tabs[j]] =
                   [n \in News |-> IF n \in ToSet(Notifiable(Tabs[j])) THEN @[n] + 1 ELSE @[n]]]
              /\ told' = Notifiable(Tabs[j])
              /\ Goto("mark", j)
              /\ UNCHANGED <<sources, batch>>
  /\ UNCHANGED <<world, known, sheet, bound>>

\* _mark_portfolio_news_notified
Mark ==
  /\ step = "mark"
  /\ sheet' = [sheet EXCEPT ![Tab] = Sheet!Upsert(@, Rows(told, "now"))]
  /\ IF at < Len(Tabs) THEN Goto("notify", at + 1) /\ Same ELSE Done
  /\ UNCHANGED <<world, known, announced, bound>>

\* The run dies or raises: the first page, the store, the sheet or Slack fails.
Die ==
  /\ step # "idle"
  /\ faults < MaxFaults /\ faults' = faults + 1
  /\ Done
  /\ UNCHANGED <<world, known, sheet, announced, edits>>

Init ==
  /\ site = <<>> /\ old = {}
  /\ known = {}
  /\ sheet = NoBatch
  /\ announced = [t \in TabSet |-> [n \in News |-> 0]]
  /\ step = "idle" /\ at = 1 /\ sources = {} /\ batch = NoBatch /\ told = <<>>
  /\ faults = 0 /\ edits = [t \in TabSet |-> 0]

Crawl == Start \/ Read \/ Ingest \/ Publish \/ Notify \/ Mark

Next ==
  \/ Crawl \/ Die
  \/ \E a \in Articles : Appear(a) \/ Age(a)
  \/ \E t \in TabSet : \E k \in DOMAIN sheet[t] : Delete(t, k)

Spec == Init /\ [][Next]_vars

\* The agent loop runs the job for ever.  (One of Crawl's steps is enabled in
\* every state, so that this is weak fairness of Crawl.)
FairSpec == Spec /\ []<><<Crawl>>_vars
-----------------------------------------------------------------------------
(* Properties.                                                             *)

\* No two news that a tab watches are about one article or one company.
Apart(t) == \A m, n \in ToSet(Watch[t]) : m[1] = n[1] \/ m[2] = n[2] => m = n

\* No news is told twice in a tab's channel, whatever runs die and pages fail:
\* in the default tab because of the store, in the others because of the tab,
\* so that there a deleted row is told again.  (A tab remembers news that are
\* apart; of others one upsert puts the row of one over that of another.)
AnnouncedOnce ==
  \A t \in TabSet, n \in News :
    IF t = DefaultTab THEN announced[t][n] <= 1
    ELSE Apart(t) => announced[t][n] <= 1 + edits[t]

\* The default tab never tells of a news in the store: this one is lost to it.
Lost(n) ==
  /\ n \in known /\ announced[DefaultTab][n] = 0
  /\ step = "idle" \/ n \notin ToSet(batch[DefaultTab])

\* The default tab loses a news in two ways only: its run dies, or another
\* target of the same run met it in an article that came out in between.  (If
\* its target wants recent news only, one that got old is left out on purpose.)
LostByDeathOrRace ==
  [][\A n \in ToSet(Watch[DefaultTab]) :
       ~Lost(n) /\ Lost(n)' =>
         \/ faults' > faults
         \/ n \notin ToSet(batch[DefaultTab])
         \/ DefaultTab \in RecentOnly /\ n[1] \in old]_vars

\* A news that stays on the site is in the end told or, where its target is
\* not the default one, on the tab at least, unless it is lost.
NewsSettles ==
  \A t \in TabSet : \A n \in ToSet(Watch[t]) :
    n[1] \in ToSet(site) ~>
      \/ announced[t][n] > 0
      \/ t = DefaultTab /\ Lost(n)
      \/ t # DefaultTab /\ n \in OnSheet(t)
      \/ n[1] \notin ToSet(Shown(AllPages))
=============================================================================
