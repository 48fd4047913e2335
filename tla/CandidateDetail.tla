---------------------------- MODULE CandidateDetail ----------------------------
(***************************************************************************)
(* The tab "Candidate Detail" and the two jobs that fill its rows in:      *)
(* crawl-sources reads cards and company pages of THE VC, queues the       *)
(* companies for SMINFO and publishes what it saw; enrich-sminfo looks     *)
(* companies up, from the queue once that has a row and else from the tab  *)
(* itself, and publishes what it found to the same rows.                   *)
(*                                                                         *)
(* One job of each kind at a time, each a step for every call that others  *)
(* can come between; a job may die between two.  The clocks of the queue   *)
(* (backoff, leases, attempts) are in SminfoQueue: here any row not yet    *)
(* done may be due.  An upsert is one step: its calls are in SheetTab.     *)
(*                                                                         *)
(* The row keeps the fields that tell these properties apart; figure       *)
(* stands for all that a profile brings, kvic for the investor's columns,  *)
(* collected for what a crawl alone writes: collected_at and the summary.  *)
(***************************************************************************)
EXTENDS CandidateSources

CONSTANTS
  Companies,
  Card,       \* what the cards of each show: name, investor
  Profile,    \* the page of each on THE VC: nodes, links, text
  Search,     \* SMINFO's results for the name of each, all with name, rep, place, figure
  Rounds,     \* investment rounds, oldest first
  Kept,       \* the tab at the start, when the database is new
  Listed,     \* the cards of THE VC at the start, newest first
  Coming,     \* the cards it is going to list, in order
  Placeholders, \* _PLACEHOLDER_COMPANY_NAMES
  CrawlJobs,  \* sequences of targets: browser and required, of "yes" or "no"
  Managers,   \* kvic_investor_managers
  Account,    \* whether THE VC's credentials are configured
  PageSize, MaxPages, MaxCards,  \* cards of a page, max_pages, max_cards
  MaxBatch,   \* of a batch of lookups
  MaxJobs, MaxDeaths,
  MaxChanges, \* bound: new cards, aging, names by hand
  MaxTrouble  \* bound: all three of these

Fields == {"company", "home", "region", "rep", "p1", "rule", "round", "investor",
           "kvic", "collected", "sminfo", "figure", "at"}

Sheet == INSTANCE SheetUpsert WITH KeyFields <- <<"company", "home">>, Protected <- {}

VARIABLES
  listing,   \* cards of THE VC: company and round
  coming,    \* those still to come
  queue,     \* rows of sminfo_enrichment_queue
  known,     \* companies with rows in sminfo_company_profiles
  tab,       \* rows of "Candidate Detail"
  cpc,       \* the next step of the crawl
  targets,   \* its targets still to be read
  login,     \* what its browser remembers of its login
  pages,     \* the pages of the target it is reading
  shown,     \* the number of the last of them
  cards,     \* the cards it has taken
  skipped,   \* companies on pages that its browser passed over
  epc,       \* the next step of the enrichment
  taken,     \* its candidates
  byTab,     \* whether it took them from the tab
  answers,   \* what SMINFO answered about each
  unseen,    \* history: companies listed by a crawl that could not see their page
  split,     \* history: names of which a crawl took cards that make two tasks
  jobs, deaths, changes

crawl  == <<cpc, targets, login, pages, shown, cards, skipped>>
enrich == <<epc, taken, byTab, answers>>
past   == <<unseen, split>>
bounds == <<jobs, deaths, changes>>
detail   == <<listing, coming, queue, known, tab, crawl, enrich, past, bounds>>

\* What THE VC tells about a company on its cards and its page.
Site == [c \in Companies |->
  LET page == Detail(Profile[c])
  IN  [name |-> Card[c].name, investor |-> Card[c].investor,
       home |-> page.home, region |-> page.region, rep |-> page.rep]]

SameCompany(a, b) == NormName(a) = NormName(b)

\* What a row may hold of a company: of SMINFO's results a namesake's figures,
\* or those of the only result.
Figures(c) ==
  LET results == Search[NormName(Site[c].name)]
  IN  {""} \union {r.figure : r \in {r \in ToSet(results) :
                       SameCompany(r.name, Site[c].name) \/ Len(results) = 1}}
CellsOf(c, row) ==
  /\ row.home \in {"", Site[c].home} /\ row.region \in {"", Site[c].region}
  /\ row.investor \in {"", Site[c].investor} /\ row.kvic \in {"", Site[c].investor}
  /\ row.figure \in Figures(c)

\* The tab at the start is one that these jobs have left: a row for a name, collected
\* by a crawl, marked if its region is in an area, under a name that they write, and
\* with the homepage where only that tells the company's rows.
KeptRow(k) ==
  LET row == Kept[k]
  IN  /\ row.company # "" /\ row.collected # ""
      /\ row.region \in P1Areas => row.p1 = "Y"
      /\ \A j \in DOMAIN Kept \ {k} : /\ ~SameCompany(Kept[j].company, row.company)
                                      /\ Kept[j].home = row.home => row.home = ""
      /\ \A c \in Companies :
           /\ row.home = Site[c].home /\ row.home # "" => SameCompany(row.company, Site[c].name)
           /\ SameCompany(row.company, Site[c].name) =>
                /\ row.company \in {Site[c].name, NormName(Site[c].name)} /\ CellsOf(c, row)
                /\ NormName(Site[c].name) = Site[c].name \/ row.home = Site[c].home

ASSUME DetailAssumption ==
  /\ {PageSize, MaxPages, MaxCards, MaxBatch} \subseteq Nat \ {0}
  /\ {MaxJobs, MaxDeaths, MaxChanges, MaxTrouble} \subseteq Nat
  /\ Account \in BOOLEAN
  /\ CrawlJobs \subseteq Seq([browser : {"yes", "no"}, required : {"yes", "no"}])
  /\ \A name \in DOMAIN Norm : NormName(Norm[name]) = Norm[name]
  /\ \A c \in Companies : "" \notin {Site[c].name, NormName(Site[c].name)}
  /\ {Listed, Coming} \subseteq Seq([co : Companies, round : ToSet(Rounds)])
  /\ "" \notin P1Areas \union ToSet(Rounds)
  /\ Kept \in Seq([Fields -> STRING]) /\ \A k \in DOMAIN Kept : KeptRow(k)

RoundNo(round) == IF round = "" THEN 0 ELSE CHOOSE k \in DOMAIN Rounds : Rounds[k] = round
NotOlder(card, other) == card.co = other.co => RoundNo(other.round) <= RoundNo(card.round)

\* THE VC lists newer rounds of a company before older ones, and always will; the tab
\* at the start says of no company a newer one than is listed.
ASSUME NewestFirst ==
  /\ Rounds \in Seq(STRING)
  /\ \A i, j \in DOMAIN Listed : i < j => NotOlder(Listed[i], Listed[j])
  /\ \A i, j \in DOMAIN Coming : i < j => NotOlder(Coming[j], Coming[i])
  /\ \A i \in DOMAIN Coming, j \in DOMAIN Listed : NotOlder(Coming[i], Listed[j])
  /\ \A k \in DOMAIN Kept, c \in Companies : SameCompany(Site[c].name, Kept[k].company) =>
       /\ Kept[k].round \in {""} \union ToSet(Rounds)
       /\ \A i \in DOMAIN Coming :
            Coming[i].co = c => RoundNo(Kept[k].round) <= RoundNo(Coming[i].round)
       /\ \A j \in DOMAIN Listed : Listed[j].co = c =>
            \E i \in 1 .. j : Listed[i].co = c /\ RoundNo(Kept[k].round) <= RoundNo(Listed[i].round)

\* What the bounds count.
Quiet  == jobs + deaths + changes < MaxTrouble
Change == Quiet /\ changes < MaxChanges /\ changes' = changes + 1
-----------------------------------------------------------------------------
(* crawl_sources                                                           *)

ForgetCrawl ==
  /\ cpc' = "idle" /\ targets' = <<>> /\ login' = "unknown"
  /\ pages' = <<>> /\ shown' = 0 /\ cards' = <<>> /\ skipped' = {}

BeginCrawl ==
  /\ cpc = "idle" /\ Quiet /\ jobs < MaxJobs
  /\ targets' \in CrawlJobs
  /\ cpc' = "target" /\ jobs' = jobs + 1
  /\ UNCHANGED <<listing, coming, queue, known, tab, login, pages, shown, cards, skipped,
                 enrich, past, deaths, changes>>

Target == Head(targets)

\* build_sminfo_task: the id goes by the name alone if no page was seen.
TaskOf(card) ==
  [id |-> <<NormName(card.name), card.home, card.rep>>, company |-> NormName(card.name),
   home |-> card.home, rep |-> card.rep, status |-> "pending", fresh |-> FALSE]

TwoTasks(a, b) == SameCompany(a.name, b.name) /\ TaskOf(a).id # TaskOf(b).id

\* The cards of a target, with the pages of some of their companies.
TakeCards(found) ==
  /\ \E fetched \in SUBSET DOMAIN found :
       /\ cards' = cards \o [k \in DOMAIN found |->
                     Enriched(found[k], Site[found[k].co], k \in fetched, Target.browser)]
       /\ unseen' = unseen \union {found[k].co : k \in DOMAIN found \ fetched}
  /\ split' = split \union {NormName(a.name) :
                 a \in {a \in ToSet(cards') : \E b \in ToSet(cards') : TwoTasks(a, b)}}
  /\ cpc' = "target" /\ targets' = Tail(targets) /\ pages' = <<>> /\ shown' = 0

\* A target read without a browser: its first page, card by card.
ReadPlain ==
  /\ cpc = "target" /\ targets # <<>> /\ Target.browser = "no"
  /\ TakeCards(Take(Take(listing, PageSize), MaxCards))
  /\ UNCHANGED <<listing, coming, queue, known, tab, login, skipped, enrich, bounds>>

\* The browser opens a target and logs in as far as it can.  A raise ends the job.
OpenBrowser ==
  /\ cpc = "target" /\ targets # <<>> /\ Target.browser = "yes"
  /\ \E button, gated, accepted \in BOOLEAN :
       LET outcome == Login(login, Target.required = "yes", Account, button, gated, accepted)
       IN  IF outcome = "raised" THEN ForgetCrawl
           ELSE /\ login' = outcome /\ cpc' = "reading"
                /\ UNCHANGED <<targets, pages, shown, cards, skipped>>
  /\ UNCHANGED <<listing, coming, queue, known, tab, enrich, past, bounds>>

\* THE VC wants to see a human: a warning, and no cards of this target.
Challenge ==
  /\ cpc = "target" /\ targets # <<>> /\ Target.browser = "yes"
  /\ targets' = Tail(targets)
  /\ UNCHANGED <<listing, coming, queue, known, tab, cpc, login, pages, shown, cards,
                 skipped, enrich, past, bounds>>

\* The k-th page as the list is now.
Page(k) == SubSeq(listing, (k - 1) * PageSize + 1, Least(k * PageSize, Len(listing)))

\* page.content(): the page that was asked for, or after a wait in vain one
\* before it; then the next click may lead past a page that was never read.
ReadPage ==
  /\ cpc = "reading"
  /\ \E k \in 1 .. Len(pages) + 1 :
       LET read == Append(pages, Page(k))
       IN  /\ k >= shown /\ (k = 1 \/ Len(listing) > (k - 1) * PageSize)
           /\ IF \/ Len(FromPages(read, MaxCards)) >= MaxCards
                 \/ Len(read) >= MaxPages
                 \/ Len(listing) <= k * PageSize
                THEN TakeCards(FromPages(read, MaxCards))
                ELSE pages' = read /\ shown' = k /\ UNCHANGED <<cpc, targets, cards, past>>
           /\ skipped' = skipped \union
                {listing[i].co : i \in shown * PageSize + 1 .. (k - 1) * PageSize}
  /\ UNCHANGED <<listing, coming, queue, known, tab, login, enrich, bounds>>

Answered == {"matched", "matched_no_financials", "not_found", "ambiguous"}

First(set) == IF set = {} THEN {} ELSE {CHOOSE k \in set : \A j \in set : k <= j}

\* _matching_existing_sminfo_task: the row with its id, or the first with its name.
Existing(task) ==
  LET direct == {k \in DOMAIN queue : queue[k].id = task.id}
  IN  IF direct # {} THEN direct ELSE First({k \in DOMAIN queue : queue[k].company = task.company})

\* A task that _enqueue_sminfo_tasks writes, under the id of the row found.
Renamed(task) == IF Existing(task) = {} THEN task
                 ELSE [task EXCEPT !.id = queue[CHOOSE k \in Existing(task) : TRUE].id]
Skipped(task) ==
  \E k \in Existing(task) :
    \/ queue[k].status \in Answered /\ queue[k].fresh
    \/ queue[k].status \in {"retry", "running", "failed"}

\* upsert_rows by task_id.
PutTask(rows, task) ==
  LET at == {k \in DOMAIN rows : rows[k].id = task.id}
  IN  IF at = {} THEN Append(rows, task) ELSE [k \in DOMAIN rows |-> IF k \in at THEN task ELSE rows[k]]

\* The rows with tasks written to them, one after the other.
WithTasks(rows, tasks) ==
  LET upTo[n \in 0 .. Len(tasks)] ==
        IF n = 0 THEN rows ELSE PutTask(upTo[n - 1], tasks[n])
  IN  upTo[Len(tasks)]

\* _enqueue_sminfo_tasks, after ingest_sources.  Without cards the job is over.
QueueCards ==
  /\ cpc = "target" /\ targets = <<>>
  /\ LET new == Sheet!Only([k \in DOMAIN cards |-> TaskOf(cards[k])],
                           {t \in {TaskOf(card) : card \in ToSet(cards)} : ~Skipped(t)})
     IN  queue' = WithTasks(queue, [k \in DOMAIN new |-> Renamed(new[k])])
  /\ IF cards = <<>> THEN ForgetCrawl
     ELSE cpc' = "publish" /\ UNCHANGED <<targets, login, pages, shown, cards, skipped>>
  /\ UNCHANGED <<listing, coming, known, tab, enrich, past, bounds>>

\* _candidate_detail_row
DetailRow(card) ==
  LET mark == P1({card.region})
  IN  [company |-> card.name, home |-> card.home, region |-> card.region, rep |-> card.rep,
       p1 |-> mark.p1, rule |-> mark.rule, round |-> card.round, investor |-> card.investor,
       kvic |-> KvicContext(card.investor, Managers), collected |-> "yes",
       sminfo |-> "", figure |-> "", at |-> ""]

\* _has_legacy_candidate_detail_rows: a company that no crawl has collected, which is
\* one that an enrichment appended.
Legacy == \E k \in DOMAIN tab : tab[k].company # "" /\ tab[k].collected = ""

\* The rows an upsert starts from: rewrite_from_scratch leaves none of them.
Base == IF Legacy THEN <<>> ELSE tab

\* _publish_sheet_projection
PublishCards ==
  /\ cpc = "publish"
  /\ tab' = Sheet!Upsert(Base, [k \in DOMAIN cards |-> DetailRow(cards[k])])
  /\ ForgetCrawl
  /\ UNCHANGED <<listing, coming, queue, known, enrich, past, bounds>>
-----------------------------------------------------------------------------
(* enrich_sminfo_candidates                                                *)

ForgetEnrich == epc' = "idle" /\ taken' = <<>> /\ byTab' = FALSE /\ answers' = <<>>

Begin(candidates, fromTab) ==
  /\ taken' = candidates /\ byTab' = fromTab /\ answers' = <<>>
  /\ epc' = "lookup"

Leasable(k) == queue[k].status \in {"pending", "retry", "running"}

\* _candidate_from_queue_task: a row of the queue has no region.
FromTask(task) == [id |-> task.id, company |-> task.company, home |-> task.home,
                   rep |-> task.rep, region |-> ""]

\* _claim_due_queue_tasks: some rows that may be leased.
TakeFromQueue ==
  /\ epc = "idle"
  /\ \E n \in 1 .. MaxBatch : \E due \in [1 .. n -> {k \in DOMAIN queue : Leasable(k)}] :
       /\ \A i, j \in 1 .. n : i < j => due[i] < due[j]
       /\ Begin([j \in 1 .. n |-> FromTask(queue[due[j]])], FALSE)
       /\ queue' = [k \in DOMAIN queue |-> IF \E j \in 1 .. n : due[j] = k
                      THEN [queue[k] EXCEPT !.status = "running"] ELSE queue[k]]
  /\ UNCHANGED <<listing, coming, known, tab, crawl, past, bounds>>

\* Mutation of Wanted: rows that have just been answered are wanted again.
WantedAgain(row, names) ==
  row.company \notin Placeholders /\ (names # {} => row.company \in names)

\* The rows that _candidate_rows lets through.
Wanted(row, names) ==
  /\ row.company \notin Placeholders
  /\ IF names # {} THEN row.company \in names
     ELSE ~(row.sminfo \in {"matched", "not_found", "ambiguous"} /\ row.at = "fresh")

FromRow(row) == [id |-> <<>>, company |-> row.company, home |-> row.home,
                 rep |-> row.rep, region |-> row.region]

\* With no row in the queue the tab is read, by hand for the given names.
TakeFromTab(names) ==
  /\ epc = "idle" /\ queue = <<>>
  /\ IF names = {} THEN UNCHANGED changes ELSE Change
  /\ LET wanted == Sheet!Only(tab, {row \in ToSet(tab) : Wanted(row, names)})
         first == Take(wanted, MaxBatch)
     IN  /\ wanted # <<>>
         /\ Begin([k \in DOMAIN first |-> FromRow(first[k])], TRUE)
  /\ UNCHANGED <<listing, coming, queue, known, tab, crawl, past, jobs, deaths>>

Failed == [status |-> "error", place |-> "", figure |-> ""]

\* client.lookup_company for each candidate, or an error; then the rows of
\* their profiles are stored, whatever the answer.
LookUp ==
  /\ epc = "lookup"
  /\ \E errors \in SUBSET DOMAIN taken :
       answers' = [k \in DOMAIN taken |->
         IF k \in errors THEN Failed
         ELSE ChooseResult(taken[k].company, taken[k], Search[NormName(taken[k].company)])]
  /\ known' = known \union {taken[k].company : k \in DOMAIN taken}
  /\ epc' = IF byTab THEN "publish" ELSE "settle"
  /\ UNCHANGED <<listing, coming, queue, tab, crawl, taken, byTab, past, bounds>>

\* The queue rows as _queue_task_update makes them, of the rows as they were leased.
SettleTasks ==
  /\ epc = "settle"
  /\ \E spent \in BOOLEAN :
       queue' = WithTasks(queue, [k \in DOMAIN taken |->
         [id |-> taken[k].id, company |-> taken[k].company, home |-> taken[k].home,
          rep |-> taken[k].rep, fresh |-> answers[k].status # "error",
          status |-> IF answers[k].status # "error" THEN answers[k].status
                     ELSE IF spent THEN "failed" ELSE "retry"]])
  /\ epc' = "publish"
  /\ UNCHANGED <<listing, coming, known, tab, crawl, taken, byTab, answers, past, bounds>>

\* _candidate_detail_update
DetailUpdate(k) ==
  LET mark == P1({taken[k].region, answers[k].place})
  IN  [company |-> taken[k].company, home |-> taken[k].home, region |-> "", rep |-> "",
       p1 |-> mark.p1, rule |-> mark.rule, round |-> "", investor |-> "", kvic |-> "", collected |-> "",
       sminfo |-> answers[k].status, figure |-> answers[k].figure, at |-> "fresh"]

PublishAnswers ==
  /\ epc = "publish"
  /\ tab' = Sheet!Upsert(Base, [k \in DOMAIN taken |-> DetailUpdate(k)])
  /\ ForgetEnrich
  /\ UNCHANGED <<listing, coming, queue, known, crawl, past, bounds>>
-----------------------------------------------------------------------------
(* The rest of the world.                                                  *)

\* THE VC lists another card.
News ==
  /\ Change
  /\ coming # <<>>
  /\ listing' = <<Head(coming)>> \o listing /\ coming' = Tail(coming)
  /\ UNCHANGED <<queue, known, tab, crawl, enrich, past, jobs, deaths>>

\* An answer is older than stale_days, on the tab or in the queue.
AgeRow ==
  /\ Change
  /\ \E k \in DOMAIN tab : tab[k].at = "fresh" /\ tab' = [tab EXCEPT ![k].at = "stale"]
  /\ UNCHANGED <<listing, coming, queue, known, crawl, enrich, past, jobs, deaths>>
AgeTask ==
  /\ Change
  /\ \E k \in DOMAIN queue : queue[k].fresh /\ queue' = [queue EXCEPT ![k].fresh = FALSE]
  /\ UNCHANGED <<listing, coming, known, tab, crawl, enrich, past, jobs, deaths>>

\* A job dies or a call of it raises between two steps.
Die ==
  /\ Quiet /\ deaths < MaxDeaths /\ deaths' = deaths + 1
  /\ \/ cpc # "idle" /\ ForgetCrawl /\ UNCHANGED enrich
     \/ epc # "idle" /\ ForgetEnrich /\ UNCHANGED crawl
  /\ UNCHANGED <<listing, coming, queue, known, tab, past, jobs, changes>>
-----------------------------------------------------------------------------
DetailInit ==
  /\ listing = Listed /\ coming = Coming /\ queue = <<>> /\ known = {} /\ tab = Kept
  /\ cpc = "idle" /\ targets = <<>> /\ login = "unknown"
  /\ pages = <<>> /\ shown = 0 /\ cards = <<>> /\ skipped = {}
  /\ epc = "idle" /\ taken = <<>> /\ byTab = FALSE /\ answers = <<>>
  /\ unseen = {} /\ split = {}
  /\ jobs = 0 /\ deaths = 0 /\ changes = 0

CrawlStep ==
  \/ BeginCrawl \/ ReadPlain \/ OpenBrowser \/ Challenge \/ ReadPage
  \/ QueueCards \/ PublishCards
EnrichStep ==
  \/ TakeFromQueue \/ LookUp \/ SettleTasks \/ PublishAnswers
  \/ \E names \in {{}} \union {{row.company} : row \in ToSet(tab)} : TakeFromTab(names)

DetailNext == CrawlStep \/ EnrichStep \/ News \/ AgeRow \/ AgeTask \/ Die

\* The loop starts the enrichment again and again, without names; SMINFO's
\* errors pass.  The first three are WF_detail of TakeFromTab({}), LookUp and
\* PublishAnswers: they say when these are not enabled, which they are not
\* after a step of theirs either.
DetailFairness ==
  /\ []<>(epc # "idle" \/ queue # <<>> \/ \A row \in ToSet(tab) : ~Wanted(row, {}))
  /\ []<>(epc # "lookup")
  /\ []<>(epc # "publish")
  /\ SF_detail(LookUp /\ \A k \in DOMAIN taken : answers'[k].status # "error")

DetailSpec == DetailInit /\ [][DetailNext]_detail /\ DetailFairness
-----------------------------------------------------------------------------
\* No two companies have a name in common, or a homepage.
Apart ==
  \A c, d \in Companies : c # d =>
    /\ ~SameCompany(Site[c].name, Site[d].name)
    /\ Site[c].home = Site[d].home => Site[c].home = ""

\* A company has two rows only if its name on THE VC is not the name it is
\* queued under and some crawl could not see its page, or that has no homepage:
\* with neither in common, an upsert cannot tell that the rows are of one company.
OneRowEach ==
  \A j, k \in DOMAIN tab : j # k /\ SameCompany(tab[j].company, tab[k].company) =>
    \E c \in Companies : /\ SameCompany(Site[c].name, tab[j].company)
                         /\ NormName(Site[c].name) # Site[c].name
                         /\ c \in unseen \/ Site[c].home = ""

\* A name is queued twice only if one crawl took cards of that name that make
\* two tasks, as it saw the company's page for one of them only: tasks are
\* compared with the rows queued before, not with each other.
OneTaskEach ==
  \A j, k \in DOMAIN queue : j # k /\ queue[j].company = queue[k].company =>
    queue[j].company \in split

\* Every cell of a row is about the company the row names: taken, answers and
\* rows stay in step, and of several results SMINFO has for a name only a
\* namesake's is taken.
CellsAreTheirCompanys ==
  \A row \in ToSet(tab) : \A c \in Companies :
    SameCompany(Site[c].name, row.company) => CellsOf(c, row)

\* A row whose region is in an area keeps its mark while it is enriched from
\* the tab.  It is lost only by a crawl that did not see the company's page
\* or, once there is a queue, by an enrichment, which does not know the region.
MarkFitsRegion ==
  \A row \in ToSet(tab) : row.region \in P1Areas /\ row.p1 # "Y" =>
    /\ queue # <<>>
    /\ \/ \E c \in unseen : SameCompany(Site[c].name, row.company)
       \/ \E name \in known : SameCompany(name, row.company)

\* The queue has one row for a name, and as long as companies can be told apart
\* the tab has one row for each, its cells are about that company and its mark
\* fits its region, but for what a crawl did not see.
RowsFitTheirCompanies ==
  /\ OneTaskEach
  /\ Apart => OneRowEach /\ CellsAreTheirCompanys /\ MarkFitsRegion

Twice(co) == \E j, k \in DOMAIN cards :
  j # k /\ cards[j].co = co /\ cards[k].co = co /\ cards[j].browser = "no"

RowsOf(c) == {row \in ToSet(tab) : SameCompany(Site[c].name, row.company)}

\* As long as companies can be told apart and no page shows more cards than a
\* crawl takes, the round of a company with one row goes back only when a crawl
\* without a browser took two cards of its company: then the last one, which is the
\* older, stays on the tab; or when a browser passed over a page with a card of it, because
\* the page came too late.  It is lost only when an enrichment rewrites a tab on which
\* another one appended a row.  Otherwise the newest card counts, however pages shift.
RoundsGoForward ==
  [][Apart /\ PageSize <= MaxCards =>
       \A c \in Companies : \/ Twice(c) \/ c \in skipped
                           \/ \A row \in RowsOf(c), new \in RowsOf(c)' :
                                Cardinality(RowsOf(c)) = 1 /\ Cardinality(RowsOf(c)') = 1 =>
                                  \/ RoundNo(row.round) <= RoundNo(new.round)
                                  \/ Legacy /\ new.round = ""]_detail

\* As long as nothing is queued every company of the tab is asked about in
\* the end: those before it are skipped while their answers are fresh.
EachIsAsked ==
  \A k \in DOMAIN Kept : Kept[k].company \notin Placeholders =>
    <>(queue # <<>> \/ \E row \in ToSet(tab) :
         SameCompany(row.company, Kept[k].company) /\ row.sminfo # "")
=============================================================================
