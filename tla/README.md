# HermesMerry: a TLA+ verification project

HermesMerry is the runtime of an agent that looks for startups on public
sites, enriches and scores them, and puts them before people: in Google
Sheets, in Slack, as Gmail drafts. What can go wrong in it is seldom in one
function. It is in jobs that hold nothing between runs but a table, a sheet
and a channel, that die between two writes, and that meet another process, an
operator or their own earlier run on the way. The modules here model those
parts, TLC checks them on small instances, and TLAPS proves what matters most
about eight of them for every size.

Paths below are relative to the repository's root, with `src/` in front;
`merry_runtime` modules are named without their directory where it is clear.

## 1. Inventory

| component | state | operations | interacts with | what is hard | must hold | here |
|---|---|---|---|---|---|---|
| Chain queue: `pipelines/agent_work_queue.py`, `ingestion/agent_work_queue.py`, the lease in `adapters/sqlite_store.py` | table `agent_work_queue`; a worker's leased copy | seed, lease, run, finish, fail, create the next stage's row | store, every job of a chain, agent loop, MCP | several workers, leases that expire, whole rows written back from a copy, deaths between two writes | stages in order, budget of attempts, one worker at a time, the chain ends | `AgentWorkQueue`, `ChainProgress` |
| SMINFO queue: `pipelines/enrich_sminfo.py`, `ingestion/sminfo_queue.py`, `_enqueue_sminfo_tasks` in `crawl_sources.py` | tables `sminfo_enrichment_queue`, `sminfo_company_profiles`; tab SMINFO Queue | queue, lease a batch, look up, store, settle, publish | crawl, SMINFO, sheet | crawl and enrichment read and write the same rows; backoff; expiry | budget, no lookup too soon, profile before status, everything settles | `SminfoQueue` |
| Outreach: `pipelines/draft_outreach_emails.py`, `adapters/apps_script.py`, `apps_script/gmail_draft_gateway/Code.gs` | table `outreach_email_drafts`, tab Outreach Drafts, the mailbox, a daily counter | draft contacts one by one, log at the end of a run | Apps Script, Gmail, sheet | client timeouts, executions that overlap, a lock not got, deaths before the log | no duplicate without a lost answer, daily limit, everyone's turn comes | `OutreachDrafts` |
| Slack QA agent: `scripts/slack_qa_realtime_agent.py`, `hermes_qa_delegation.py`, `github_qa_issue.py`, `slack_qa_triage.py` | processed keys in memory and in a file, the channel | read history or take events, plan, hand off or draft, reply, notice, save keys | Slack, GitHub, Hermes | the agent reads its own posts; events twice; threads that save at once; truncated file | a second answer only for a cause, the file holds the keys, everything is answered | `SlackQaAgent` |
| Candidate Detail: THE VC side of `crawl_sources.py`, `ingestion/thevc.py`, `adapters/thevc_playwright.py`, `enrich_sminfo.py`, `adapters/sminfo_playwright.py` | tab Candidate Detail, raw sources, queue rows | log in, read pages and company pages, publish cards, take companies, choose a search result, publish what was found | THE VC, SMINFO, sheet | two jobs and two sites over one row, pages that shift, namesakes | one queue row a name, rows one per company and about it, marks and rounds go forward, everyone is asked about | `CandidateDetail`, `CandidateSources` |
| Platum news: `crawl_sources.py`, `ingestion/platum.py` | tables `raw_sources`, `signals`; tabs Portfolio News, Accelerator News | read targets, ingest, publish, notify, mark | Platum, store, sheet, Slack, operators | several memories of what was told, written one after the other; articles that come out between two reads | told once, lost only by a death or a known race, everything settles | `PortfolioNews` |
| Google sheet: `adapters/google_sheets.py` | tabs with the operators' cells | append, upsert, replace, read | every job, operators | an upsert is several calls; row numbers read before; header before rows | nothing lost unless disturbed, cells under their columns, the tab converges | `SheetTab`, `SheetUpsert` |
| Review cards: `score_candidates.py`, `sync_review_sheet.py`, `review_sync.py`, `resolve_entities.py`, `calibrate_scores.py` | tables `ac_scores`, `candidate_cards`, `reviews`, `entity_resolution_events`, `ac_scoring_coefficients`; one tab per AC | score, publish, read decisions, fit | store, sheet, reviewers | store before sheet; statuses read at the start and written at the end | every card reaches a reviewer, decisions and coefficients arrive | `ReviewCards` |
| Judgements: `scoring.py`, `probabilistic_scoring.py`, `calibration.py`, `entity_resolution.py`, `probabilistic_resolution.py`, `regional_priority.py` | none | score, calibrate, resolve, mark P1 | review cards, candidate detail | two verdicts on one thing; more evidence that lowers | a sure signal never lowers the score, verdicts agree at the extremes, hash means model | `Scoring`, `Resolution`, `Judgements` |
| KVIC funds and investor research: `sync_kvic_funds.py`, `research_investors.py` | tables of funds, descriptions, investors, sync state; two tabs | fetch when stale, describe and research in batches, replace tabs | KVIC, search, LLM, sheet | batches that could starve, an older fetch over a newer one, failed searches | everybody's turn every day, tabs catch up | `InvestorDb` |
| Wiki and ingestion: `wiki_store.py`, `ontology.py`, `ingest_sources.py`, `ingest_ac_profiles.py` | Markdown files, `wiki.db`, `index.md`, Mother DB | write pages, rows, links, index; delete what is stale | files, two databases | no transaction spans file and row; two writers | file, row and index agree | `WikiStore` |
| Backup: `backup_export.py` | a directory, three tabs | copy the DB, export tables, archive the wiki, manifest, tabs | everything that writes | no lock: jobs go on meanwhile | what a backup may hold | `BackupExport` |
| Agent loop and jobs: `agent_loop.py`, `jobs.py`, `job_runner.py`, `weekly_summary.py` | table `agent_runs`, tab Crawl Sources | run jobs in turn, record, stamp crawl targets, summarise | all jobs, operators | failures, edits during a crawl, two processes | every job every cycle, stamps are true, summaries count | `AgentLoop` |
| Configuration: `runtime_config.py`, `runtime_factory.py` | none after the start | validate for a job or the loop, build | jobs | what a job needs is said in three places | nothing is refused later that was allowed | `RuntimeConfig` |
| Slack project decisions, batch import and parsers, web clients, stores, MCP server, dashboard, infrastructure | see section 7 | - | - | - | - | not modelled |

How they meet: the jobs share the Mother DB (SQLite or BigQuery) and the
spreadsheet. The agent loop runs `AGENT_LOOP_JOBS` one after the other in one
process; an MCP call, a command line or a second worker of the work queue runs
the same pipelines beside it. Operators edit the sheet at any time. Tables,
files, sheets and Slack are each written in a transaction or call of its own;
nothing spans two of them.

`PROJECT.json` lists the hazards at their lines, with the properties that
would catch each.

## 2. Modules

One action is one transaction, one call to a service, or what a process does
between two of them. A worker is a program counter and what it holds in
memory; dying or raising sets it back and forgets the memory, which is what
`agent_loop.py` makes of an exception and a restart makes of a death. "By
hand" is the second process that the MCP server or a command line is.

- **`AgentWorkQueue`**: `Start`/`Seed` are the read and the write of
  `_ensure_seed_task`, `Claim` the `BEGIN IMMEDIATE` transaction of the lease,
  `Finish`/`Link`/`Enqueue` the three steps after a job returned, `Fail` the
  exception handler. A row is its position in the chain. `Upsert` overwrites the
  whole row from the worker's copy, as `upsert_rows` does. **`ChainProgress`**
  is what a reader of the table may rely on: stages complete in order, at most
  one is stopped for good, nothing is undone.
- **`SminfoQueue`**: `Crawl`/`Enqueue`/`Announce` are the queue's side of
  `crawl_sources`, `Lease`/`Lookup`/`StoreProfiles`/`Settle`/`Publish` the
  enrichment. Timestamps are what is compared with the clock. Profiles are
  upserted by their id, which has the page of SMINFO's where one was found and
  none otherwise, so that `not_found`, `ambiguous` and `error` overwrite each
  other. `quiet` is a history variable: how long the company should not be
  asked.
- **`OutreachDrafts`**: the job of one process, and the executions of the
  gateway, which run on when their client gave up. `lost`, `uncounted` and
  `today` are history variables. Gmail may refuse a draft, and refuses every one
  for the contacts in `Rejected`; the gateway then answers without a draft. No
  two contacts share a company or an address.
- **`SlackQaAgent`**: polling and socket mode, both delegates. A message is its
  position in the channel, whether `is_qa_message` holds of it, and the start of
  its text; a key is the position and that start, as `dedupe_key` is made of the
  `ts` and the first 80 characters, and members edit what they wrote. Hermes may
  have replied, made an issue or posted before its call fails. A save is three
  steps, `dump`, `truncate`, `write`: `write_text` of a `json.dumps`.
- **`CandidateSources`** has no state: the login, the cards of a page, the
  choice among search results, the marks. **`CandidateDetail`** is the crawl and
  the enrichment over one tab, using it. Its queue has no clock (that is in
  `SminfoQueue`): any row not done may be leased. `unseen`, `split` and
  `skipped` are history: companies whose page a crawl could not see, names of
  which one crawl took cards that make two tasks, companies on pages that its
  browser passed over. `Base` is what an upsert starts from: nothing, if a row
  was never collected by a crawl (`Legacy`).
- **`SheetUpsert`** is `upsert_cards` for several key fields, row after row (the
  loops are recursive functions, so that they can be reasoned about), used by
  **`PortfolioNews`**, one run of the news side of `crawl_sources`.
  **`SheetTab`** takes an upsert or a replacement apart into its calls to
  Google, for five kinds of tabs (upserted by one key or by several, replaced,
  and Candidate Detail with an old header of today's columns or with the older
  one, which has an `entity_id`), with operators in between. `FromScratch` says
  when an upsert of Candidate Detail starts from the header alone. A cell of the
  operators remembers under which order of columns it was typed, or that it was
  moved although it stood in its place; the key and the generated cell are taken
  to be found in either order. `Old` is a tab of the old order.
- **`ReviewCards`**: the four jobs about cards, each its reads and then a step
  for each write. **`Scoring`** and **`Resolution`** are what they compute, in
  thousandths where the code has floats; **`Judgements`** lets the inputs grow
  one fact at a time.
- **`InvestorDb`**: both investor jobs, with a clock of days.
- **`WikiStore`**: pages, rows, links and index of the wiki and the two jobs
  that write them; **`BackupExport`** extends it with the export.
- **`RuntimeConfig`**: the checks, the build and the needs, as sets of names of
  environment variables. **`AgentLoop`** extends it with the loop, a job by
  hand, the crawl of targets and their stamps, the table of runs.
- `MC*` modules only give values to constants. `*Proofs` modules hold proofs.

Composition: `AgentWorkQueue`'s serial work is the assumption under which
`SminfoQueue`'s `TurnsSpec` takes crawls and enrichments in turn; `SheetTab`
justifies (or bounds) that other modules take an upsert for one step;
`BackupExport` runs beside `WikiStore`'s writers; `AgentLoop` justifies that
every job module may assume its job is called again and again
(`EveryJobEveryCycle`).

Operators whose comment begins with "Mutation of" are wrong versions of a
definition. They are used nowhere in a specification: putting one in the place
of the right one must break a property, which shows that the property
constrains the code.

## 3. Runs

All twelve pass.

| run (cfg) | question | properties |
|---|---|---|
| awq_leases (`AwqLeases`) | Three workers on a chain which the first call seeds alone, jobs within their leases, two crashes: order, budget, serial work, refinement, an end? | PredecessorSucceeded, AttemptBudget, OneAtATime, ChainSpec, ChainEnds |
| sminfo_turns (`SminfoTurns`) | Crawls and enrichments in turn, two enrichers that overlap: budget, the answer that is stored last, backoff, settled? | AttemptBudget, ProfileFirst, NotAskedTooSoon, Settles |
| outreach (`Outreach`) | Three candidates, one of whom Gmail rejects, two attempts a run, one draft a day, a fault anywhere | DuplicatesHaveACause, DailyLimit, EveryoneDrafted |
| slack_qa (`SlackQa`) | Both modes, two threads, events that come twice, an edit, a Hermes that fails half-way, a death | RepliesHaveACause, FileHasTheKeys, AnsweredInTheEnd |
| candidate_detail (`CandidateDetail`) | A crawl and an enrichment over one tab, pages that shift, namesakes | RowsFitTheirCompanies, RoundsGoForward, EachIsAsked |
| news (`News`) | Two articles, two targets, two faults, deleted rows | AnnouncedOnce, LostByDeathOrRace, NewsSettles |
| sheet_tab (`SheetTab`) | Five kinds of tabs, call by call, with operators and a second writer | MisplacedByDeathOrOverlap, KeptUnlessDisturbed, Converges |
| review_cards (`ReviewCards`) | Two entities scored, offered, decided, learnt from; jobs by hand, edits, a death | HiddenByDeath, DecisionsArrive, CoefficientsCatchUp |
| judgements (`Judgements`) | One signal, review, fact or word more | SureSignalNeverLowers, AdvanceNeverArchived, SameHashSameModel, MergedByRuleIsNeverNew, MoreIsNeverUnmarked |
| investor_db (`InvestorDb`) | Six days of five cycles of both jobs, a call by hand, an empty search or a death | TurnEveryDay, TabsCatchUp |
| backup_export (`BackupExport`) | Profiles and sources ingested by two processes while a backup is taken | PagesAgree, BackupsHold |
| agent_loop (`AgentLoop`) | Every environment with at most two variables missing, every job and the stages of a work queue, all back ends; a crawl with edits and deaths | CheckedAtTheStart, StampsAreTrue, SummaryCountsFailures, EveryJobEveryCycle |

**Bounds, and why they are enough.** Two processes of a kind, three workers of
the chain: every race here is between one that read and one that wrote. Three
stages with 1, 2 and 2 attempts: a first, a middle and a last one, a budget that
ends at once and one that ends after a retry. `Stale` 2: a lease can be young,
about to expire and expired; `Fresh` 1: an answer can be fresh or not.
`MaxItems`, `BatchLimit`, `BatchSize` 1 or 2 for two or three items: a batch
that is full and one that is not. `MaxFaults`, `MaxDeaths`, `MaxCrashes` 1 or 2:
a fault, and one more in the recovery. `MaxTrouble` bounds the sum of what comes
from outside (a job by hand, edits, a death, an empty search), so that any two
meet but not all at once. Outreach has one contact whom Gmail rejects, one fewer
than a run attempts: with as many, the others never get their turn. Slack has
one edit, and reads two messages of a channel that holds up to four, so that one
can scroll out. The news are two articles on two pages, two targets, a company
that both watch and an article they read differently. Candidate Detail has two
companies of which one has a namesake, three rounds, four cards and one more to
come on pages of two, of which a crawl reads up to three: one can be read twice,
and one passed over. A backup has `MaxBusy` writers' jobs beside it. A work
queue has the six stages of `configs/agent_work_queue.discovery.json`. Investors
have changes until the third day, on which the first profiles are stale, so that
a search may find nothing at first or where an earlier one found something; six
days are that and the interval once more, and one. Bounded faults are also what
liveness needs: "in the end" means once they stop.

**Fairness** is stated of what the code's scheduling repeats, never of users,
operators, sites that find something, or faults.

| run | assumed | because |
|---|---|---|
| awq_leases | each worker's step; time, while no lease is about to run out (`Punctual`) | `run_agent_loop` calls every job again for ever and catches what it raises. That no job takes 3600 s is an assumption of the design which no line enforces; the proofs of `Spec` do without it |
| sminfo_turns | an enricher's step while no crawl is at work, a crawl that has begun, time | the same; the chain runs one stage at a time |
| outreach | the job, a new day, each execution | loop; calendar; Apps Script ends executions |
| slack_qa | a poll, a delivery, each thread's steps | launchd restarts the agent, Slack delivers again, threads run |
| candidate_detail | taking from the tab, lookup, publishing (stated by when they are enabled); strongly: that SMINFO's errors pass | an enrichment is called again for ever; a site that always fails would keep anyone waiting |
| news, review_cards, sheet_tab, investor_db | the loop's job takes steps for ever; time | loop |
| agent_loop | the loop's own step | it is one process |

backup_export and judgements check safety only and assume none.

**Deadlock** is checked except in SminfoTurns, SlackQa, CandidateDetail,
BackupExport, InvestorDb and Judgements: settled queues have nothing to do, an
agent that finds a truncated state file does not start again, and the others
reach their bound of jobs, days or facts.

## 4. What the runs show

- *Chain queue.* `PredecessorSucceeded` and `AttemptBudget` survive every race
  (proved of `Spec`); `OneAtATime` and the refinement of `ChainProgress` need a
  seed that nobody races and jobs within their leases. `ChainEnds` allows one
  exception, a crash between a done row and the next stage's row.
- *SMINFO queue.* `NotAskedTooSoon` needs crawls and enrichments to take turns,
  and nothing else: its proof uses neither leases nor punctual jobs. That the
  answer of a row is the profile stored last under its id (`ProfileFirst`) needs
  leases as well: an enricher that was overtaken overwrites the profile with an
  error of its own and leaves the row of the other's answer to be shown. The tab
  may lag: it can show `not_found` while a later error is stored.
- *Outreach.* Duplicates are as many as answers lost before they were logged;
  the split of the log over table and tab makes none. The daily limit is overrun
  only by executions side by side (the counter is read without the lock) and by
  increments that failed. Everyone is drafted but for contacts whom Gmail
  rejects, as long as these are fewer than a run's attempts
  (`OUTREACH_BATCH_LIMIT`): failed attempts count, and are made again in every
  run.
- *Slack.* Polling answers a second time only after a death or after an edit of
  the first 80 characters, which makes a new key; in socket mode, where edits
  are not heard of, after a death, when an event comes again before its key is
  noted, or when Hermes posted and then failed. The state file may lack a key
  only if one was noted while another thread was saving.
- *Candidate Detail.* A name is queued twice only by one crawl that saw the
  company's page for one of its cards and not for another (`OneTaskEach`, a part
  of `RowsFitTheirCompanies`). The rest says which company has two rows, that no
  cell is about another company than the row's, and when a P1 mark is worked out
  without the region. A round goes back only if a crawl without a browser took
  two cards of a company or one with a browser passed over a page; and it is
  lost when an enrichment appended a row (the queue's enrichment of a company
  that is not on the tab does, without `collected_at`) and another one rewrites
  the tab from scratch for it. This needs pages no longer than `max_cards`:
  every page is cut there (`thevc.py:87`), so that of a longer page the newest
  card of a company may be left out, and when cards of that page are duplicates
  the next one is read all the same and an older card of that company replaces a
  newer round (TLC finds it with three cards a page and `MaxCards` = 2;
  `RoundsGoForward` has `PageSize <= MaxCards` as a premise).
- *News.* The default tab loses a news if the run dies after ingestion, or if
  another target of the same run met it first; each is told once all the same.
  On other tabs this holds of news that are apart, as sheet rows that agree in
  one key are one row (5 below).
- *Sheet.* An upsert that nobody disturbs between its read and its last write
  loses nothing, except on Candidate Detail: there a row without `collected_at`
  makes it start from the header alone, so that all rows it does not itself
  write go, with their notes. Notes end up under other columns only by a death
  between header and rows or by an overlap, and on Candidate Detail also if rows
  are sorted while old ones are left over from such a rewriting; every tab
  converges.
- *Review cards.* Only a death between store and sheet hides a card for ever; a
  decision written over by scoring comes back with the next sync.
- *Judgements.* The statements hold for default coefficients; section 4's second
  list says what fails beyond them.
- *Investors.* Batches starve nobody; after a forced older fetch the numbers may
  stay older until the interval ends.
- *Backup.* In `wiki.db` both ends of a link have a row whatever overlaps; a
  thesis that an AC has keeps its page unless jobs overlap, and one that nobody
  has goes unless two jobs write one AC at a time. The index can be behind the
  pages for as long as nobody writes it again, and nothing is claimed of it but
  what a backup shows. The copy of the database is closed; the exported tables
  are, and the archive has the pages that its index lists, unless a job wrote
  while they were read; the tabs are of different runs only while one writes
  them or after one died.
- *Loop and configuration.* What the checks at the start let through lacks
  nothing later, except `ingest-ac-profiles` and `resolve-entities`, of which
  nothing is asked, `backup-export` where the store is BigQuery, and the stages
  of `agent-work-queue`, the loop's default job: its own check asks nothing for
  them, and what a stage lacks is what the check of that job, made by hand,
  would find. A stamp without a message means that sources of a target of the
  same identity are stored under that run; the identity takes the known columns
  without regard to case and spaces, so that a row which was edited in other
  columns, or respelt, is stamped as well.

Seen while modelling, where a document or test says otherwise:

1. `agent_work_queue.py:170` reads and writes the seed in two transactions; a
   second worker's late seed overwrites a stage that runs and it is leased
   twice, although `tests/test_sqlite_structured_store.py:176` expects
   `second == []`.
2. `agent_work_queue.py:119` writes `done` before the next stage's row; a death
   in between ends the chain, although `docs/ONBOARDING.md:69` says that
   success creates the next task.
3. `crawl_sources.py:551` writes pending rows from what it read; a row that an
   overlapping enrichment settled in between is asked again within the window
   of `docs/ONBOARDING.md:58`.
4. A notice of the Slack agent quotes the QA message and may be one itself;
   polling does not leave out the agent's own messages, the socket handler
   does.
5. Sheet rows are one if they agree in any key field; two articles about one
   company overwrite each other on Accelerator News, and one of them is told
   again in every run. The tests' fake queue asks for all keys.
6. Without credentials, a target that requires the login is crawled without it
   if an earlier target of the run did not: `_ensure_logged_in` raises on a
   second call only if the first one `failed`, not if it was `not_attempted`
   (`docs/runbooks/runpod-staging.md:407`, `tests/test_thevc_playwright.py:111`).

Further observations, none of them contradicted by a text of the repository
unless it is quoted:

- Slack: `docs/runbooks/slack-qa-realtime.md` promises a local draft if the
  hand-off fails, the code raises if issues are on; in socket mode such a
  message is lost; `--ignore-existing-on-start` has no effect there.
- Review cards: a sync rebuilds cards without `queue_type`, so that they are
  stored as archive until the next scoring; two scorings that both find no card
  offer it twice; superseded reviews stay in the corpus.
- Judgements: coefficients fitted to rejections alone can archive what the rule
  score advances, and one more rejection can raise a priority; district names
  match as parts of others; `EntityResolver`, which no pipeline uses, merges one
  name under two domains.
- Candidate Detail: one row that the queue's enrichment appends, or a row whose
  summary an operator rewrote, makes the next upsert drop every row it does not
  write and every note (`google_sheets.py:437`); a page of THE VC that does not
  come in time is read as the one before it and the next click leads past it, so
  that an older card of a later page can overwrite a newer round; a company
  without homepage whose written name is not its normalised one gets a second
  row from the queue's enrichment; once the queue has a row, companies that are
  only on the tab are never looked up; companies of one name share a queue row;
  a session that SMINFO ends reads as "not found" for 30 days.
- Wiki: a thesis page names only the last AC; links from startups to theses are
  never stored, so that such a thesis is deleted with its last AC; pages are
  written before the Mother DB's rows; entities of one slug share a page.
- Outreach: contacts whom Gmail rejects, as many as a run attempts, keep all
  others from their turn for good.
- Investors: an error row replaces a good profile until it is stale; funds that
  KVIC no longer lists stay active.
- Loop: `configs/agent_work_queue.discovery.json` can name stages that have no
  credentials, and the loop starts all the same; stamps go to the tab called
  Crawl Sources even if `CRAWL_SHEET_TAB` names another; one target that raises
  takes the sources of all others and its error never reaches the tab
  (`docs/runbooks/runpod-staging.md:410` sends warnings there); `--ac-id` does
  not stand for `AC_ID` in the checks; `ingest-ac-profiles` in a loop fails in
  every cycle; weekly-summary in a loop would post in every cycle; a crawl can
  have a success row and a failed one.

## 5. Proofs

| module | theorem | of | statement |
|---|---|---|---|
| `AgentWorkQueueProofs` | `QueueInvariant` | `Spec` | `TypeOK`, what a worker's memory says at each point, and the next two |
| | `DependencySafety` | `Spec` | `PredecessorSucceeded` |
| | `AttemptSafety` | `Spec` | `AttemptBudget` |
| | `Serial` | `LeaseSpec` | `OneAtATime` |
| | `NoLostUpdate` | `LeaseSpec` | `CopyIsCurrent` |
| | `Finality` | `LeaseSpec` | `SettledIsFinal` |
| | `Refinement` | `LeaseSpec` | implements `ChainProgress` |
| `SminfoQueueProofs` | `RowInvariant` | `Spec` | types of rows and memory, `BatchInv`, a profile for every answer shown, and the next |
| | `BudgetKept` | `Spec` | `AttemptBudget` |
| | `StoredFirst` | `TurnsSpec` | `ProfileFirst` |
| | `BackoffKept` | `TurnsSpec` | `NotAskedTooSoon` |
| | `QueuedOnce` | `DetailSpec` of `CandidateDetail` | `OneTaskEach` |
| | `RowsFit` | `DetailSpec` of `CandidateDetail` | `RowsFitTheirCompanies` |
| | `RoundsAdvance` | `DetailSpec` of `CandidateDetail` | `RoundsGoForward` |
| `OutreachDraftsProofs` | `LimitKept` | `Spec` | `DailyLimit` |
| | `NoDuplicateWithoutCause` | `Spec` | `DuplicatesHaveACause` |
| | `EverybodysTurn` | `DbSpec` of `InvestorDb`, with room for all | `TurnEveryDay` |
| `SlackQaAgentProofs` | `StateFileComplete` | `Spec` | `FileHasTheKeys` |
| | `SecondReplyHasACause` | `Spec` | `RepliesHaveACause` |
| `AgentLoopProofs` | `ChecksSuffice` | `Spec` | `CheckedAtTheStart` |
| | `EveryFailureCounts` | `Spec` | `SummaryCountsFailures` |
| | `StampsHold` | `Spec` | `StampsAreTrue` |
| `BackupExportProofs` | `WikiAgrees` | `Spec` | `PagesAgree` |
| | `BackupsAgree` | `Spec` | `BackupsHold` |
| `ReviewCardsProofs` | `NothingIsHidden` | `Spec` of `ReviewCards` | `HiddenByDeath` |
| | `SureSignalsHelp` | `JudgeSpec` of `Judgements` | `SureSignalNeverLowers` |
| | `VerdictsAgree` | `JudgeSpec` | `AdvanceNeverArchived` |
| | `HashOfTheModel` | `JudgeSpec` | `SameHashSameModel` |
| | `RulesAndWeightsAgree` | `JudgeSpec` | `MergedByRuleIsNeverNew` |
| | `MarksStay` | `JudgeSpec` | `MoreIsNeverUnmarked` |
| `SheetProofs` | `ToldOnce` | `Spec` of `PortfolioNews` | `AnnouncedOnce` |
| | `LossHasACause` | `Spec` of `PortfolioNews` | `LostByDeathOrRace` |
| | `NotesStayInPlace` | `TabSpec` of `SheetTab` | `MisplacedByDeathOrOverlap` |
| | `UpsertsTakeNothing` | `TabSpec` of `SheetTab` | `KeptUnlessDisturbed` |

Each holds for any number of processes, items, attempts, messages and faults;
those of `Judgements` for any number of signals and reviews, any confidences and
fits, and sets of words of any size.

*Chain queue.* `AttemptBudget` is not inductive: attempts are counted from a
worker's copy. `MemoryInv` adds that a copy has attempts left, that a worker in
`link` or `enqueue` has a stage that succeeded and is not the last, and so on;
`QueueInv` joins it with types, dependency and budget. Under leases, `Frontier`
says that done stages are a prefix and that at most the stage after it has a
live row; `LinkInv` that a worker between two writes stands at that frontier;
`FreshLease` that a running worker's lease has not expired; `IsSeeded` that
nobody seeds. The key lemma `DueMeansQuiet` says that if the lease query finds
a row, nobody is at work. Refinement: every step that changes a status is, at
the frontier, a `Complete`, a `Stop` or a stutter.

*SMINFO queue.* `Settle` and `Publish` write what an enricher remembers of rows
that others have rewritten since. `BatchInv` says what it remembers: until it
settles, the attempts it copied are below the maximum; afterwards there is a
profile under the id of each answer it holds, if not that answer. No lease need be
valid for this. Under turns and leases `LeaseInv` adds that a row somebody works
on is leased, in one batch and not yet to be taken over, and that what is about
to be settled is what the profile says; so no answer in the queue is overwritten
by another enricher's error (`AnswerInv`), as only a row that was queued again is
looked up. For the backoff,
`RestInv` says that the history variable is what the row itself says: a
retry's wait, the rest of an answer's window, otherwise nothing; so whatever
the lease query or the crawl's filter lets through has rested. `PlanInv` keeps
this true of what a crawl has read and not yet written, which is where turns
are needed: only an enricher's `Settle` could make it false.

*Candidate Detail.* The queue's ids are made of what a crawl happened to see, so
that one name can have several. `DetailInv` says that no two rows share an id,
that a row's id goes by its name (`Own`), and that its homepage is the
company's unless some crawl could not see the page (`RowSeen`); that cards in
hand which would make two tasks are noted in `split`; and that a candidate of a
batch is a copy of a row which is still there (`Leased`), so that settling adds
no row. A crawl adds a row only for a name that had none when it began to
write, hence a second one only for another of its own cards.

For the tab (`RowsFit`) the question is what an upsert takes for the same row.
A row is identified by its name and by its homepage, whichever it finds first;
`Person` says whose a row really is (a company, or where that has no homepage
each way of writing its name), `Owner` whose a homepage is. `Fitting` lists what
rows must satisfy for an upsert to go by persons: a homepage belongs to the
person of the name, rows of a person share a key, merging two of them gives a
row that is fit again; but for persons of whom there may be two rows, which are
the companies with two names that a crawl did not see (`Twofold`). `UpsertFits`
carries this through the upsert's three loops, with `TableFits` of the index:
every key leads to a row of its owner. What the jobs write is then shown to be
fitting: `Whose` and `Named` tie a name, a homepage and the other cells to one
company, `Marked` the mark to the region, `Told` says that a row to be written
either knows the region or has an excuse. `TabInv` states it of the tab,
`TakenInv` of what the enrichment holds while others write: a candidate taken
from the tab is still of a person that is there as long as nothing is queued,
and once something is, its company is among the known ones before it publishes.

For the rounds (`RoundsAdvance`) a card is followed from the site to the tab.
`Newest` says of a card that no row of its company tells a newer round.
`SiteInv`: cards to come are newest, and of the list the first one of each
company, as the list is in order. `HeldInv`: the first card of a company on the
pages that a crawl has read is newest, and what is still on the list from the
next page on, of companies without a card on those pages, likewise; a card in
the crawl's hands is newest unless its company was passed over or the crawl took
two of its cards. So pages may shift under a crawl: a card that THE VC lists
meanwhile is in front of all, and what it pushes to the next page is there again
(`NewsHeld`, `ReadFits`). When cards are written, every row's round is one that
the row's company had on the tab or on a card (`Written`, from `UpsertFits` with
rows restricted to given rounds, `WrittenRounds`), and nobody who had a round
loses it (`Rounded`).

*Outreach.* `Counted` and `Allowance` split today's drafts over the executions'
stages: a draft is counted, known not to be, or about to be counted; and with
the executions past the check they stay within the limit plus what can be side
by side. Both need cardinalities of changing sets of executions. For
duplicates, `DraftsInv` follows a draft from the mailbox to the execution that
has it, to the answer, the run's rows, the table and the tab: somewhere it is
known, or its answer is counted as lost.

*Investors.* Whether a batch starves anybody is a question of counting: of what
is due, a batch takes the first `BatchLimit` in a strict order (`Leading`,
`Ahead`), so that after it fewer are due, by the size of a batch, or none.
`FetchInv` says that a sync fetches in the first cycle of a day or not at all,
and only when everything it stored before is described, so that new funds never
add up; `PlaceInv` and `GotInv` where in a cycle the loop stands, since when,
and that a fund without a description is in what it has read. `FundTurnInv` and
`ManagerTurnInv` then say that every batch stored today was full, so that those
due and those the batches took are no more than all, or that everybody has had
a turn; a search that found nothing counts as one and is not due again on that
day. `DayInv` joins these as long as nobody calls by hand or dies, and `DbInv`
frees it of that condition. The theorem has one hypothesis, `RoomForAll`: two
cycles or more a day, all of which but one have batches for every fund, as
often as it may be extended, and every manager. The one left out is the cycle
that is under way when a day begins, which may have read before that. A day is
counted from the fetch: the code waits an interval in seconds, so that a fetch
drifts through the day of the calendar, and the model rounds it to days. A day
with fewer cycles than that gives no promise, in the code as in the model.

*Slack.* `SavesAll`: until a key is noted during a save, every thread that is
saving is about to write all keys; `LackIsDue`: what the file lacks, some
thread is going to write. For second replies there is an invariant per mode:
`OncePerLife`, that polling has posted about a message at most once per death
and per edit, and once more if it is known; `NeverAgain`, that with existing
messages ignored a message that was posted about since its last edit is known or
has left the history read for good, as the channel only grows; `OneHandler`, that
a message whose event neither came again nor failed has one handler, which has
posted nothing that it still will post.

*Loop.* `ValidIsComplete` compares, job by job, the variables that
`validate_for_job` asks for with those that `run_job` and the pipelines miss; so
a stage that is refused is one whose own check would have failed.
`StartInv` carries it from the start of a process to each of its jobs: who is
on its way was allowed, and the loop stands at a job of its list. For the
summary, `RunTimes` says that a run has a time of its own which no failure has
yet, so that a failed row never falls on another, and `FailedRowsInv` that
there are as many failed rows as failures. For the stamps, `Unstamped` says
that neither the tab nor a copy about to be written back bears the stamp of a
crawl that is still on its way, and `Complete` that a crawl without a warning
has, or will fetch, every target it took, and that what it has is stored under
its run. A stamp then finds sources stored although operators edit the tab
between the reading and the writing of it, because rows are looked up by identity,
which both the target that was crawled and the row that is stamped have in common.

*Wiki and backup.* `PagesAgree` is four statements, none inductive.
`PagesFirst`: the page of an AC or a startup is there before its row, its index
line and whatever a writer has listed. `SelectionHolds`: as long as no two
processes write one AC, what one of them has selected as stale is still what is
stale when it commits. `AloneHolds`: a process that works alone finds the pages
of the theses it has written and deletes none that anybody is linked to.
`SignalsLast`: sources are stored before entities, those before signals. For
the export, `Written` and `InOrder` say that a run writes a directory of its
own, and the tables one after the other; `ReadTables` that a table that was
read is as it is in the database or the database has changed, and that it has
lost no id of the copy, which is what makes a copy older than the tables
harmless; `ReadArchive` the same of files, which are in the archive or still to
come; `TabsLast` that a run writes its tabs last, from what its manifest
counts.

*Review cards.* What hides a card is a row in the store that nobody is going to
publish. `Promised` says, of a job at each of its steps, that a row it is about
to store is in the store already or among those it is going to publish, and so
for the questions about two entities; it holds whatever the job read before
others wrote. The step lemma `Revealing` adds that no step but a death or an
edit takes anything off the tabs or out of a job's hands.

*Judgements.* The invariants only give the types of the inputs (`CaseInv`,
`RecordsInv`, and `ExamplesInv`, by which a review has an id of its own); the
work is in the functions. A sum grows by what is appended and is the same after
two neighbours change places (`TotalAppend`, `TotalSwap`). For
`SureSignalsHelp`, an average does not fall by a number that is no less
(`AverageKeeps`, an argument about `\div`), and shares, types and the volume grow
with the signals. For `VerdictsAgree`, a total of 75 means that the three fits
which the score has in common with the utility weigh at least 25 of their 50
points, even if the rest is at its best; the default coefficients make at least
2.097 of that, which outweighs the intercept and the worst risk, the lowest
trust and staleness, so that the utility is above the logit of 0.4
(`AdvancedIsUseful`). For `HashOfTheModel`, coefficients depend on four sums over
the usable reviews and on their number (`CalibratedBySums`), and a step that
changes one of these shows in the hash, by an id or a decision that was not
there. For `RulesAndWeightsAgree`, a common homepage, or a common name with no
regions apart, weighs at least the logit of 0.45 (`RuleWeighs`), and the likeliest
record weighs no less (`FirstGreatest`).

*News.* The default tab is told by the store: `Remembered` says that what it
announced is known, and `DefaultPending`, of the news of a run, that they are
stored before they are told. Another tab remembers by its rows: a news was
announced at most as often as rows were deleted, and once more if it is there;
`OtherPending` says that what is in hand and still ahead leaves room for one
more message, once it is on the tab. This needs `SheetUpsert` to lose no row:
`Sound` says that every key of the index is a key of the row it points to, each
loop adds its rows and loses none (`PlacedSound`, `DedupeSound`), and so does
the upsert (`UpsertRows`). That is true for news that are apart (`Apart`: no
two of one article or one company), and section 4 says what happens to others.
For what is lost, `EmptyBefore` says that the run holds nothing of targets that
it has not read, and `DefaultPending` that behind the place where it stands
everything was told but what got old.

*Tabs.* `Keeps` says of two states of a tab that every row of one with a key or
a note has a row in the other, by positions and with everything below the last
row blank, so that the trimming of Google's ranges does not matter.
`UndisturbedKeeps`: a call that nobody has disturbed since it read is going to
write rows that keep those on the tab, over those it takes them for (`SameRow`,
and in `clear` the rows it has just written). That needs the algorithm of an
upsert to keep rows and notes for any rows (`UpsertKeeps`, `UpdatesFit`), by the
same loops as above. `KeptUnlessDisturbed` follows, as each such step keeps the
rows and is seen in the call's step or plan. For notes in wrong columns,
`QuietTab` says, as long as nobody but the loop writes and nothing has failed,
in which orders the cells may stand at each step of the loop; it needs `PlanFits`
(what was read belongs to which step), that no key stands twice on a tab of the
old order, and that the rewritten rows are not fewer than those that were read:
otherwise old cells would stay below them. An upsert that starts from scratch
is left out of the first argument by name, and its left-over rows are why the
second one excuses edits on Candidate Detail.

*Loops over sequences.* What the loops of the code compute for sequences of
any length is proved by a set form of induction over numbers (lemma
`Induction`, from the well-foundedness of `<`): the recursive function exists
(`OnlyExists`, `PlacedExists`, ...), and what holds after n elements holds
after n + 1. So `StampsHold` uses the tab's list of targets, `NothingIsHidden`
that a set can be put in a list, the news every element of an upsert.

*Assumptions*: `QueueAssumption`, `SminfoAssumption`, `OutreachAssumption`,
`InvestorDbAssumption`, `SlackQaAssumption`, `DetailAssumption` of
`CandidateDetail` (the tab at the start is one that these jobs leave: `KeptRow`)
and `NewestFirst` (THE VC lists a company's newer rounds before its older ones,
and the tab at the start is no newer than the list), `ConfigsAssumption`,
`StagesAssumption` and `TabAssumption` of `AgentLoop`, `WikiAssumption`,
`ExportAssumption`, `ReviewAssumption`, `JudgementAssumption` (finitely many
words, fits that are numbers), `NewsAssumption` and `TabAssumption` of
`SheetTab` (new rows hold nothing in the operators' columns; a tab of the old
order has one row for a key, as an upsert leaves it: one that got its new order
while a call that died had left rows twice on it is not covered), which TLC
evaluates in the runs of their modules. `LeaseSpec` assumes a seeded chain and
`Punctual`.

*Only model-checked*: liveness (`ChainEnds`, `Settles`, `EveryoneDrafted`,
`AnsweredInTheEnd`, `EachIsAsked`, `NewsSettles`, `Converges`,
`DecisionsArrive`, `CoefficientsCatchUp`, `TabsCatchUp`,
`EveryJobEveryCycle`), which is beyond the prover. Every invariant and every
action property that a run checks is the statement of a theorem above.

## 6. What is left

Ordered by what it would add:

1. `PortfolioNews` and `ReviewCards` over `SheetTab`'s calls instead of atomic
   upserts.
2. An abstract specification of a card's life (unseen, offered, decided) that
   `ReviewCards` implements when nobody dies.
3. Slack project decisions beside the QA agent in one channel.
4. The appending BigQuery store, whose upserts are no upserts.

## 7. Not modelled, and why

- Slack project decisions: a single pass over a channel that posts first and
  saves its keys afterwards; a failure in between repeats notifications.
- Parsers, normalisation, watchlists, batch import and web clients: functions
  of text that unit tests reach; their results are nondeterministic choices or
  constants of the modules.
- Stores: an upsert, lease or query is one step, as SQLite's transactions and
  BigQuery's `MERGE` make it; what is left maps rows to columns.
- MCP server: it calls the pipelines and keeps nothing; it is why the modules
  have a process by hand.
- Dashboard, audits, Terraform, shell scripts: no state that goes wrong in
  several steps.
- The text of messages, mails and issues, among it the limit of ten entries of
  a news message; wording, layout and logging everywhere.
- Of modelled components: channels, problems, beneficiaries, sources and the
  log of the wiki, which only grow; label rows, known bad cells, summaries of
  another form and the growth of the grid of the sheet; the waits and clicks of the
  browsers; rationales and the exploration score of the scoring.
