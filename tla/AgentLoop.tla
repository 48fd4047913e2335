------------------------------ MODULE AgentLoop ------------------------------
(***************************************************************************)
(* The processes that run jobs: `jobs loop`, which runs its jobs in turn    *)
(* for a number of cycles (agent_loop.py), and `jobs run`, one job by hand  *)
(* or by cron (jobs.py).  Both go through run_job.  Two jobs are modelled   *)
(* step by step: crawl-sources, which takes its targets from the Crawl      *)
(* Sources tab and stamps them there when it is done, and weekly-summary,   *)
(* which posts what the run table holds.  The others have modules of their  *)
(* own and are here a job that succeeds or raises.                          *)
(*                                                                          *)
(* People edit the tab while jobs run; a process can die at any step; the   *)
(* loop is started again, a job run by hand is not.  A configuration also   *)
(* bounds what is explored under it: its fields edits and deaths say how    *)
(* many edits and deaths there are, cli and inline what is run by hand.     *)
(***************************************************************************)
EXTENDS RuntimeConfig, FiniteSets, SequencesExt

CONSTANTS
    Configs,        \* the configurations a behaviour may have
    Slots,          \* places of the Crawl Sources tab
    StartTab,       \* the targets in them at first
    Targets,        \* the targets there are: what an operator may write in a place
    InlineTargets,  \* targets of --sources-json, and of CRAWL_TARGETS_JSON
    OtherTab,       \* rows of the tab that CRAWL_SHEET_TAB names when it is another one
    Stages          \* jobs of the stages of the work queue (AGENT_WORK_QUEUE_SPEC_PATH)

\* AGENT_LOOP_JOBS names at least one job: an empty value stands for the default
\* (a list of nothing but commas is left out).
ASSUME ConfigsAssumption ==
    \A c \in Configs : c.jobs \in Seq(STRING) /\ c.jobs # <<>> /\ c.inline \in BOOLEAN

\* A chain's stages are jobs, and not the queue itself.
ASSUME StagesAssumption == Stages \subseteq JobNames \ {"agent-work-queue"}

Procs == {"loop", "cli"}
NoRow == [url |-> "none"]

\* A target has its url, its options, its status, and rest: what is outside the
\* headers that the crawl knows, and how the cells are spelt, in which case and
\* with which spaces around them.
TargetOf(row) == [url |-> row.url, opts |-> row.opts, status |-> row.status, rest |-> row.rest]

\* _crawl_target_identity: the cells of the known headers, stripped and casefolded,
\* but the two that the crawl writes.
Ident(row) == [url |-> row.url, opts |-> row.opts, status |-> row.status]

\* The rows of a tab have places, counted from its top; a target is its cells.
ASSUME TabAssumption ==
    /\ IsFiniteSet(Slots) /\ Slots = 1..Cardinality(Slots)
    /\ \A t \in Targets : t = TargetOf(t)
    /\ StartTab \in [Slots -> Targets]
    /\ InlineTargets \in Seq(Targets) /\ OtherTab \in Seq(Targets)

VARIABLES
    conf,     \* the configuration, the same for both processes
    tab,      \* the Crawl Sources tab: a target with its at and err cells, or NoRow
    pc,       \* where each process is
    job,      \* the job it runs
    run,      \* the started_at of that job
    targets,  \* crawl: the active rows it took, in order
    todo,     \* crawl: the targets not yet fetched
    got,      \* crawl: the targets whose sources it has
    warned,   \* crawl: some target gave a warning
    copy,     \* crawl: the tab as read again at the end
    counted,  \* weekly-summary: the failures it read in the run table
    cycle, turn,  \* loop: the cycle and the place in the list of jobs
    results,  \* loop: the jobs that ended, well or not, as LoopJobResults
    runs,     \* the agent_runs table, as key -> row
    stored,   \* the sources in the store, as <<started_at, target>>
    now, edits, deaths,
    raised,   \* history: the failures that have a row in runs
    refused   \* history: <<job, by>>, a job that lacked something, and the job a process ran

procVars == <<job, run, targets, todo, got, warned, copy, counted>>
loopVars == <<cycle, turn, results>>
history  == <<raised, refused>>
vars == <<conf, tab, pc, procVars, loopVars, runs, stored, now, edits, deaths, history>>

Cells(t, at, err) ==
    [url |-> t.url, opts |-> t.opts, status |-> t.status, rest |-> t.rest, at |-> at, err |-> err]
Fresh(t)   == Cells(t, 0, FALSE)
Plain(row) == IF row = NoRow THEN NoRow ELSE TargetOf(row)

\* The statuses that switch a target off.
IsActive(t) == t # NoRow /\ t.url # "" /\ t.status # "done"

\* The active rows of a list, in its order.
ActiveRows(rows) ==
    LET upTo[n \in 0..Len(rows)] ==
            IF n = 0 THEN <<>>
            ELSE IF IsActive(rows[n]) THEN Append(upTo[n - 1], rows[n]) ELSE upTo[n - 1]
    IN  upTo[Len(rows)]

\* A run id without the time of the failure.
FailedKeyOfJob(p, at) == <<"failed", job[p]>>

\* The run ids: those of failures are digests of the time and the message.
FailedKey(p, at) == <<"failed", job[p], at>>
DoneKey(p)       == <<"success", job[p], run[p]>>
FailedRows       == {k \in DOMAIN runs : runs[k].status = "failed"}

\* upsert_rows with the run id as its key.
Upserted(key, row) == [k \in DOMAIN runs \cup {key} |-> IF k = key THEN row ELSE runs[k]]

Row(p, status, err) == [job |-> job[p], status |-> status, at |-> run[p], err |-> err]

Init ==
    /\ conf \in Configs
    /\ tab = [s \in Slots |-> Fresh(StartTab[s])]
    /\ pc = [p \in Procs |-> IF p = "cli" /\ conf.cli = "none" THEN "off" ELSE "start"]
    /\ job = [p \in Procs |-> ""] /\ run = [p \in Procs |-> 0]
    /\ targets = [p \in Procs |-> <<>>] /\ todo = [p \in Procs |-> <<>>]
    /\ got = [p \in Procs |-> {}] /\ warned = [p \in Procs |-> FALSE]
    /\ copy = [p \in Procs |-> <<>>] /\ counted = [p \in Procs |-> 0]
    /\ cycle = 1 /\ turn = 1 /\ results = <<>>
    /\ runs = <<>> /\ stored = {}
    /\ now = 0 /\ edits = 0 /\ deaths = 0
    /\ raised = {} /\ refused = {}

Goto(p, where) == pc' = [pc EXCEPT ![p] = where]

-----------------------------------------------------------------------------
(* Starting *)

Allowed(p) == IF p = "loop" THEN LoopAllowed(conf) ELSE JobAllowed(conf, conf.cli, conf.inline)

\* main: a configuration that is not enough stops the process before any job.
Start(p) ==
    /\ pc[p] = "start"
    /\ Goto(p, IF Allowed(p) THEN "turn" ELSE "refused")
    /\ IF p = "loop" THEN cycle' = 1 /\ turn' = 1 /\ results' = <<>> ELSE UNCHANGED loopVars
    /\ UNCHANGED <<conf, tab, procVars, runs, stored, now, edits, deaths, history>>

Inline(p) == p = "cli" /\ conf.inline
JobOf(p)  == IF p = "loop" THEN conf.jobs[turn] ELSE conf.cli

\* _crawl_targets_from_sheet: the active rows of the tab, or else the configured list.
SheetTargets ==
    LET rows == IF Sheet \notin conf.env THEN <<>>
                ELSE IF conf.otherTab THEN OtherTab
                ELSE [i \in Slots |-> tab[i]]
        active == ActiveRows(rows)
    IN  IF active # <<>> THEN [i \in DOMAIN active |-> TargetOf(active[i])]
        ELSE IF "CRAWL_TARGETS_JSON" \in conf.env THEN InlineTargets ELSE <<>>

TakenTargets(p) == IF Inline(p) THEN InlineTargets ELSE SheetTargets

\* The stages that cannot get through when this job is run.
LackingStages(j) ==
    {s \in Stages : j = "agent-work-queue" /\ LacksSomething(conf, s, FALSE)}

\* run_job is called: crawl-sources reads its targets and raises if there are none,
\* any job raises when something it needs is not configured.  Pipelines that write
\* to the sheet only when they have something to write may get through without one.
\* The work queue calls run_job for its stages, and nothing checks them before; one
\* that raises leaves a blocked or failed task (AgentWorkQueue), and the job goes on.
Begin(p) ==
    /\ pc[p] = "turn"
    /\ now' = now + 1
    /\ job' = [job EXCEPT ![p] = JobOf(p)]
    /\ run' = [run EXCEPT ![p] = now + 1]
    /\ LET j == JobOf(p) IN
       \/ /\ LacksSomething(conf, j, Inline(p))
          /\ Goto(p, "refusal")
          /\ refused' = refused \cup {<<j, j>>}
          /\ UNCHANGED <<targets, todo, got, warned>>
       \/ /\ j = "crawl-sources" /\ ~LacksSomething(conf, j, Inline(p))
          /\ targets' = [targets EXCEPT ![p] = ActiveRows(TakenTargets(p))]
          /\ todo' = [todo EXCEPT ![p] = targets'[p]]
          /\ got' = [got EXCEPT ![p] = {}]
          /\ warned' = [warned EXCEPT ![p] = FALSE]
          /\ Goto(p, IF TakenTargets(p) = <<>> THEN "refusal" ELSE "fetch")
          /\ UNCHANGED refused
       \/ /\ j # "crawl-sources"
          /\ LacksSomething(conf, j, Inline(p)) => j \in {"resolve-entities", "score-candidates"}
          /\ Goto(p, IF j = "weekly-summary" THEN "count" ELSE "work")
          /\ \E S \in SUBSET LackingStages(j) : refused' = refused \cup {<<s, j>> : s \in S}
          /\ UNCHANGED <<targets, todo, got, warned>>
    /\ UNCHANGED <<conf, tab, copy, counted, loopVars, runs, stored, edits, deaths, raised>>

-----------------------------------------------------------------------------
(* crawl-sources *)

\* One target: its sources are fetched, perhaps with a warning (Platum lost a
\* page), or a blocked browser leaves a warning and no sources, or something
\* raises and the sources of every target are lost.
Fetch(p) ==
    /\ pc[p] = "fetch" /\ todo[p] # <<>>
    /\ \/ /\ todo' = [todo EXCEPT ![p] = Tail(@)]
          /\ \E whole, warning \in BOOLEAN :
                /\ whole \/ warning
                /\ got' = IF whole THEN [got EXCEPT ![p] = @ \cup {Head(todo[p])}] ELSE got
                /\ warned' = [warned EXCEPT ![p] = @ \/ warning]
          /\ pc' = pc
       \/ Goto(p, "raised") /\ UNCHANGED <<todo, got, warned>>
    /\ UNCHANGED <<conf, tab, job, run, targets, copy, counted, loopVars, runs, stored,
                   now, edits, deaths, history>>

\* ingest_sources stores what was fetched; it may raise half-way.
Ingest(p) ==
    /\ pc[p] = "fetch" /\ todo[p] = <<>>
    /\ \/ stored' = stored \cup {<<run[p], t>> : t \in got[p]} /\ Goto(p, "project")
       \/ /\ \E kept \in SUBSET got[p] : stored' = stored \cup {<<run[p], t>> : t \in kept}
          /\ Goto(p, "raised")
    /\ UNCHANGED <<conf, tab, procVars, loopVars, runs, now, edits, deaths, history>>

\* The candidate and news tabs, the SMINFO queue and the Slack messages: see
\* CandidateDetail and PortfolioNews. Any of it may raise.
Project(p) ==
    /\ pc[p] = "project"
    /\ pc' \in {[pc EXCEPT ![p] = "record"], [pc EXCEPT ![p] = "raised"]}
    /\ UNCHANGED <<conf, tab, procVars, loopVars, runs, stored, now, edits, deaths, history>>

Publishes(p) == Sheet \in conf.env /\ ~Inline(p)

\* The row in agent_runs; a crawl of targets given by hand ends here.
RecordCrawl(p) ==
    /\ pc[p] = "record"
    /\ \/ /\ runs' = Upserted(DoneKey(p), Row(p, "success", warned[p]))
          /\ Goto(p, IF Publishes(p) THEN "reread" ELSE "ended")
       \/ runs' = runs /\ Goto(p, "raised")
    /\ UNCHANGED <<conf, tab, procVars, loopVars, stored, now, edits, deaths, history>>

\* _publish_crawl_target_status reads the tab again, always the one called
\* Crawl Sources, and stops if there is nothing in it or nothing to stamp ...
Reread(p) ==
    /\ pc[p] = "reread"
    /\ copy' = [copy EXCEPT ![p] = tab]
    /\ pc' \in {[pc EXCEPT ![p] = IF targets[p] = <<>> \/ \A s \in Slots : tab[s] = NoRow
                                   THEN "ended" ELSE "publish"],
                [pc EXCEPT ![p] = "raised"]}
    /\ UNCHANGED <<conf, tab, job, run, targets, todo, got, warned, counted, loopVars, runs,
                   stored, now, edits, deaths, history>>

\* A target known by its address alone.
IdentityByUrl(row) == [url |-> row.url]

\* _crawl_target_identity: the known cells, but the two it writes.
Identity(row) == Ident(row)

Stamped(p, row) ==
    IF row # NoRow /\ Identity(row) \in {Identity(t) : t \in ToSet(targets[p])}
    THEN Cells(row, run[p], warned[p]) ELSE row

\* ... and writes all of it back, with the targets of this crawl stamped.
Publish(p) ==
    /\ pc[p] = "publish"
    /\ \/ /\ tab' = [s \in Slots |-> Stamped(p, copy[p][s])]
          /\ Goto(p, "ended")
       \/ Goto(p, "raised") /\ UNCHANGED tab
    /\ UNCHANGED <<conf, procVars, loopVars, runs, stored, now, edits, deaths, history>>

-----------------------------------------------------------------------------
(* weekly-summary, and the jobs modelled elsewhere *)

Count(p) ==
    /\ pc[p] = "count"
    /\ counted' = [counted EXCEPT ![p] = Cardinality(FailedRows)]
    /\ Goto(p, "post")
    /\ UNCHANGED <<conf, tab, job, run, targets, todo, got, warned, copy, loopVars, runs, stored,
                   now, edits, deaths, history>>

\* The message goes out, or Slack refuses it.
Post(p) ==
    /\ pc[p] = "post"
    /\ pc' \in {[pc EXCEPT ![p] = "note"], [pc EXCEPT ![p] = "raised"]}
    /\ UNCHANGED <<conf, tab, procVars, loopVars, runs, stored, now, edits, deaths, history>>

\* The row of a job that is done; the store may refuse it.
NoteDone(p) ==
    /\ pc[p] \in {"note", "work"}
    /\ runs' = Upserted(DoneKey(p), Row(p, "success", FALSE))
    /\ Goto(p, "ended")
    /\ UNCHANGED <<conf, tab, procVars, loopVars, stored, now, edits, deaths, history>>

WorkFails(p) ==
    /\ pc[p] \in {"note", "work"}
    /\ Goto(p, "raised")
    /\ UNCHANGED <<conf, tab, procVars, loopVars, runs, stored, now, edits, deaths, history>>

-----------------------------------------------------------------------------
(* The end of a job *)

EndCycle ==
    /\ UNCHANGED <<turn, cycle>>
    /\ Goto("loop", IF conf.cycles > 0 /\ cycle >= conf.cycles THEN "done" ELSE "sleep")

NextJob == turn < Len(conf.jobs) /\ turn' = turn + 1 /\ cycle' = cycle /\ Goto("loop", "turn")

LastJob == turn = Len(conf.jobs)

\* A break where the code has a continue.
NextTurnOrBreak ==
    \/ pc["loop"] = "ended" /\ NextJob
    \/ (pc["loop"] # "ended" \/ LastJob) /\ EndCycle

\* The loop goes on to its next job, whether this one ended well or not.
NextTurn ==
    \/ NextJob
    \/ LastJob /\ EndCycle

\* What a call of run_job kept in its variables is gone when it returns.
Forget(p) ==
    /\ job' = [job EXCEPT ![p] = ""]         /\ run' = [run EXCEPT ![p] = 0]
    /\ targets' = [targets EXCEPT ![p] = <<>>] /\ todo' = [todo EXCEPT ![p] = <<>>]
    /\ got' = [got EXCEPT ![p] = {}]         /\ warned' = [warned EXCEPT ![p] = FALSE]
    /\ copy' = [copy EXCEPT ![p] = <<>>]     /\ counted' = [counted EXCEPT ![p] = 0]

EndJob(p) ==
    /\ pc[p] = "ended"
    /\ IF p = "cli" THEN Goto(p, "off") /\ UNCHANGED loopVars
       ELSE NextTurn /\ results' = Append(results, <<job[p], "success">>)
    /\ Forget(p)
    /\ UNCHANGED <<conf, tab, runs, stored, now, edits, deaths, history>>

\* _record_failed_job and _record_failed_agent_run: a failed row of its own for
\* every failure; main keeps none for a refusal, and both go on when the store
\* is what failed.
Kept(p) == p = "loop" \/ pc[p] = "raised"

Fail(p) ==
    /\ pc[p] \in {"raised", "refusal"}
    /\ IF p = "cli" THEN Goto(p, "off") /\ UNCHANGED loopVars
       ELSE NextTurn /\ results' = Append(results, <<job[p], "failed">>)
    /\ \/ /\ Kept(p)
          /\ runs' = Upserted(FailedKey(p, run[p]), Row(p, "failed", FALSE))
          /\ raised' = raised \cup {run[p]}
       \/ UNCHANGED <<runs, raised>>
    /\ Forget(p)
    /\ UNCHANGED <<conf, tab, stored, now, edits, deaths, refused>>

\* sleep_fn returns: the next cycle.
Wake ==
    /\ pc["loop"] = "sleep"
    /\ cycle' = cycle + 1 /\ turn' = 1
    /\ Goto("loop", "turn")
    /\ UNCHANGED <<conf, tab, procVars, results, runs, stored, now, edits, deaths, history>>

-----------------------------------------------------------------------------
(* Around the jobs *)

\* An operator writes a target in a place of the tab, or empties it. The cells
\* the crawl writes stay as they are.
Edit(s, t) ==
    /\ edits < conf.edits
    /\ Sheet \in conf.env /\ "crawl-sources" \in ToSet(conf.jobs)
    /\ t # Plain(tab[s])
    /\ tab' = [tab EXCEPT ![s] = IF t = NoRow THEN NoRow
                                 ELSE IF @ = NoRow THEN Fresh(t) ELSE Cells(t, @.at, @.err)]
    /\ edits' = edits + 1
    /\ UNCHANGED <<conf, pc, procVars, loopVars, runs, stored, now, deaths, history>>

Stopped == {"start", "off", "refused", "done"}

\* The process dies; whoever runs the pod starts the loop again.
Die(p) ==
    /\ deaths < conf.deaths
    /\ pc[p] \notin Stopped
    /\ deaths' = deaths + 1
    /\ Goto(p, IF p = "loop" THEN "start" ELSE "off")
    /\ Forget(p)
    /\ UNCHANGED <<conf, tab, loopVars, runs, stored, now, edits, history>>

Crawl(p)   == Fetch(p) \/ Ingest(p) \/ Project(p) \/ RecordCrawl(p) \/ Reread(p) \/ Publish(p)
Summary(p) == Count(p) \/ Post(p)
Step(p)    == Start(p) \/ Begin(p) \/ Crawl(p) \/ Summary(p) \/ NoteDone(p) \/ WorkFails(p)
                  \/ EndJob(p) \/ Fail(p)
LoopStep == Step("loop") \/ Wake

AllStopped == (\A p \in Procs : pc[p] \in Stopped \ {"start"}) /\ UNCHANGED vars

Next ==
    \/ \E p \in Procs : Step(p) \/ Die(p)
    \/ Wake
    \/ \E s \in Slots, t \in Targets \cup {NoRow} : Edit(s, t)
    \/ AllStopped

Spec == Init /\ [][Next]_vars
Live == Spec /\ WF_vars(LoopStep)

-----------------------------------------------------------------------------
(* Properties *)

\* What the checks of main let through is not refused later for something it
\* lacks, but for two jobs they ask nothing of (the profiles need inline sources,
\* entity resolution writes to a sheet that need not be there), a backup of a store
\* that is no file, and the stages of the work queue, which nobody checks: what such
\* a stage lacks, validate_for_job would have found.
CheckedAtTheStart ==
    \A r \in refused :
        \/ r[1] \in {"ingest-ac-profiles", "resolve-entities"}
        \/ r[1] = "backup-export" /\ conf.store = "bigquery"
        \/ r[2] = "agent-work-queue" /\ ~ValidForJob(conf, r[1], FALSE)

\* A stamp without a message is true: the sources of a target of the same identity,
\* so with the options that the stamped row has, are in the store under that run.
StampsAreTrue ==
    [][\A p \in Procs : Publish(p) =>
         \A s \in Slots : LET row == tab'[s] IN
             row \notin {NoRow, tab[s]} /\ row.at = run[p] /\ ~row.err
                 => \E src \in stored : src[1] = run[p] /\ Ident(src[2]) = Ident(row)]_vars

\* A summary counts the jobs that failed: every failure that could be written
\* down has a row of its own, and only those do.
SummaryCountsFailures == [][\A p \in Procs : Count(p) => counted'[p] = Cardinality(raised)]_vars

\* A bounded loop that is not refused comes to its end, and by then has given
\* every job of its list a turn in every cycle, whatever failed.
TurnsOf(j) == Len(SelectSeq(results, LAMBDA r : r[1] = j))
EveryJobEveryCycle ==
    <>(\/ pc["loop"] = "refused"
       \/ pc["loop"] = "done" /\ \A j \in ToSet(conf.jobs) : TurnsOf(j) = conf.cycles)
=============================================================================
