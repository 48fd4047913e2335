--------------------------- MODULE AgentLoopProofs ---------------------------
(***************************************************************************)
(* Three promises of AgentLoop for every set of configurations, tab, list   *)
(* of targets and stages: that a job the checks of main let through is not  *)
(* refused later for what it lacks, but for the exceptions named there,     *)
(* that a weekly summary counts every failure that could be written down,   *)
(* and that a stamp without a message on a target of the tab is true.       *)
(***************************************************************************)
EXTENDS AgentLoop, FiniteSetTheorems, NaturalsInduction, WellFoundedInduction, TLAPS

-----------------------------------------------------------------------------
(* The checks.                                                             *)

Unasked == {"ingest-ac-profiles", "resolve-entities"}

\* The jobs that can lack something although they are valid.
Excused(c, j) == j \in Unasked \/ (j = "backup-export" /\ c.store = "bigquery")

\* Whatever the environment, what is valid and can be built lacks nothing that
\* run_job or a pipeline needs, but for those jobs.
LEMMA ValidIsComplete ==
  ASSUME NEW c, NEW j, NEW inline \in BOOLEAN,
         ValidForJob(c, j, inline), Builds(c), LacksSomething(c, j, inline)
  PROVE  Excused(c, j)
<1>1. \A v \in JobNeeds(c, j, inline) : v \in c.env \/ v \in AlwaysSet
  BY DEF ValidForJob
<1>2. \A v \in JobNeeds(c, j, inline) :
         v \notin {"MOTHER_DB_PATH", "BACKUP_ROOT", "RAW_ROOT"} => v \in c.env
  BY <1>1 DEF AlwaysSet
<1>3. CASE j = "ingest-sources"
  BY <1>2, <1>3 DEF JobNeeds, LacksSomething, HasGmail
<1>4. CASE j = "crawl-sources"
  BY <1>2, <1>4 DEF JobNeeds, LacksSomething, HasQueue, Sheet
<1>5. CASE j \in {"score-candidates", "sync-review-sheet"}
  BY <1>2, <1>5 DEF JobNeeds, LacksSomething, HasQueue, Sheet
<1>6. CASE j = "calibrate-scores"
  BY <1>2, <1>6 DEF JobNeeds, LacksSomething
<1>7. CASE j = "weekly-summary"
  BY <1>2, <1>7 DEF JobNeeds, LacksSomething, HasNotifier, Builds
<1>8. CASE j = "enrich-sminfo"
  BY <1>2, <1>8 DEF JobNeeds, LacksSomething, HasQueue, HasSminfo, Sheet
<1>9. CASE j = "draft-outreach-emails"
  <2>1. Sheet \in c.env /\ \A v \in GatewayNeeds(c) : v \in c.env
    BY <1>2, <1>9 DEF JobNeeds, GatewayNeeds, Sheet
  <2>2. HasDrafts(c)
    BY <2>1 DEF GatewayNeeds, HasDrafts
  <2> QED
    BY <1>9, <2>1, <2>2 DEF LacksSomething, HasQueue
<1>10. CASE j = "sync-kvic-funds"
  BY <1>2, <1>10 DEF JobNeeds, LacksSomething
<1>11. CASE j = "research-investors"
  BY <1>2, <1>11 DEF JobNeeds, LacksSomething
<1> QED
  BY <1>3, <1>4, <1>5, <1>6, <1>7, <1>8, <1>9, <1>10, <1>11 DEF LacksSomething, Excused, Unasked

\* Main's checks are behind a process that is on its way, and the loop stands at
\* a job of its list.
Before  == {"start", "refused", "off"}
AtAJob  == {"fetch", "project", "record", "reread", "publish", "count", "post", "note", "work",
            "ended", "raised", "refusal"}
Between == {"turn", "sleep", "done"}
Places  == Before \cup AtAJob \cup Between

OnItsWay(p) == pc[p] \notin Before

StartInv ==
  /\ conf \in Configs
  /\ pc \in [Procs -> Places]
  /\ turn \in 1..Len(conf.jobs)
  /\ \A p \in Procs : OnItsWay(p) => Allowed(p)

CheckInv == StartInv /\ CheckedAtTheStart

\* A list of jobs has a first one.
LEMMA SomeJob == ASSUME NEW c \in Configs PROVE 1 \in 1..Len(c.jobs) /\ Len(c.jobs) \in Nat
<1>1. c.jobs \in Seq(STRING) /\ c.jobs # <<>>
  BY ConfigsAssumption
<1>2. Len(c.jobs) \in Nat /\ Len(c.jobs) # 0
  BY <1>1
<1> QED
  BY <1>2

\* At the start no process is on its way.
LEMMA CheckInit == Init => CheckInv
<1> SUFFICES ASSUME Init PROVE CheckInv
  OBVIOUS
<1>1. turn \in 1..Len(conf.jobs)
  BY SomeJob DEF Init
<1>2. pc \in [Procs -> Places] /\ \A p \in Procs : ~OnItsWay(p)
  <2>1. pc = [p \in Procs |-> IF p = "cli" /\ conf.cli = "none" THEN "off" ELSE "start"]
    BY DEF Init
  <2>2. \A p \in Procs : pc[p] = "off" \/ pc[p] = "start"
    BY <2>1
  <2>3. pc = [p \in Procs |-> pc[p]]
    BY <2>1
  <2>4. pc \in [Procs -> Places]
    BY <2>2, <2>3 DEF Places, Before
  <2> QED
    BY <2>2, <2>4 DEF OnItsWay, Before
<1> QED
  BY <1>1, <1>2 DEF Init, CheckInv, StartInv, CheckedAtTheStart

\* A step that moves one process on, from a place beyond the checks or to one
\* before them, and leaves the loop at a job of its list, keeps StartInv.
LEMMA Move ==
  ASSUME StartInv, NEW p \in Procs, NEW where \in Places, Goto(p, where),
         UNCHANGED conf, turn' \in 1..Len(conf.jobs),
         \/ OnItsWay(p) \/ Allowed(p) \/ where \in Before
  PROVE  StartInv'
<1>1. \A q \in Procs : Allowed(q)' <=> Allowed(q)
  BY DEF Allowed
<1>2. pc' \in [Procs -> Places] /\ pc'[p] = where /\ \A q \in Procs : q # p => pc'[q] = pc[q]
  BY DEF Goto, StartInv
<1>3. \A q \in Procs : OnItsWay(q)' => Allowed(q)
  BY <1>2 DEF StartInv, OnItsWay
<1> QED
  BY <1>1, <1>2, <1>3 DEF StartInv

\* The loop's next turn is a job of its list, or the end of the cycle.
LEMMA Turn ==
  ASSUME StartInv, NextTurn
  PROVE  /\ turn' \in 1..Len(conf.jobs)
         /\ Goto("loop", "turn") \/ Goto("loop", "done") \/ Goto("loop", "sleep")
<1>1. Len(conf.jobs) \in Nat
  BY SomeJob DEF StartInv
<1>2. CASE NextJob
  <2>1. turn \in 1..Len(conf.jobs)
    BY DEF StartInv
  <2>2. turn < Len(conf.jobs) /\ turn' = turn + 1 /\ Goto("loop", "turn")
    BY <1>2 DEF NextJob
  <2> QED
    BY <1>1, <2>1, <2>2
<1>3. CASE LastJob /\ EndCycle
  <2>1. turn' = turn /\ (Goto("loop", "done") \/ Goto("loop", "sleep"))
    BY <1>3 DEF EndCycle
  <2> QED
    BY <2>1 DEF StartInv
<1> QED
  BY <1>2, <1>3 DEF NextTurn

\* A job that begins is one that the checks allowed.
LEMMA BeginIsAllowed ==
  ASSUME StartInv, NEW p \in Procs, pc[p] = "turn", LacksSomething(conf, JobOf(p), Inline(p))
  PROVE  Excused(conf, JobOf(p))
<1>1. Allowed(p)
  BY DEF StartInv, OnItsWay, Before
<1>2. CASE p = "loop"
  <2>1. Inline(p) = FALSE /\ JobOf(p) = conf.jobs[turn]
    BY <1>2 DEF Inline, JobOf
  <2>2. turn \in DOMAIN conf.jobs
    <3>1. conf.jobs \in Seq(STRING)
      BY ConfigsAssumption DEF StartInv
    <3> QED
      BY <3>1 DEF StartInv
  <2>3. ValidForJob(conf, JobOf(p), FALSE) /\ Builds(conf)
    BY <1>1, <1>2, <2>1, <2>2 DEF Allowed, LoopAllowed
  <2> QED
    BY <2>1, <2>3, ValidIsComplete
<1>3. CASE p = "cli"
  <2>1. conf.inline \in BOOLEAN
    BY ConfigsAssumption DEF StartInv
  <2>2. Inline(p) = conf.inline /\ JobOf(p) = conf.cli
    BY <1>3, <2>1 DEF Inline, JobOf
  <2>3. ValidForJob(conf, JobOf(p), conf.inline) /\ Builds(conf)
    BY <1>1, <1>3, <2>2 DEF Allowed, JobAllowed
  <2> QED
    BY <2>1, <2>2, <2>3, ValidIsComplete
<1> QED
  BY <1>2, <1>3 DEF Procs

\* What the property says of one refusal.
Told(c, r) == Excused(c, r[1]) \/ (r[2] = "agent-work-queue" /\ ~ValidForJob(c, r[1], FALSE))

LEMMA CheckedIsTold == CheckedAtTheStart <=> \A r \in refused : Told(conf, r)
BY DEF CheckedAtTheStart, Told, Excused, Unasked

\* A job of the loop that lacks something is excused; a stage of the queue is, or it
\* would not have passed its own check.
LEMMA BeginTells ==
  ASSUME StartInv, \A r \in refused : Told(conf, r), NEW p \in Procs, Begin(p)
  PROVE  \A r \in refused' : Told(conf, r)
<1> DEFINE j == JobOf(p)
<1>1. pc[p] = "turn" /\ OnItsWay(p)
  BY DEF Begin, OnItsWay, Before
<1>2. \/ refused' = refused
      \/ LacksSomething(conf, j, Inline(p)) /\ refused' = refused \cup {<<j, j>>}
      \/ \E S \in SUBSET LackingStages(j) : refused' = refused \cup {<<s, j>> : s \in S}
  BY DEF Begin
<1>3. LacksSomething(conf, j, Inline(p)) => Told(conf, <<j, j>>)
  BY <1>1, BeginIsAllowed DEF Told
<1>4. Builds(conf)
  BY <1>1 DEF StartInv, Allowed, LoopAllowed, JobAllowed
<1>5. ASSUME NEW s \in LackingStages(j) PROVE Told(conf, <<s, j>>)
  <2>1. LacksSomething(conf, s, FALSE) /\ j = "agent-work-queue"
    BY <1>5 DEF LackingStages
  <2>2. CASE ValidForJob(conf, s, FALSE)
    BY <1>4, <2>1, <2>2, ValidIsComplete DEF Told
  <2>3. CASE ~ValidForJob(conf, s, FALSE)
    BY <2>1, <2>3 DEF Told
  <2> QED
    BY <2>2, <2>3
<1> HIDE DEF j
<1> QED
  BY <1>2, <1>3, <1>5

\* One process takes a step: it moves on, and whatever is refused is told.
LEMMA CheckStep ==
  ASSUME CheckInv, NEW p \in Procs, Step(p) \/ Die(p)
  PROVE  CheckInv'
<1> DEFINE Same == UNCHANGED <<conf, turn, refused>>
<1>1. StartInv /\ CheckedAtTheStart
  BY DEF CheckInv
<1>2. turn \in 1..Len(conf.jobs) /\ 1 \in 1..Len(conf.jobs)
  BY <1>1, SomeJob DEF StartInv
<1>3. ASSUME NEW where \in Places, Goto(p, where), OnItsWay(p), Same
      PROVE  CheckInv'
  <2>1. StartInv'
    BY <1>1, <1>2, <1>3, Move
  <2> QED
    BY <1>1, <1>3, <2>1 DEF CheckInv, CheckedAtTheStart
<1>4. CASE Start(p)
  <2>1. PICK where \in {"turn", "refused"} :
          Goto(p, where) /\ (where = "turn" => Allowed(p))
    <3>1. CASE Allowed(p)
      BY <1>4, <3>1 DEF Start
    <3>2. CASE ~Allowed(p)
      BY <1>4, <3>2 DEF Start
    <3> QED
      BY <3>1, <3>2
  <2>2. UNCHANGED <<conf, refused>> /\ turn' \in {1, turn}
    BY <1>4 DEF Start, loopVars, history
  <2>3. turn' \in 1..Len(conf.jobs)
    BY <1>2, <2>2
  <2>4. where \in Places /\ (Allowed(p) \/ where \in Before)
    BY <2>1 DEF Places, Before, Between
  <2>5. StartInv'
    BY <1>1, <2>1, <2>2, <2>3, <2>4, Move
  <2> QED
    BY <1>1, <2>2, <2>5 DEF CheckInv, CheckedAtTheStart
<1>5. CASE Begin(p)
  <2>1. pc[p] = "turn" /\ OnItsWay(p) /\ UNCHANGED <<conf, turn>>
    BY <1>5 DEF Begin, OnItsWay, Before, loopVars
  <2>2. PICK where \in {"refusal", "fetch", "count", "work"} : Goto(p, where)
    <3>1. Goto(p, "refusal") \/ Goto(p, "fetch") \/ Goto(p, "count") \/ Goto(p, "work")
      BY <1>5 DEF Begin
    <3> QED
      BY <3>1
  <2>3. where \in Places
    BY DEF Places, AtAJob
  <2>4. StartInv'
    BY <1>1, <1>2, <2>1, <2>2, <2>3, Move
  <2>5. \A r \in refused' : Told(conf, r)
    BY <1>1, <2>1, <1>5, BeginTells, CheckedIsTold
  <2>6. CheckedAtTheStart'
    BY <2>1, <2>5 DEF CheckedAtTheStart, Told, Excused, Unasked
  <2> QED
    BY <2>4, <2>6 DEF CheckInv
<1>6. CASE Fetch(p)
  <2>1. pc[p] = "fetch" /\ (pc' = pc \/ Goto(p, "raised")) /\ Same
    BY <1>6 DEF Fetch, loopVars, history
  <2>2. Goto(p, "fetch") \/ Goto(p, "raised")
    BY <1>1, <2>1 DEF Goto, StartInv
  <2> QED
    BY <1>3, <2>1, <2>2 DEF Places, AtAJob, OnItsWay, Before
<1>7. CASE Ingest(p)
  <2>1. pc[p] = "fetch" /\ (Goto(p, "project") \/ Goto(p, "raised")) /\ Same
    BY <1>7 DEF Ingest, loopVars, history
  <2> QED
    BY <1>3, <2>1 DEF Places, AtAJob, OnItsWay, Before
<1>8. CASE Project(p)
  <2>1. pc[p] = "project" /\ (Goto(p, "record") \/ Goto(p, "raised")) /\ Same
    BY <1>8 DEF Project, Goto, loopVars, history
  <2> QED
    BY <1>3, <2>1 DEF Places, AtAJob, OnItsWay, Before
<1>9. CASE RecordCrawl(p)
  <2>1. /\ pc[p] = "record" /\ Same
        /\ Goto(p, "reread") \/ Goto(p, "ended") \/ Goto(p, "raised")
    BY <1>9 DEF RecordCrawl, loopVars, history
  <2> QED
    BY <1>3, <2>1 DEF Places, AtAJob, OnItsWay, Before
<1>10. CASE Reread(p)
  <2>1. /\ pc[p] = "reread" /\ Same
        /\ Goto(p, "publish") \/ Goto(p, "ended") \/ Goto(p, "raised")
    BY <1>10 DEF Reread, Goto, loopVars, history
  <2> QED
    BY <1>3, <2>1 DEF Places, AtAJob, OnItsWay, Before
<1>11. CASE Publish(p)
  <2>1. pc[p] = "publish" /\ (Goto(p, "ended") \/ Goto(p, "raised")) /\ Same
    BY <1>11 DEF Publish, loopVars, history
  <2> QED
    BY <1>3, <2>1 DEF Places, AtAJob, OnItsWay, Before
<1>12. CASE Summary(p)
  <2>1. /\ pc[p] \in {"count", "post"} /\ Same
        /\ Goto(p, "post") \/ Goto(p, "note") \/ Goto(p, "raised")
    BY <1>12 DEF Summary, Count, Post, Goto, loopVars, history
  <2> QED
    BY <1>3, <2>1 DEF Places, AtAJob, OnItsWay, Before
<1>13. CASE NoteDone(p) \/ WorkFails(p)
  <2>1. pc[p] \in {"note", "work"} /\ (Goto(p, "ended") \/ Goto(p, "raised")) /\ Same
    BY <1>13 DEF NoteDone, WorkFails, loopVars, history
  <2> QED
    BY <1>3, <2>1 DEF Places, AtAJob, OnItsWay, Before
<1>14. CASE EndJob(p) \/ Fail(p)
  <2>1. pc[p] \in {"ended", "raised", "refusal"} /\ UNCHANGED <<conf, refused>>
    BY <1>14 DEF EndJob, Fail, history
  <2>2. OnItsWay(p)
    BY <2>1 DEF OnItsWay, Before
  <2>3. CASE p = "cli"
    <3>1. Goto(p, "off") /\ turn' = turn
      BY <1>14, <2>3 DEF EndJob, Fail, loopVars
    <3> QED
      BY <1>3, <2>1, <2>2, <3>1 DEF Places, Before
  <2>4. CASE p # "cli"
    <3>1. p = "loop" /\ NextTurn
      BY <1>14, <2>4 DEF EndJob, Fail, Procs
    <3>2. /\ turn' \in 1..Len(conf.jobs)
          /\ Goto(p, "turn") \/ Goto(p, "done") \/ Goto(p, "sleep")
      BY <1>1, <3>1, Turn
    <3>3. StartInv'
      BY <1>1, <2>1, <2>2, <3>2, Move DEF Places, Between
    <3> QED
      BY <1>1, <2>1, <3>3 DEF CheckInv, CheckedAtTheStart
  <2> QED
    BY <2>3, <2>4
<1>15. CASE Die(p)
  <2>1. UNCHANGED <<conf, turn, refused>> /\ (Goto(p, "start") \/ Goto(p, "off"))
    BY <1>15 DEF Die, loopVars, history
  <2>2. StartInv'
    BY <1>1, <1>2, <2>1, Move DEF Places, Before
  <2> QED
    BY <1>1, <2>1, <2>2 DEF CheckInv, CheckedAtTheStart
<1> QED
  BY <1>4, <1>5, <1>6, <1>7, <1>8, <1>9, <1>10, <1>11, <1>12, <1>13, <1>14, <1>15 DEF Step, Crawl

\* The steps of no process.
LEMMA CheckElse ==
  ASSUME CheckInv, \/ Wake \/ UNCHANGED vars
                   \/ \E s \in Slots, t \in Targets \cup {NoRow} : Edit(s, t)
  PROVE  CheckInv'
<1>1. CASE Wake
  <2>1. pc["loop"] = "sleep" /\ Goto("loop", "turn") /\ turn' = 1 /\ UNCHANGED <<conf, refused>>
    BY <1>1 DEF Wake, history
  <2>2. StartInv /\ 1 \in 1..Len(conf.jobs) /\ OnItsWay("loop") /\ "loop" \in Procs
    BY <2>1, SomeJob DEF CheckInv, StartInv, OnItsWay, Before, Procs
  <2>3. StartInv'
    BY <2>1, <2>2, Move DEF Places, Between
  <2> QED
    BY <2>1, <2>3 DEF CheckInv, CheckedAtTheStart
<1>2. CASE UNCHANGED vars \/ \E s \in Slots, t \in Targets \cup {NoRow} : Edit(s, t)
  <2>1. UNCHANGED <<conf, pc, turn, refused>>
    BY <1>2 DEF Edit, vars, loopVars, history
  <2>2. \A q \in Procs : (OnItsWay(q)' <=> OnItsWay(q)) /\ (Allowed(q)' <=> Allowed(q))
    BY <2>1 DEF OnItsWay, Allowed
  <2> QED
    BY <2>1, <2>2 DEF CheckInv, StartInv, CheckedAtTheStart
<1> QED
  BY <1>1, <1>2

\* Under every configuration, whatever fails, dies or is edited: what the checks
\* of main let through is refused later for nothing it lacks, but for the two jobs
\* that the checks ask nothing of, a backup of BigQuery, and a stage of the work queue
\* that its own check, which nobody makes, would have stopped.
THEOREM ChecksSuffice == Spec => []CheckedAtTheStart
<1>1. CheckInv /\ [Next]_vars => CheckInv'
  <2> SUFFICES ASSUME CheckInv, [Next]_vars PROVE CheckInv'
    OBVIOUS
  <2> QED
    BY CheckStep, CheckElse DEF Next, AllStopped
<1>2. CheckInv => CheckedAtTheStart
  BY DEF CheckInv
<1> QED
  BY <1>1, <1>2, CheckInit, PTL DEF Spec
-----------------------------------------------------------------------------
(* The summary.                                                            *)

InJob(p) == pc[p] \in AtAJob

\* A run has a time of its own, which no failure has yet.
RunTimes ==
  /\ now \in Nat /\ run \in [Procs -> Nat] /\ counted \in [Procs -> Nat]
  /\ pc \in [Procs -> Places]
  /\ raised \subseteq 1..now
  /\ \A p \in Procs : InJob(p) => run[p] \in 1..now /\ run[p] \notin raised
  /\ \A p, q \in Procs : InJob(p) /\ InJob(q) /\ p # q => run[p] # run[q]

\* The failed rows are those of the failures, told apart by their times.
FailedRowsInv ==
  /\ \A k \in DOMAIN runs : runs[k].status = "failed" => k[1] = "failed"
  /\ \A k \in DOMAIN runs : k[1] = "failed" => k[3] \in raised
  /\ IsFiniteSet(FailedRows) /\ IsFiniteSet(raised)
  /\ Cardinality(FailedRows) = Cardinality(raised)

SummaryInv == RunTimes /\ FailedRowsInv

\* At the start nobody has a job and nothing has failed.
LEMMA SummaryInit == Init => SummaryInv
<1> SUFFICES ASSUME Init PROVE SummaryInv
  OBVIOUS
<1>1. pc \in [Procs -> Places] /\ \A p \in Procs : pc[p] \in Before
  BY CheckInit DEF Init, CheckInv, StartInv, Before
<1>2. RunTimes
  BY <1>1 DEF Init, RunTimes, InJob, AtAJob, Before
<1>3. DOMAIN runs = {} /\ FailedRows = {} /\ raised = {}
  <2>1. runs = <<>> /\ raised = {}
    BY DEF Init
  <2>2. DOMAIN runs = {}
    BY <2>1
  <2> QED
    BY <2>1, <2>2 DEF FailedRows
<1>4. FailedRowsInv
  BY <1>3, FS_EmptySet DEF FailedRowsInv
<1> QED
  BY <1>2, <1>4 DEF SummaryInv

\* A step that leaves the table alone.
LEMMA SameRows ==
  ASSUME FailedRowsInv, UNCHANGED <<runs, raised>>
  PROVE  FailedRowsInv'
BY DEF FailedRowsInv, FailedRows

\* The row of a success is not counted.
LEMMA DoneRow ==
  ASSUME FailedRowsInv, NEW p \in Procs, NEW err,
         runs' = Upserted(DoneKey(p), Row(p, "success", err)), UNCHANGED raised
  PROVE  FailedRowsInv'
<1> DEFINE d == DoneKey(p)
<1>1. d[1] = "success"
  BY DEF DoneKey
<1>2. DOMAIN runs' = DOMAIN runs \cup {d} /\ runs'[d].status = "success"
  BY DEF Row, Upserted
<1>3. \A k \in DOMAIN runs : k # d => runs'[k] = runs[k]
  BY DEF Upserted
<1>4. d \notin FailedRows
  BY <1>1 DEF FailedRowsInv, FailedRows
<1>5. FailedRows' = FailedRows
  BY <1>2, <1>3, <1>4 DEF FailedRows
<1> QED
  BY <1>1, <1>2, <1>3, <1>5 DEF FailedRowsInv

\* The row of a failure is a new one.
LEMMA FailedRow ==
  ASSUME SummaryInv, NEW p \in Procs, InJob(p),
         runs' = Upserted(FailedKey(p, run[p]), Row(p, "failed", FALSE)),
         raised' = raised \cup {run[p]}
  PROVE  FailedRowsInv'
<1> DEFINE d == FailedKey(p, run[p])
<1>1. d[1] = "failed" /\ d[3] = run[p]
  BY DEF FailedKey
<1>2. run[p] \notin raised
  BY DEF SummaryInv, RunTimes
<1>3. d \notin DOMAIN runs
  BY <1>1, <1>2 DEF SummaryInv, FailedRowsInv
<1>4. DOMAIN runs' = DOMAIN runs \cup {d} /\ runs'[d].status = "failed"
  BY DEF Row, Upserted
<1>5. \A k \in DOMAIN runs : runs'[k] = runs[k]
  BY <1>3 DEF Upserted
<1>6. FailedRows' = FailedRows \cup {d} /\ d \notin FailedRows
  BY <1>3, <1>4, <1>5 DEF FailedRows
<1>7. /\ IsFiniteSet(FailedRows') /\ IsFiniteSet(raised')
      /\ Cardinality(FailedRows') = Cardinality(raised')
  <2>1. /\ IsFiniteSet(FailedRows) /\ IsFiniteSet(raised)
        /\ Cardinality(FailedRows) = Cardinality(raised)
    BY DEF SummaryInv, FailedRowsInv
  <2>2. IsFiniteSet(FailedRows') /\ Cardinality(FailedRows') = Cardinality(FailedRows) + 1
    BY <1>6, <2>1, FS_AddElement
  <2>3. IsFiniteSet(raised') /\ Cardinality(raised') = Cardinality(raised) + 1
    BY <1>2, <2>1, FS_AddElement
  <2> QED
    BY <2>1, <2>2, <2>3
<1> QED
  BY <1>1, <1>4, <1>5, <1>7 DEF SummaryInv, FailedRowsInv

\* A process moves on within its job, or leaves it.
LEMMA Onward ==
  ASSUME RunTimes, NEW p \in Procs, NEW where \in Places, Goto(p, where),
         where \in AtAJob => InJob(p),
         UNCHANGED <<now, run, raised>>, counted' \in [Procs -> Nat]
  PROVE  RunTimes'
<1>1. pc' \in [Procs -> Places] /\ pc'[p] = where /\ \A q \in Procs : q # p => pc'[q] = pc[q]
  BY DEF Goto, RunTimes
<1>2. \A q \in Procs : InJob(q)' => InJob(q)
  BY <1>1 DEF InJob
<1> QED
  BY <1>1, <1>2 DEF RunTimes

\* A process leaves its job and forgets it; its failure may be noted.
LEMMA Leaving ==
  ASSUME RunTimes, NEW p \in Procs, NEW where \in Places \ AtAJob, Goto(p, where), Forget(p),
         UNCHANGED now,
         raised' = raised \/ (InJob(p) /\ raised' = raised \cup {run[p]})
  PROVE  RunTimes'
<1>1. pc' \in [Procs -> Places] /\ pc'[p] = where /\ \A q \in Procs : q # p => pc'[q] = pc[q]
  BY DEF Goto, RunTimes
<1>2. \A q \in Procs : InJob(q)' => q # p /\ InJob(q)
  BY <1>1 DEF InJob
<1>3. /\ run' \in [Procs -> Nat] /\ counted' \in [Procs -> Nat]
      /\ \A q \in Procs : q # p => run'[q] = run[q]
  BY DEF Forget, RunTimes
<1>4. raised' \subseteq 1..now
  <2>1. raised \subseteq 1..now /\ (InJob(p) => run[p] \in 1..now)
    BY DEF RunTimes
  <2> QED
    BY <2>1
<1>5. \A q \in Procs : InJob(q)' => run'[q] \notin raised'
  BY <1>2, <1>3 DEF RunTimes
<1> QED
  BY <1>1, <1>2, <1>3, <1>4, <1>5 DEF RunTimes

\* One process takes a step.
LEMMA SummaryStep ==
  ASSUME SummaryInv, NEW p \in Procs, Step(p) \/ Die(p)
  PROVE  SummaryInv'
<1> DEFINE Times == UNCHANGED <<now, run, raised, counted>>
<1>1. RunTimes /\ FailedRowsInv
  BY DEF SummaryInv
<1>2. counted \in [Procs -> Nat]
  BY <1>1 DEF RunTimes
<1>3. ASSUME NEW where \in Places, Goto(p, where), InJob(p) \/ where \notin AtAJob,
             Times, UNCHANGED runs
      PROVE  SummaryInv'
  <2>1. RunTimes'
    BY <1>1, <1>2, <1>3, Onward
  <2> QED
    BY <1>1, <1>3, <2>1, SameRows DEF SummaryInv
<1>4. CASE Start(p)
  <2>1. (Goto(p, "turn") \/ Goto(p, "refused")) /\ Times /\ UNCHANGED runs
    BY <1>4 DEF Start, procVars, history
  <2> QED
    BY <1>3, <2>1 DEF Places, AtAJob, Before, Between
<1>5. CASE Begin(p)
  <2>1. /\ now' = now + 1 /\ run' = [run EXCEPT ![p] = now + 1]
        /\ UNCHANGED <<counted, runs, raised>> /\ pc[p] = "turn"
        /\ Goto(p, "refusal") \/ Goto(p, "fetch") \/ Goto(p, "count") \/ Goto(p, "work")
    BY <1>5 DEF Begin
  <2>2. PICK where \in Places : Goto(p, where)
    BY <2>1 DEF Places, AtAJob
  <2>3. pc' \in [Procs -> Places] /\ \A q \in Procs : q # p => pc'[q] = pc[q]
    BY <1>1, <2>2 DEF Goto, RunTimes
  <2>4. now' \in Nat /\ now < now' /\ run' \in [Procs -> Nat]
        /\ run'[p] = now' /\ \A q \in Procs : q # p => run'[q] = run[q]
    BY <1>1, <2>1 DEF RunTimes
  <2>5. \A q \in Procs : InJob(q)' /\ q # p => InJob(q)
    BY <2>3 DEF InJob
  <2>6. raised' \subseteq 1..now' /\ now' \notin raised'
    BY <1>1, <2>1, <2>4 DEF RunTimes
  <2>7. \A q \in Procs : InJob(q)' /\ q # p => run'[q] \in 1..now /\ run'[q] \notin raised'
    BY <1>1, <2>1, <2>4, <2>5 DEF RunTimes
  <2>8. \A q \in Procs : InJob(q)' => run'[q] \in 1..now' /\ run'[q] \notin raised'
    <3> SUFFICES ASSUME NEW q \in Procs, InJob(q)'
                 PROVE  run'[q] \in 1..now' /\ run'[q] \notin raised'
      OBVIOUS
    <3>1. now \in Nat /\ now' = now + 1
      BY <1>1, <2>1 DEF RunTimes
    <3>2. CASE q = p
      BY <2>4, <2>6, <3>1, <3>2
    <3>3. CASE q # p
      BY <2>7, <3>1, <3>3
    <3> QED
      BY <3>2, <3>3
  <2>9. \A q, r \in Procs : InJob(q)' /\ InJob(r)' /\ q # r => run'[q] # run'[r]
    <3> SUFFICES ASSUME NEW q \in Procs, NEW r \in Procs, InJob(q)', InJob(r)', q # r
                 PROVE  run'[q] # run'[r]
      OBVIOUS
    <3>1. now \in Nat /\ now' = now + 1
      BY <1>1, <2>1 DEF RunTimes
    <3>2. CASE q # p /\ r # p
      BY <1>1, <2>4, <2>5, <3>2 DEF RunTimes
    <3>3. CASE q = p
      BY <2>4, <2>7, <3>1, <3>3
    <3>4. CASE r = p
      BY <2>4, <2>7, <3>1, <3>4
    <3> QED
      BY <3>2, <3>3, <3>4
  <2>10. RunTimes'
    BY <1>2, <2>1, <2>3, <2>4, <2>6, <2>8, <2>9 DEF RunTimes
  <2> QED
    BY <1>1, <2>1, <2>10, SameRows DEF SummaryInv
<1>6. CASE Fetch(p)
  <2>1. pc[p] = "fetch" /\ (pc' = pc \/ Goto(p, "raised")) /\ Times /\ UNCHANGED runs
    BY <1>6 DEF Fetch, history
  <2>2. Goto(p, "fetch") \/ Goto(p, "raised")
    BY <1>1, <2>1 DEF Goto, RunTimes
  <2> QED
    BY <1>3, <2>1, <2>2 DEF Places, AtAJob, InJob
<1>7. CASE Ingest(p)
  <2>1. pc[p] = "fetch" /\ (Goto(p, "project") \/ Goto(p, "raised")) /\ Times /\ UNCHANGED runs
    BY <1>7 DEF Ingest, procVars, history
  <2> QED
    BY <1>3, <2>1 DEF Places, AtAJob, InJob
<1>8. CASE Project(p)
  <2>1. pc[p] = "project" /\ (Goto(p, "record") \/ Goto(p, "raised")) /\ Times /\ UNCHANGED runs
    BY <1>8 DEF Project, Goto, procVars, history
  <2> QED
    BY <1>3, <2>1 DEF Places, AtAJob, InJob
<1>9. CASE RecordCrawl(p)
  <2>1. /\ pc[p] = "record" /\ Times
        /\ Goto(p, "reread") \/ Goto(p, "ended") \/ Goto(p, "raised")
        /\ runs' = runs \/ runs' = Upserted(DoneKey(p), Row(p, "success", warned[p]))
    BY <1>9 DEF RecordCrawl, procVars, history
  <2>2. RunTimes'
    BY <1>1, <1>2, <2>1, Onward DEF Places, AtAJob, InJob
  <2>3. FailedRowsInv'
    BY <1>1, <2>1, SameRows, DoneRow
  <2> QED
    BY <2>2, <2>3 DEF SummaryInv
<1>10. CASE Reread(p)
  <2>1. /\ pc[p] = "reread" /\ Times /\ UNCHANGED runs
        /\ Goto(p, "publish") \/ Goto(p, "ended") \/ Goto(p, "raised")
    BY <1>10 DEF Reread, Goto, history
  <2> QED
    BY <1>3, <2>1 DEF Places, AtAJob, InJob
<1>11. CASE Publish(p)
  <2>1. pc[p] = "publish" /\ (Goto(p, "ended") \/ Goto(p, "raised")) /\ Times /\ UNCHANGED runs
    BY <1>11 DEF Publish, procVars, history
  <2> QED
    BY <1>3, <2>1 DEF Places, AtAJob, InJob
<1>12. CASE Count(p)
  <2>1. /\ pc[p] = "count" /\ Goto(p, "post") /\ UNCHANGED <<now, run, raised, runs>>
        /\ counted' = [counted EXCEPT ![p] = Cardinality(FailedRows)]
    BY <1>12 DEF Count, history
  <2>2. Cardinality(FailedRows) \in Nat
    BY <1>1, FS_CardinalityType DEF FailedRowsInv
  <2>3. counted' \in [Procs -> Nat]
    BY <1>2, <2>1, <2>2
  <2>4. RunTimes'
    BY <1>1, <2>1, <2>3, Onward DEF Places, AtAJob, InJob
  <2> QED
    BY <1>1, <2>1, <2>4, SameRows DEF SummaryInv
<1>13. CASE Post(p)
  <2>1. pc[p] = "post" /\ (Goto(p, "note") \/ Goto(p, "raised")) /\ Times /\ UNCHANGED runs
    BY <1>13 DEF Post, Goto, procVars, history
  <2> QED
    BY <1>3, <2>1 DEF Places, AtAJob, InJob
<1>14. CASE NoteDone(p)
  <2>1. /\ pc[p] \in {"note", "work"} /\ Times /\ Goto(p, "ended")
        /\ runs' = Upserted(DoneKey(p), Row(p, "success", FALSE))
    BY <1>14 DEF NoteDone, procVars, history
  <2>2. RunTimes'
    BY <1>1, <1>2, <2>1, Onward DEF Places, AtAJob, InJob
  <2>3. FailedRowsInv'
    BY <1>1, <2>1, DoneRow
  <2> QED
    BY <2>2, <2>3 DEF SummaryInv
<1>15. CASE WorkFails(p)
  <2>1. pc[p] \in {"note", "work"} /\ Goto(p, "raised") /\ Times /\ UNCHANGED runs
    BY <1>15 DEF WorkFails, procVars, history
  <2> QED
    BY <1>3, <2>1 DEF Places, AtAJob, InJob
<1>16. CASE EndJob(p) \/ Fail(p)
  <2>1. pc[p] \in {"ended", "raised", "refusal"} /\ Forget(p) /\ UNCHANGED now
    BY <1>16 DEF EndJob, Fail
  <2>2. InJob(p)
    BY <2>1 DEF InJob, AtAJob
  <2>3. Goto(p, "off") \/ Goto(p, "turn") \/ Goto(p, "done") \/ Goto(p, "sleep")
    BY <1>16 DEF EndJob, Fail, NextTurn, NextJob, EndCycle, Procs
  <2>4. \/ UNCHANGED <<runs, raised>>
        \/ /\ runs' = Upserted(FailedKey(p, run[p]), Row(p, "failed", FALSE))
           /\ raised' = raised \cup {run[p]}
    BY <1>16 DEF EndJob, Fail, history
  <2>5. RunTimes'
    BY <1>1, <2>1, <2>2, <2>3, <2>4, Leaving DEF Places, AtAJob, Before, Between
  <2>6. FailedRowsInv'
    BY <1>1, <2>2, <2>4, SameRows, FailedRow
  <2> QED
    BY <2>5, <2>6 DEF SummaryInv
<1>17. CASE Die(p)
  <2>1. /\ Goto(p, "start") \/ Goto(p, "off")
        /\ Forget(p) /\ UNCHANGED <<now, runs, raised>>
    BY <1>17 DEF Die, history
  <2>2. RunTimes'
    BY <1>1, <2>1, Leaving DEF Places, AtAJob, Before
  <2> QED
    BY <1>1, <2>1, <2>2, SameRows DEF SummaryInv
<1> QED
  BY <1>4, <1>5, <1>6, <1>7, <1>8, <1>9, <1>10, <1>11, <1>12, <1>13, <1>14, <1>15, <1>16, <1>17
     DEF Step, Crawl, Summary

\* The steps of no process.
LEMMA SummaryElse ==
  ASSUME SummaryInv, \/ Wake \/ UNCHANGED vars
                     \/ \E s \in Slots, t \in Targets \cup {NoRow} : Edit(s, t)
  PROVE  SummaryInv'
<1>1. RunTimes /\ FailedRowsInv /\ "loop" \in Procs
  BY DEF SummaryInv, Procs
<1>2. UNCHANGED <<now, run, raised, counted, runs>>
  BY DEF Wake, Edit, vars, procVars, history
<1>3. CASE Wake
  <2>1. Goto("loop", "turn")
    BY <1>3 DEF Wake
  <2>2. RunTimes'
    BY <1>1, <1>2, <2>1, Onward DEF RunTimes, Places, AtAJob, Between
  <2> QED
    BY <1>1, <1>2, <2>2, SameRows DEF SummaryInv
<1>4. CASE pc' = pc
  <2>1. RunTimes'
    BY <1>1, <1>2, <1>4 DEF RunTimes, InJob
  <2> QED
    BY <1>1, <1>2, <2>1, SameRows DEF SummaryInv
<1> QED
  BY <1>3, <1>4 DEF Edit, vars

\* For all configurations, jobs, deaths and edits: a weekly summary counts as many
\* failed jobs as there were failures that the table took, neither losing one to
\* the row of another nor counting one twice.
THEOREM EveryFailureCounts == Spec => SummaryCountsFailures
<1>1. SummaryInv /\ [Next]_vars => SummaryInv'
  <2> SUFFICES ASSUME SummaryInv, [Next]_vars PROVE SummaryInv'
    OBVIOUS
  <2> QED
    BY SummaryStep, SummaryElse DEF Next, AllStopped
<1>2. SummaryInv => [\A p \in Procs : Count(p) => counted'[p] = Cardinality(raised)]_vars
  BY DEF SummaryInv, RunTimes, FailedRowsInv, Count
<1> QED
  BY <1>1, <1>2, SummaryInit, PTL DEF Spec, SummaryCountsFailures
-----------------------------------------------------------------------------
(* The filter: which rows of a list are a crawl's targets.                 *)

\* What the filter builds place by place: there is such a function, for as many
\* places as the list has.
UpTo(rows, g, n) ==
    IF n = 0 THEN <<>>
    ELSE IF IsActive(rows[n]) THEN Append(g[n - 1], rows[n]) ELSE g[n - 1]

\* Induction, for a set of numbers.
LEMMA Induction ==
  ASSUME NEW T, 0 \in T, \A k \in Nat : k \in T => k + 1 \in T
  PROVE  Nat \subseteq T
<1> DEFINE R == {xy \in Nat \X Nat : xy[1] < xy[2]}
<1> SUFFICES ASSUME Nat \ T # {} PROVE FALSE
  OBVIOUS
<1>1. IsWellFoundedOn(R, Nat)
  BY NatLessThanWellFounded DEF OpToRel
<1>2. PICK k \in Nat \ T : \A y \in Nat \ T : <<y, k>> \notin R
  <2> HIDE DEF R
  <2> QED
    BY <1>1, WFMin
<1>3. k \in Nat /\ k # 0
  BY <1>2
<1>4. k - 1 \in Nat /\ <<k - 1, k>> \in R
  BY <1>3
<1>5. k - 1 \in T /\ (k - 1) + 1 = k
  BY <1>2, <1>3, <1>4
<1> QED
  BY <1>2, <1>4, <1>5

LEMMA UpToExists ==
  ASSUME NEW rows, NEW m \in Nat
  PROVE  \E g : g = [n \in 0..m |-> UpTo(rows, g, n)]
<1> DEFINE Has(k) == \E g : g = [n \in 0..k |-> UpTo(rows, g, n)]
           T == {k \in Nat : Has(k)}
<1>1. Has(0)
  <2> DEFINE g == [n \in 0..0 |-> <<>>]
  <2>1. \A n \in 0..0 : UpTo(rows, g, n) = <<>>
    BY DEF UpTo
  <2>2. g = [n \in 0..0 |-> UpTo(rows, g, n)]
    BY <2>1
  <2> QED
    BY <2>2
<1>2. ASSUME NEW k \in Nat, Has(k) PROVE Has(k + 1)
  <2>1. PICK g : g = [n \in 0..k |-> UpTo(rows, g, n)]
    BY <1>2
  <2> DEFINE h == [n \in 0..(k + 1) |-> UpTo(rows, g, n)]
  <2>2. \A n \in 0..k : h[n] = g[n]
    <3> SUFFICES ASSUME NEW n \in 0..k PROVE h[n] = g[n]
      OBVIOUS
    <3>1. n \in 0..(k + 1)
      OBVIOUS
    <3>2. h[n] = UpTo(rows, g, n)
      BY <3>1
    <3>3. g[n] = UpTo(rows, g, n)
      BY <2>1
    <3> QED
      BY <3>2, <3>3
  <2> HIDE DEF h
  <2>3. \A n \in 0..(k + 1) : UpTo(rows, h, n) = UpTo(rows, g, n)
    <3> SUFFICES ASSUME NEW n \in 0..(k + 1) PROVE UpTo(rows, h, n) = UpTo(rows, g, n)
      OBVIOUS
    <3>1. CASE n = 0
      BY <3>1 DEF UpTo
    <3>2. CASE n # 0
      <4>1. n - 1 \in 0..k
        BY <3>2
      <4>2. h[n - 1] = g[n - 1]
        BY <2>2, <4>1
      <4> QED
        BY <4>2 DEF UpTo
    <3> QED
      BY <3>1, <3>2
  <2>4. h = [n \in 0..(k + 1) |-> UpTo(rows, h, n)]
    BY <2>3 DEF h
  <2> QED
    BY <2>4
<1>3. 0 \in T /\ \A k \in Nat : k \in T => k + 1 \in T
  <2> HIDE DEF Has
  <2> QED
    BY <1>1, <1>2
<1>4. Nat \subseteq T
  <2> HIDE DEF T
  <2> QED
    BY <1>3, Induction
<1> QED
  BY <1>4

\* The active rows of a list of targets are targets of it, and active.
LEMMA ActiveRowsOf ==
  ASSUME NEW S, NEW rows \in Seq(S)
  PROVE  ActiveRows(rows) \in Seq({r \in S : IsActive(r)})
<1> DEFINE L == Len(rows)
           A == {r \in S : IsActive(r)}
           g == CHOOSE f : f = [n \in 0..L |-> UpTo(rows, f, n)]
           T == {n \in Nat : n <= L => g[n] \in Seq(A)}
<1>1. ActiveRows(rows) = g[L] /\ L \in Nat
  BY DEF ActiveRows, UpTo
<1>2. g = [n \in 0..L |-> UpTo(rows, g, n)]
  BY <1>1, UpToExists
<1> HIDE DEF g
<1>3. \A n \in 0..L : g[n] = UpTo(rows, g, n)
  BY <1>2
<1>4. 0 \in T
  <2>1. 0 \in 0..L
    BY <1>1
  <2>2. g[0] = <<>>
    BY <1>3, <2>1 DEF UpTo
  <2>3. <<>> \in Seq(A)
    OBVIOUS
  <2> QED
    BY <2>2, <2>3
<1>5. ASSUME NEW k \in Nat, k \in T PROVE k + 1 \in T
  <2> SUFFICES ASSUME k + 1 <= L PROVE g[k + 1] \in Seq(A)
    OBVIOUS
  <2>1. k + 1 \in 0..L /\ k + 1 # 0 /\ k + 1 \in 1..L /\ (k + 1) - 1 = k
    BY <1>1
  <2>2. g[k] \in Seq(A)
    BY <1>5, <1>1
  <2>3. g[k + 1] = IF IsActive(rows[k + 1]) THEN Append(g[k], rows[k + 1]) ELSE g[k]
    BY <1>3, <2>1 DEF UpTo
  <2>4. rows[k + 1] \in S
    BY <2>1
  <2> QED
    BY <2>2, <2>3, <2>4
<1>6. Nat \subseteq T
  <2> HIDE DEF T
  <2> QED
    BY <1>4, <1>5, Induction
<1> QED
  BY <1>1, <1>6

-----------------------------------------------------------------------------
(* The stamps.                                                             *)

\* From its beginning until its stamps are written.
Crawling == {"fetch", "project", "record", "reread", "publish"}
Stored   == Crawling \ {"fetch"}

\* The rows are those of targets, and none is stamped later than now.
Dated(rows) ==
  \A s \in Slots : rows[s] = NoRow \/ (rows[s].at \in 0..now /\ TargetOf(rows[s]) \in Targets)

\* No row bears the stamp of a crawl that has not written it yet, neither in the
\* tab nor in a copy that is about to be written back.
Unstamped(rows) ==
  \A q \in Procs : pc[q] \in Crawling => \A s \in Slots : rows[s] = NoRow \/ rows[s].at # run[q]

\* A crawl without a warning has, or will fetch, every target it took; and what
\* it has is stored under its run.
Complete(p) ==
  ~warned[p] => /\ pc[p] = "fetch" => ToSet(targets[p]) \subseteq got[p] \cup ToSet(todo[p])
                /\ pc[p] \in Stored => \A t \in ToSet(targets[p]) : <<run[p], t>> \in stored

StampInv ==
  /\ targets \in [Procs -> Seq(Targets)] /\ todo \in [Procs -> Seq(Targets)]
  /\ got \in [Procs -> SUBSET Targets] /\ warned \in [Procs -> BOOLEAN]
  /\ DOMAIN tab = Slots /\ Dated(tab) /\ Unstamped(tab)
  /\ DOMAIN copy = Procs
  /\ \A p \in Procs : pc[p] = "publish" => Dated(copy[p]) /\ Unstamped(copy[p])
  /\ \A p \in Procs : Complete(p)

TabInv == SummaryInv /\ StampInv

\* What the definitions say of a row that has cells.
LEMMA CellsOf ==
  ASSUME NEW t, NEW at, NEW err
  PROVE  LET row == Cells(t, at, err) IN
         /\ row # NoRow /\ row.at = at /\ row.err = err
         /\ row.url = t.url /\ row.opts = t.opts /\ row.status = t.status /\ row.rest = t.rest
         /\ TargetOf(row) = TargetOf(t)
         /\ Ident(row) = Ident(t)
         /\ \A n, e : Cells(row, n, e) = Cells(t, n, e)
<1> DEFINE row == Cells(t, at, err)
<1>1. row = [url |-> t.url, opts |-> t.opts, status |-> t.status, rest |-> t.rest,
            at |-> at, err |-> err]
  BY DEF Cells
<1> HIDE DEF row
<1>2. /\ row.at = at /\ row.err = err
      /\ row.url = t.url /\ row.opts = t.opts /\ row.status = t.status /\ row.rest = t.rest
  BY <1>1
<1>3. row # NoRow
  <2>1. "at" \in DOMAIN row /\ "at" \notin DOMAIN NoRow
    BY <1>1 DEF NoRow
  <2> QED
    BY <2>1
<1>4. \A n, e : Cells(row, n, e) = Cells(t, n, e)
  BY <1>2 DEF Cells
<1> QED
  BY <1>2, <1>3, <1>4 DEF TargetOf, Ident, row

\* At the start there are no stamps and no crawls.
LEMMA StampInit == Init => TabInv
<1> SUFFICES ASSUME Init PROVE TabInv
  OBVIOUS
<1>1. SummaryInv
  BY SummaryInit
<1>2. \A p \in Procs : pc[p] \notin Crawling
  <2>1. pc = [p \in Procs |-> IF p = "cli" /\ conf.cli = "none" THEN "off" ELSE "start"]
    BY DEF Init
  <2>2. \A p \in Procs : pc[p] \in {"off", "start"}
    BY <2>1
  <2> QED
    BY <2>2 DEF Crawling
<1>3. DOMAIN tab = Slots /\ Dated(tab)
  <2>1. tab = [s \in Slots |-> Fresh(StartTab[s])] /\ now = 0
    BY DEF Init
  <2>2. \A t : Fresh(t).at = 0 /\ TargetOf(Fresh(t)) = TargetOf(t)
    BY DEF Fresh, Cells, TargetOf
  <2>3. \A s \in Slots : TargetOf(StartTab[s]) \in Targets
    <3>1. \A s \in Slots : StartTab[s] \in Targets
      BY TabAssumption
    <3> QED
      BY <3>1, TabAssumption
  <2> QED
    BY <2>1, <2>2, <2>3 DEF Dated
<1>4. /\ targets \in [Procs -> Seq(Targets)] /\ todo \in [Procs -> Seq(Targets)]
      /\ got \in [Procs -> SUBSET Targets] /\ warned \in [Procs -> BOOLEAN]
  <2>1. <<>> \in Seq(Targets) /\ {} \in SUBSET Targets
    OBVIOUS
  <2>2. targets \in [Procs -> Seq(Targets)]
    BY <2>1 DEF Init
  <2>3. todo \in [Procs -> Seq(Targets)]
    BY <2>1 DEF Init
  <2>4. got \in [Procs -> SUBSET Targets] /\ warned \in [Procs -> BOOLEAN]
    BY <2>1 DEF Init
  <2> QED
    BY <2>2, <2>3, <2>4
<1>5. DOMAIN copy = Procs
  BY DEF Init
<1> QED
  BY <1>1, <1>2, <1>3, <1>4, <1>5 DEF TabInv, StampInv, Unstamped, Complete, Crawling, Stored

\* A step that only moves a process, and no further into a crawl than it was.
LEMMA StampMove ==
  ASSUME TabInv, SummaryInv', NEW p \in Procs, NEW where \in Places, Goto(p, where),
         UNCHANGED <<now, tab, copy, run, targets, todo, got, warned>>, stored \subseteq stored',
         where = "fetch" => pc[p] = "fetch", where \in Stored => pc[p] \in Stored,
         where = "publish" => pc[p] = "publish"
  PROVE  TabInv'
<1>1. pc'[p] = where /\ \A q \in Procs : q # p => pc'[q] = pc[q]
  BY DEF Goto, TabInv, SummaryInv, RunTimes
<1>2. \A q \in Procs : /\ pc'[q] = "fetch" => pc[q] = "fetch"
                       /\ pc'[q] = "publish" => pc[q] = "publish"
                       /\ pc'[q] \in Stored => pc[q] \in Stored
                       /\ pc'[q] \in Crawling => pc[q] \in Crawling
  BY <1>1 DEF Crawling, Stored
<1>3. Dated(tab)' /\ \A q \in Procs : Dated(copy[q]) => Dated(copy[q])'
  BY DEF Dated, TabInv, StampInv
<1>4. \A rows : Unstamped(rows) => \A q \in Procs : pc'[q] \in Crawling =>
         \A s \in Slots : rows[s] = NoRow \/ rows[s].at # run[q]
  BY <1>2 DEF Unstamped
<1>5. Unstamped(tab)' /\ \A q \in Procs : Unstamped(copy[q]) => Unstamped(copy[q])'
  <2>1. Unstamped(tab) /\ tab' = tab /\ copy' = copy /\ run' = run
    BY DEF TabInv, StampInv
  <2>2. Unstamped(tab)'
    <3>1. \A q \in Procs : pc'[q] \in Crawling => \A s \in Slots : tab[s] = NoRow \/ tab[s].at # run[q]
      BY <1>4, <2>1
    <3> QED
      BY <2>1, <3>1 DEF Unstamped
  <2>3. ASSUME NEW r \in Procs, Unstamped(copy[r]) PROVE Unstamped(copy[r])'
    <3>1. \A q \in Procs : pc'[q] \in Crawling =>
             \A s \in Slots : copy[r][s] = NoRow \/ copy[r][s].at # run[q]
      BY <1>4, <2>3
    <3> QED
      BY <2>1, <3>1 DEF Unstamped
  <2> QED
    BY <2>2, <2>3
<1>6. \A q \in Procs : Complete(q) => Complete(q)'
  BY <1>2 DEF Complete
<1> QED
  BY <1>2, <1>3, <1>5, <1>6 DEF TabInv, StampInv

\* A process leaves its job and forgets it.
LEMMA StampLeave ==
  ASSUME TabInv, SummaryInv', NEW p \in Procs, NEW where \in Places \ AtAJob, Goto(p, where),
         Forget(p), UNCHANGED <<now, tab, stored>>
  PROVE  TabInv'
<1>1. pc'[p] = where /\ where \notin Crawling /\ \A q \in Procs : q # p => pc'[q] = pc[q]
  BY DEF Goto, TabInv, SummaryInv, RunTimes, Crawling, AtAJob
<1>2. /\ targets' \in [Procs -> Seq(Targets)] /\ todo' \in [Procs -> Seq(Targets)]
      /\ got' \in [Procs -> SUBSET Targets] /\ warned' \in [Procs -> BOOLEAN]
  <2>1. <<>> \in Seq(Targets) /\ {} \in SUBSET Targets
    OBVIOUS
  <2>2. targets' \in [Procs -> Seq(Targets)]
    BY <2>1 DEF Forget, TabInv, StampInv
  <2>3. todo' \in [Procs -> Seq(Targets)]
    BY <2>1 DEF Forget, TabInv, StampInv
  <2>4. got' \in [Procs -> SUBSET Targets]
    BY <2>1 DEF Forget, TabInv, StampInv
  <2>5. warned' \in [Procs -> BOOLEAN]
    BY DEF Forget, TabInv, StampInv
  <2> QED
    BY <2>2, <2>3, <2>4, <2>5
<1>3. \A q \in Procs : q # p => /\ run'[q] = run[q] /\ targets'[q] = targets[q]
                                /\ todo'[q] = todo[q] /\ got'[q] = got[q]
                                /\ warned'[q] = warned[q] 
  BY DEF Forget, TabInv, StampInv, SummaryInv, RunTimes
<1>4. \A q \in Procs : pc'[q] = "publish" => q # p /\ copy'[q] = copy[q]
  <2>1. copy' = [copy EXCEPT ![p] = <<>>] /\ DOMAIN copy = Procs
    BY DEF Forget, TabInv, StampInv
  <2>2. "publish" \in Crawling
    BY DEF Crawling
  <2> QED
    BY <1>1, <2>1, <2>2
<1>5. Dated(tab)' /\ DOMAIN tab' = Slots
  BY DEF Dated, TabInv, StampInv
<1>6. \A rows : Unstamped(rows) => \A q \in Procs : pc'[q] \in Crawling =>
         \A s \in Slots : rows[s] = NoRow \/ rows[s].at # run'[q]
  BY <1>1, <1>3 DEF Unstamped
<1>7. Unstamped(tab)'
  <2>1. Unstamped(tab) /\ tab' = tab
    BY DEF TabInv, StampInv
  <2>2. \A q \in Procs : pc'[q] \in Crawling => \A s \in Slots : tab[s] = NoRow \/ tab[s].at # run'[q]
    BY <1>6, <2>1
  <2> QED
    BY <2>1, <2>2 DEF Unstamped
<1>8. ASSUME NEW r \in Procs, pc'[r] = "publish"
      PROVE  Dated(copy[r])' /\ Unstamped(copy[r])'
  <2>1. copy'[r] = copy[r] /\ pc[r] = "publish"
    BY <1>1, <1>4, <1>8
  <2>2. Dated(copy[r]) /\ Unstamped(copy[r])
    BY <2>1 DEF TabInv, StampInv
  <2>3. \A q \in Procs : pc'[q] \in Crawling =>
           \A s \in Slots : copy[r][s] = NoRow \/ copy[r][s].at # run'[q]
    BY <1>6, <2>2
  <2>4. Unstamped(copy[r])'
    BY <2>1, <2>3 DEF Unstamped
  <2> QED
    BY <2>1, <2>2, <2>4 DEF Dated
<1>9. \A q \in Procs : Complete(q)'
  <2>1. "fetch" \in Crawling /\ Stored \subseteq Crawling
    BY DEF Stored, Crawling
  <2> QED
    BY <1>1, <1>3, <2>1, ZenonT(60) DEF Complete, TabInv, StampInv
<1>10. DOMAIN copy' = Procs
  BY DEF Forget, TabInv, StampInv
<1> QED
  BY <1>2, <1>5, <1>7, <1>8, <1>9, <1>10 DEF TabInv, StampInv

LEMMA IsAList ==
  ASSUME NEW S, NEW n \in Nat, NEW f, \A i \in 1..n : f[i] \in S
  PROVE  [i \in 1..n |-> f[i]] \in Seq(S)
OBVIOUS

\* What a crawl takes is a list of targets, wherever it takes it from.
LEMMA TakenAreTargets ==
  ASSUME Dated(tab), NEW p
  PROVE  TakenTargets(p) \in Seq(Targets)
<1>1. InlineTargets \in Seq(Targets) /\ OtherTab \in Seq(Targets) /\ <<>> \in Seq(Targets)
  BY TabAssumption
<1>2. \A t \in Targets : TargetOf(t) \in Targets
  BY TabAssumption
<1> DEFINE rows == IF Sheet \notin conf.env THEN <<>>
                   ELSE IF conf.otherTab THEN OtherTab
                   ELSE [i \in Slots |-> tab[i]]
           active == ActiveRows(rows)
           S == Targets \cup {tab[s] : s \in Slots}
<1>3. rows \in Seq(S)
  <2>1. OtherTab \in Seq(S) /\ <<>> \in Seq(S)
    BY <1>1
  <2>2. [i \in Slots |-> tab[i]] \in Seq(S)
    <3>1. Slots = 1..Cardinality(Slots) /\ Cardinality(Slots) \in Nat
      BY TabAssumption, FS_CardinalityType
    <3>2. [i \in 1..Cardinality(Slots) |-> tab[i]] \in Seq(S)
      <4>1. \A i \in 1..Cardinality(Slots) : tab[i] \in S
        BY <3>1
      <4> HIDE DEF S
      <4> QED
        BY <3>1, <4>1, IsAList
    <3> QED
      BY <3>1, <3>2
  <2> QED
    BY <2>1, <2>2
<1>4. \A r \in S : IsActive(r) => TargetOf(r) \in Targets
  BY <1>2 DEF Dated, IsActive
<1>5. active \in Seq({r \in S : IsActive(r)})
  <2> HIDE DEF rows, S
  <2> QED
    BY <1>3, ActiveRowsOf
<1>6. [i \in DOMAIN active |-> TargetOf(active[i])] \in Seq(Targets)
  <2> HIDE DEF active, S
  <2>1. DOMAIN active = 1..Len(active) /\ Len(active) \in Nat
    BY <1>5
  <2>2. \A i \in 1..Len(active) : TargetOf(active[i]) \in Targets
    BY <1>4, <1>5
  <2> QED
    BY <2>1, <2>2
<1>7. SheetTargets \in {[i \in DOMAIN active |-> TargetOf(active[i])], InlineTargets, <<>>}
  BY DEF SheetTargets
<1> QED
  BY <1>1, <1>6, <1>7 DEF TakenTargets

\* A crawl begins with all of its targets to fetch, and later than any stamp.
LEMMA StampBegin ==
  ASSUME TabInv, SummaryInv', NEW p \in Procs, Begin(p)
  PROVE  TabInv'
<1>1. /\ pc[p] = "turn" /\ now \in Nat /\ now' = now + 1 /\ UNCHANGED <<tab, copy, stored>>
      /\ run' = [run EXCEPT ![p] = now + 1]
  BY DEF Begin, TabInv, SummaryInv, RunTimes
<1>2. run'[p] = now + 1 /\ \A q \in Procs : q # p => run'[q] = run[q]
  BY <1>1 DEF TabInv, SummaryInv, RunTimes
<1>3. \/ /\ Goto(p, "refusal") \/ Goto(p, "count") \/ Goto(p, "work")
         /\ UNCHANGED <<targets, todo, got, warned>>
      \/ /\ Goto(p, "refusal") \/ Goto(p, "fetch")
         /\ targets' = [targets EXCEPT ![p] = ActiveRows(TakenTargets(p))]
         /\ todo' = [todo EXCEPT ![p] = targets'[p]]
         /\ got' = [got EXCEPT ![p] = {}] /\ warned' = [warned EXCEPT ![p] = FALSE]
  BY DEF Begin
<1>4. pc'[p] \in {"refusal", "count", "work", "fetch"} /\ \A q \in Procs : q # p => pc'[q] = pc[q]
  BY <1>3 DEF Goto, TabInv, SummaryInv, RunTimes
<1>5. ActiveRows(TakenTargets(p)) \in Seq(Targets)
  <2>1. TakenTargets(p) \in Seq(Targets)
    BY TakenAreTargets DEF TabInv, StampInv
  <2>2. ActiveRows(TakenTargets(p)) \in Seq({t \in Targets : IsActive(t)})
    BY <2>1, ActiveRowsOf
  <2> HIDE DEF ActiveRows
  <2> QED
    BY <2>2
<1>6. /\ targets' \in [Procs -> Seq(Targets)] /\ todo' \in [Procs -> Seq(Targets)]
      /\ got' \in [Procs -> SUBSET Targets] /\ warned' \in [Procs -> BOOLEAN]
      /\ \A q \in Procs : q # p => /\ targets'[q] = targets[q] /\ todo'[q] = todo[q]
                                   /\ got'[q] = got[q] /\ warned'[q] = warned[q]
      /\ pc'[p] = "fetch" => targets'[p] = todo'[p]
  <2>1. /\ targets \in [Procs -> Seq(Targets)] /\ todo \in [Procs -> Seq(Targets)]
        /\ got \in [Procs -> SUBSET Targets] /\ warned \in [Procs -> BOOLEAN]
    BY DEF TabInv, StampInv
  <2>2. CASE UNCHANGED <<targets, todo, got, warned>> /\ pc'[p] # "fetch"
    BY <2>1, <2>2
  <2> DEFINE new == ActiveRows(TakenTargets(p))
  <2>3. CASE /\ targets' = [targets EXCEPT ![p] = new] /\ todo' = [todo EXCEPT ![p] = targets'[p]]
             /\ got' = [got EXCEPT ![p] = {}] /\ warned' = [warned EXCEPT ![p] = FALSE]
    <3> HIDE DEF new
    <3>1. new \in Seq(Targets) /\ {} \in SUBSET Targets
      BY <1>5 DEF new
    <3>2. targets' \in [Procs -> Seq(Targets)] /\ targets'[p] = new
      BY <2>1, <2>3, <3>1
    <3>3. todo' \in [Procs -> Seq(Targets)] /\ todo'[p] = new
      BY <2>1, <2>3, <3>1, <3>2
    <3>4. got' \in [Procs -> SUBSET Targets] /\ warned' \in [Procs -> BOOLEAN]
      BY <2>1, <2>3, <3>1
    <3>5. \A q \in Procs : q # p => /\ targets'[q] = targets[q] /\ todo'[q] = todo[q]
                                    /\ got'[q] = got[q] /\ warned'[q] = warned[q]
      BY <2>1, <2>3
    <3> QED
      BY <3>2, <3>3, <3>4, <3>5
  <2>4. \/ UNCHANGED <<targets, todo, got, warned>> /\ pc'[p] # "fetch"
        \/ /\ targets' = [targets EXCEPT ![p] = new] /\ todo' = [todo EXCEPT ![p] = targets'[p]]
           /\ got' = [got EXCEPT ![p] = {}] /\ warned' = [warned EXCEPT ![p] = FALSE]
    <3>1. Goto(p, "refusal") \/ Goto(p, "count") \/ Goto(p, "work") => pc'[p] # "fetch"
      BY DEF Goto, TabInv, SummaryInv, RunTimes
    <3> QED
      BY <1>3, <3>1
  <2> HIDE DEF new
  <2> QED
    BY <2>2, <2>3, <2>4
<1>7. ASSUME NEW rows, Dated(rows)
      PROVE  \A s \in Slots : rows[s] = NoRow \/ (rows[s].at \in 0..now' /\ TargetOf(rows[s]) \in Targets)
  BY <1>1, <1>7 DEF Dated
<1>8. ASSUME NEW rows, Dated(rows), Unstamped(rows)
      PROVE  \A q \in Procs : pc'[q] \in Crawling =>
                \A s \in Slots : rows[s] = NoRow \/ rows[s].at # run'[q]
  <2> SUFFICES ASSUME NEW q \in Procs, pc'[q] \in Crawling, NEW s \in Slots, rows[s] # NoRow
               PROVE  rows[s].at # run'[q]
    OBVIOUS
  <2>1. rows[s].at \in 0..now
    BY <1>8 DEF Dated
  <2>2. CASE q = p
    BY <1>1, <1>2, <2>1, <2>2
  <2>3. CASE q # p
    BY <1>2, <1>4, <1>8, <2>3 DEF Unstamped
  <2> QED
    BY <2>2, <2>3
<1>9. DOMAIN tab' = Slots /\ Dated(tab)' /\ Unstamped(tab)' /\ DOMAIN copy' = Procs
  <2>1. DOMAIN tab = Slots /\ Dated(tab) /\ Unstamped(tab) /\ DOMAIN copy = Procs
    BY DEF TabInv, StampInv
  <2>2. Dated(tab)'
    BY <1>1, <1>7, <2>1 DEF Dated
  <2>3. Unstamped(tab)'
    <3>1. \A q \in Procs : pc'[q] \in Crawling =>
             \A s \in Slots : tab[s] = NoRow \/ tab[s].at # run'[q]
      BY <1>8, <2>1
    <3> QED
      BY <1>1, <3>1 DEF Unstamped
  <2> QED
    BY <1>1, <2>1, <2>2, <2>3
<1>10. ASSUME NEW r \in Procs, pc'[r] = "publish"
       PROVE  Dated(copy[r])' /\ Unstamped(copy[r])'
  <2>1. r # p /\ pc[r] = "publish" /\ copy' = copy
    BY <1>1, <1>4, <1>10
  <2>2. Dated(copy[r]) /\ Unstamped(copy[r])
    BY <2>1 DEF TabInv, StampInv
  <2>3. Dated(copy[r])'
    BY <1>7, <2>1, <2>2 DEF Dated
  <2>4. \A q \in Procs : pc'[q] \in Crawling =>
           \A s \in Slots : copy[r][s] = NoRow \/ copy[r][s].at # run'[q]
    BY <1>8, <2>2
  <2> QED
    BY <2>1, <2>3, <2>4 DEF Unstamped
<1>11. \A q \in Procs : Complete(q)'
  <2>1. Complete(p)'
    <3>1. pc'[p] \notin Stored
      BY <1>4 DEF Stored, Crawling
    <3> QED
      BY <1>6, <3>1 DEF Complete
  <2>2. ASSUME NEW q \in Procs, q # p PROVE Complete(q)'
    <3>1. Complete(q)
      BY DEF TabInv, StampInv
    <3>2. /\ pc'[q] = pc[q] /\ warned'[q] = warned[q] /\ targets'[q] = targets[q]
          /\ todo'[q] = todo[q] /\ got'[q] = got[q] /\ run'[q] = run[q] /\ stored' = stored
      BY <1>1, <1>2, <1>4, <1>6, <2>2
    <3> QED
      BY <3>1, <3>2 DEF Complete
  <2> QED
    BY <2>1, <2>2
<1> QED
  BY <1>6, <1>9, <1>10, <1>11 DEF TabInv, StampInv

\* A step that leaves the tab and its copies, moves no process to another place
\* and changes nothing of the others is right when what it completes is.
LEMMA StampWithin ==
  ASSUME TabInv, SummaryInv', NEW p \in Procs, UNCHANGED <<now, tab, copy, run, targets, stored, pc>>,
         todo' \in [Procs -> Seq(Targets)], got' \in [Procs -> SUBSET Targets],
         warned' \in [Procs -> BOOLEAN],
         \A q \in Procs : q # p => todo'[q] = todo[q] /\ got'[q] = got[q] /\ warned'[q] = warned[q],
         Complete(p)'
  PROVE  TabInv'
<1>1. Dated(tab)' /\ Unstamped(tab)' /\ DOMAIN tab' = Slots /\ DOMAIN copy' = Procs
  BY DEF Dated, Unstamped, TabInv, StampInv
<1>2. \A r \in Procs : pc'[r] = "publish" => Dated(copy[r])' /\ Unstamped(copy[r])'
  BY DEF Dated, Unstamped, TabInv, StampInv
<1>3. ASSUME NEW q \in Procs PROVE Complete(q)'
  <2>1. Complete(q)
    BY DEF TabInv, StampInv
  <2>2. CASE q # p
    BY <2>1, <2>2 DEF Complete
  <2> QED
    BY <2>2
<1>4. targets' \in [Procs -> Seq(Targets)]
  BY DEF TabInv, StampInv
<1> QED
  BY <1>1, <1>2, <1>3, <1>4 DEF TabInv, StampInv

LEMMA HeadAndTail ==
  ASSUME NEW S, NEW list \in Seq(S), list # <<>>
  PROVE  /\ Tail(list) \in Seq(S) /\ Head(list) \in S
         /\ ToSet(list) \subseteq {Head(list)} \cup ToSet(Tail(list))
<1>1. Len(list) \in Nat /\ Len(list) # 0 /\ Head(list) = list[1] /\ DOMAIN list = 1..Len(list)
  OBVIOUS
<1>2. /\ Tail(list) \in Seq(S) /\ Len(Tail(list)) = Len(list) - 1
      /\ DOMAIN Tail(list) = 1..(Len(list) - 1)
      /\ \A j \in 1..(Len(list) - 1) : Tail(list)[j] = list[j + 1]
  BY <1>1
<1>3. ASSUME NEW i \in 1..Len(list)
      PROVE  list[i] = Head(list) \/ \E j \in DOMAIN Tail(list) : Tail(list)[j] = list[i]
  <2>1. CASE i = 1
    BY <1>1, <2>1
  <2>2. CASE i # 1
    <3>1. i - 1 \in 1..(Len(list) - 1) /\ (i - 1) + 1 = i
      BY <1>1, <2>2
    <3> QED
      BY <1>2, <3>1
  <2> QED
    BY <2>1, <2>2
<1> QED
  BY <1>1, <1>2, <1>3 DEF ToSet

\* Of every target fetched without a warning there are sources.
LEMMA StampFetch ==
  ASSUME TabInv, SummaryInv', NEW p \in Procs, Fetch(p)
  PROVE  TabInv'
<1>1. /\ pc[p] = "fetch" /\ todo[p] # <<>> /\ todo[p] \in Seq(Targets) /\ got[p] \in SUBSET Targets
      /\ UNCHANGED <<now, tab, copy, run, targets, stored>> /\ Complete(p)
      /\ todo \in [Procs -> Seq(Targets)] /\ got \in [Procs -> SUBSET Targets]
      /\ warned \in [Procs -> BOOLEAN]
  BY DEF Fetch, TabInv, StampInv
<1>2. CASE Goto(p, "raised") /\ UNCHANGED <<todo, got, warned>>
  <2>1. "raised" \in Places /\ "raised" \notin Stored
    BY DEF Places, AtAJob, Stored, Crawling
  <2> QED
    BY <1>1, <1>2, <2>1, StampMove
<1>3. ASSUME NEW whole \in BOOLEAN, NEW warning \in BOOLEAN, whole \/ warning,
             todo' = [todo EXCEPT ![p] = Tail(@)], pc' = pc,
             got' = IF whole THEN [got EXCEPT ![p] = @ \cup {Head(todo[p])}] ELSE got,
             warned' = [warned EXCEPT ![p] = @ \/ warning]
      PROVE  TabInv'
  <2>1. /\ Tail(todo[p]) \in Seq(Targets) /\ Head(todo[p]) \in Targets
        /\ ToSet(todo[p]) \subseteq {Head(todo[p])} \cup ToSet(Tail(todo[p]))
    BY <1>1, HeadAndTail
  <2>2. /\ todo' \in [Procs -> Seq(Targets)] /\ todo'[p] = Tail(todo[p])
        /\ \A q \in Procs : q # p => todo'[q] = todo[q]
    BY <1>1, <1>3, <2>1
  <2>3. /\ got' \in [Procs -> SUBSET Targets] /\ \A q \in Procs : q # p => got'[q] = got[q]
        /\ whole => got'[p] = got[p] \cup {Head(todo[p])}
    <3>1. got[p] \cup {Head(todo[p])} \in SUBSET Targets
      BY <1>1, <2>1
    <3>2. CASE whole
      <4>1. got' = [got EXCEPT ![p] = got[p] \cup {Head(todo[p])}]
        BY <1>3, <3>2
      <4> QED
        BY <1>1, <3>1, <4>1
    <3>3. CASE ~whole
      BY <1>1, <1>3, <3>3
    <3> QED
      BY <3>2, <3>3
  <2>4. /\ warned' \in [Procs -> BOOLEAN] /\ warned'[p] = (warned[p] \/ warning)
        /\ \A q \in Procs : q # p => warned'[q] = warned[q]
    BY <1>1, <1>3
  <2>5. Complete(p)'
    <3>1. pc'[p] = "fetch" /\ pc'[p] \notin Stored /\ targets'[p] = targets[p]
      BY <1>1, <1>3 DEF Stored
    <3>2. ASSUME ~warned'[p] PROVE ToSet(targets[p]) \subseteq got'[p] \cup ToSet(todo'[p])
      <4>1. ~warned[p] /\ whole
        BY <1>3, <2>4, <3>2
      <4>2. ToSet(targets[p]) \subseteq got[p] \cup ToSet(todo[p])
        BY <1>1, <4>1 DEF Complete
      <4> QED
        BY <2>1, <2>2, <2>3, <4>1, <4>2
    <3> QED
      BY <3>1, <3>2 DEF Complete
  <2> QED
    BY <1>1, <1>3, <2>2, <2>3, <2>4, <2>5, StampWithin
<1> QED
  BY <1>2, <1>3 DEF Fetch

\* When all are fetched without a warning, all are stored.
LEMMA StampIngest ==
  ASSUME TabInv, SummaryInv', NEW p \in Procs, Ingest(p)
  PROVE  TabInv'
<1>1. /\ pc[p] = "fetch" /\ todo[p] = <<>> /\ Complete(p)
      /\ UNCHANGED <<now, tab, copy, run, targets, todo, got, warned>>
  BY DEF Ingest, procVars, TabInv, StampInv
<1>2. CASE Goto(p, "raised") /\ stored \subseteq stored'
  <2>1. "raised" \in Places /\ "raised" \notin Stored
    BY DEF Places, AtAJob, Stored, Crawling
  <2> QED
    BY <1>1, <1>2, <2>1, StampMove
<1>3. CASE stored' = stored \cup {<<run[p], t>> : t \in got[p]} /\ Goto(p, "project")
  <2>1. pc'[p] = "project" /\ \A q \in Procs : q # p => pc'[q] = pc[q]
    BY <1>3 DEF Goto, TabInv, SummaryInv, RunTimes
  <2>2. \A q \in Procs : /\ pc'[q] \in Crawling => pc[q] \in Crawling
                         /\ pc'[q] = "publish" => pc[q] = "publish"
    BY <1>1, <2>1 DEF Crawling
  <2>3. DOMAIN tab' = Slots /\ Dated(tab)' /\ Unstamped(tab)' /\ DOMAIN copy' = Procs
    BY <1>1, <2>2 DEF Dated, Unstamped, TabInv, StampInv
  <2>4. ASSUME NEW r \in Procs, pc'[r] = "publish" PROVE Dated(copy[r])' /\ Unstamped(copy[r])'
    <3>1. Dated(copy[r]) /\ Unstamped(copy[r]) /\ copy' = copy
      BY <1>1, <2>2, <2>4 DEF TabInv, StampInv
    <3> QED
      BY <1>1, <2>2, <3>1 DEF Dated, Unstamped
  <2>5. ASSUME NEW q \in Procs PROVE Complete(q)'
    <3>1. CASE q # p
      <4>1. Complete(q) /\ stored \subseteq stored'
        BY <1>3 DEF TabInv, StampInv
      <4> QED
        BY <1>1, <2>1, <3>1, <4>1 DEF Complete
    <3>2. CASE q = p
      <4>1. ~warned[p] => ToSet(targets[p]) \subseteq got[p]
        <5>1. ToSet(todo[p]) = {}
          BY <1>1 DEF ToSet
        <5> QED
          BY <1>1, <5>1 DEF Complete
      <4>2. \A t \in got[p] : <<run[p], t>> \in stored'
        BY <1>3
      <4> QED
        BY <1>1, <2>1, <3>2, <4>1, <4>2 DEF Complete
    <3> QED
      BY <3>1, <3>2
  <2>6. /\ targets' \in [Procs -> Seq(Targets)] /\ todo' \in [Procs -> Seq(Targets)]
        /\ got' \in [Procs -> SUBSET Targets] /\ warned' \in [Procs -> BOOLEAN]
    BY <1>1 DEF TabInv, StampInv
  <2> QED
    BY <2>3, <2>4, <2>5, <2>6 DEF TabInv, StampInv
<1> QED
  BY <1>2, <1>3 DEF Ingest

\* The copy is the tab of this moment.
LEMMA StampReread ==
  ASSUME TabInv, SummaryInv', NEW p \in Procs, Reread(p)
  PROVE  TabInv'
<1>1. /\ pc[p] = "reread" /\ copy' = [copy EXCEPT ![p] = tab] /\ DOMAIN copy = Procs
      /\ UNCHANGED <<now, tab, run, targets, todo, got, warned, stored>>
      /\ Goto(p, "publish") \/ Goto(p, "ended") \/ Goto(p, "raised")
  BY DEF Reread, Goto, TabInv, StampInv
<1>2. pc'[p] \in {"publish", "ended", "raised"} /\ \A q \in Procs : q # p => pc'[q] = pc[q]
  BY <1>1 DEF Goto, TabInv, SummaryInv, RunTimes
<1>3. \A q \in Procs : /\ pc'[q] \in Crawling => pc[q] \in Crawling
                       /\ pc'[q] \in Stored => pc[q] \in Stored
                       /\ pc'[q] = "fetch" => pc[q] = "fetch"
  BY <1>1, <1>2 DEF Crawling, Stored
<1>4. DOMAIN tab' = Slots /\ Dated(tab)' /\ Unstamped(tab)' /\ DOMAIN copy' = Procs
  BY <1>1, <1>3 DEF Dated, Unstamped, TabInv, StampInv
<1>5. ASSUME NEW r \in Procs, pc'[r] = "publish" PROVE Dated(copy[r])' /\ Unstamped(copy[r])'
  <2>1. CASE r = p
    <3>1. copy'[r] = tab /\ tab' = tab
      BY <1>1, <2>1
    <3> QED
      BY <1>4, <3>1 DEF Dated, Unstamped
  <2>2. CASE r # p
    <3>1. copy'[r] = copy[r] /\ Dated(copy[r]) /\ Unstamped(copy[r])
      BY <1>1, <1>2, <1>5, <2>2 DEF TabInv, StampInv
    <3> QED
      BY <1>1, <1>3, <3>1 DEF Dated, Unstamped
  <2> QED
    BY <2>1, <2>2
<1>6. ASSUME NEW q \in Procs PROVE Complete(q)'
  <2>1. Complete(q)
    BY DEF TabInv, StampInv
  <2> QED
    BY <1>1, <1>3, <2>1 DEF Complete
<1>7. /\ targets' \in [Procs -> Seq(Targets)] /\ todo' \in [Procs -> Seq(Targets)]
      /\ got' \in [Procs -> SUBSET Targets] /\ warned' \in [Procs -> BOOLEAN]
  BY <1>1 DEF TabInv, StampInv
<1> QED
  BY <1>4, <1>5, <1>6, <1>7 DEF TabInv, StampInv

\* A stamped row is the row with the time of the crawl, another stays as it is.
LEMMA StampedRow ==
  ASSUME NEW p, NEW row
  PROVE  \/ Stamped(p, row) = row
         \/ /\ row # NoRow /\ Stamped(p, row) # NoRow
            /\ Stamped(p, row).at = run[p] /\ Stamped(p, row).err = warned[p]
            /\ TargetOf(Stamped(p, row)) = TargetOf(row)
            /\ Ident(Stamped(p, row)) = Ident(row)
            /\ \E t \in ToSet(targets[p]) : Ident(row) = Ident(t)
<1>1. CASE Stamped(p, row) # row
  <2>1. /\ row # NoRow /\ Stamped(p, row) = Cells(row, run[p], warned[p])
        /\ Identity(row) \in {Identity(t) : t \in ToSet(targets[p])}
    BY <1>1 DEF Stamped
  <2> QED
    BY <2>1, CellsOf DEF Identity
<1> QED
  BY <1>1

\* The crawl that writes the tab back is at its end; of the others there is no stamp.
LEMMA StampPublish ==
  ASSUME TabInv, SummaryInv', NEW p \in Procs, Publish(p)
  PROVE  TabInv'
<1>1. /\ pc[p] = "publish" /\ UNCHANGED <<now, copy, run, targets, todo, got, warned, stored>>
      /\ Dated(copy[p]) /\ Unstamped(copy[p])
  BY DEF Publish, procVars, TabInv, StampInv
<1>2. CASE Goto(p, "raised") /\ UNCHANGED tab
  <2>1. "raised" \in Places /\ "raised" \notin Stored
    BY DEF Places, AtAJob, Stored, Crawling
  <2> QED
    BY <1>1, <1>2, <2>1, StampMove
<1>3. CASE tab' = [s \in Slots |-> Stamped(p, copy[p][s])] /\ Goto(p, "ended")
  <2>1. pc'[p] = "ended" /\ \A q \in Procs : q # p => pc'[q] = pc[q]
    BY <1>3 DEF Goto, TabInv, SummaryInv, RunTimes
  <2>2. \A q \in Procs : /\ pc'[q] \in Crawling => q # p /\ pc[q] \in Crawling
                         /\ pc'[q] \in Stored => pc[q] \in Stored
                         /\ pc'[q] = "fetch" => pc[q] = "fetch"
                         /\ pc'[q] = "publish" => pc[q] = "publish"
    BY <1>1, <2>1 DEF Crawling, Stored
  <2>3. DOMAIN tab' = Slots /\ DOMAIN copy' = Procs
    BY <1>1, <1>3 DEF TabInv, StampInv
  <2>4. run[p] \in 0..now /\ \A q \in Procs : q # p /\ pc[q] \in Crawling => run[q] # run[p]
    <3>1. Crawling \subseteq AtAJob
      BY DEF Crawling, AtAJob
    <3>2. InJob(p) /\ \A q \in Procs : pc[q] \in Crawling => InJob(q)
      BY <1>1, <3>1 DEF InJob, AtAJob
    <3>3. run[p] \in 1..now /\ now \in Nat
      BY <3>2 DEF TabInv, SummaryInv, RunTimes
    <3> QED
      BY <3>2, <3>3 DEF TabInv, SummaryInv, RunTimes
  <2>5. ASSUME NEW s \in Slots
        PROVE  \/ tab'[s] = copy[p][s]
               \/ /\ copy[p][s] # NoRow /\ tab'[s] # NoRow
                  /\ tab'[s].at = run[p] /\ TargetOf(tab'[s]) = TargetOf(copy[p][s])
    <3>1. tab'[s] = Stamped(p, copy[p][s])
      BY <1>3
    <3> QED
      BY <3>1, StampedRow
  <2>6. Dated(tab)'
    <3>1. ASSUME NEW s \in Slots, tab'[s] # NoRow
          PROVE  tab'[s].at \in 0..now /\ TargetOf(tab'[s]) \in Targets
      BY <1>1, <2>4, <2>5, <3>1 DEF Dated
    <3> QED
      BY <1>1, <3>1 DEF Dated
  <2>7. Unstamped(tab)'
    <3>1. ASSUME NEW q \in Procs, pc'[q] \in Crawling, NEW s \in Slots, tab'[s] # NoRow
          PROVE  tab'[s].at # run[q]
      <4>1. q # p /\ pc[q] \in Crawling
        BY <2>2, <3>1
      <4> QED
        BY <1>1, <2>4, <2>5, <3>1, <4>1 DEF Unstamped
    <3> QED
      BY <1>1, <3>1 DEF Unstamped
  <2>8. ASSUME NEW r \in Procs, pc'[r] = "publish" PROVE Dated(copy[r])' /\ Unstamped(copy[r])'
    <3>1. Dated(copy[r]) /\ Unstamped(copy[r]) /\ copy' = copy
      BY <1>1, <2>2, <2>8 DEF TabInv, StampInv
    <3> QED
      BY <1>1, <2>2, <3>1 DEF Dated, Unstamped
  <2>9. ASSUME NEW q \in Procs PROVE Complete(q)'
    <3>1. Complete(q)
      BY DEF TabInv, StampInv
    <3> QED
      BY <1>1, <2>2, <3>1 DEF Complete
  <2>10. /\ targets' \in [Procs -> Seq(Targets)] /\ todo' \in [Procs -> Seq(Targets)]
         /\ got' \in [Procs -> SUBSET Targets] /\ warned' \in [Procs -> BOOLEAN]
    BY <1>1 DEF TabInv, StampInv
  <2> QED
    BY <2>3, <2>6, <2>7, <2>8, <2>9, <2>10 DEF TabInv, StampInv
<1> QED
  BY <1>2, <1>3 DEF Publish

\* An operator writes no stamps.
LEMMA StampEdit ==
  ASSUME TabInv, SummaryInv', NEW s \in Slots, NEW t \in Targets \cup {NoRow}, Edit(s, t)
  PROVE  TabInv'
<1>1. /\ UNCHANGED <<now, pc, copy, run, targets, todo, got, warned, stored>>
      /\ tab' = [tab EXCEPT ![s] = IF t = NoRow THEN NoRow
                                   ELSE IF @ = NoRow THEN Fresh(t) ELSE Cells(t, @.at, @.err)]
      /\ DOMAIN tab = Slots /\ Dated(tab) /\ Unstamped(tab)
  BY DEF Edit, procVars, TabInv, StampInv
<1>2. DOMAIN tab' = Slots /\ DOMAIN copy' = Procs /\ \A r \in Slots : r # s => tab'[r] = tab[r]
  BY <1>1 DEF TabInv, StampInv
<1>3. CASE tab'[s] = NoRow
  <2>1. Dated(tab)' /\ Unstamped(tab)'
    BY <1>1, <1>2, <1>3 DEF Dated, Unstamped
  <2> QED
    BY <1>1, <1>2, <2>1 DEF TabInv, StampInv, Dated, Unstamped, Complete
<1>4. CASE tab'[s] # NoRow
  <2>1. /\ t \in Targets
        /\ tab[s] = NoRow => tab'[s] = Cells(t, 0, FALSE)
        /\ tab[s] # NoRow => tab'[s] = Cells(t, tab[s].at, tab[s].err)
    BY <1>1, <1>4 DEF Fresh
  <2>2. TargetOf(tab'[s]) \in Targets
    <3>1. \A at, err : TargetOf(Cells(t, at, err)) = TargetOf(t)
      BY CellsOf
    <3>2. TargetOf(t) = t
      BY <2>1, TabAssumption
    <3> QED
      BY <2>1, <3>1, <3>2
  <2>3. /\ tab[s] = NoRow => tab'[s].at = 0
        /\ tab[s] # NoRow => tab'[s].at = tab[s].at
    <3>1. Cells(t, 0, FALSE).at = 0 /\ Cells(t, tab[s].at, tab[s].err).at = tab[s].at
      BY DEF Cells
    <3> QED
      BY <2>1, <3>1
  <2>4. now \in Nat /\ \A q \in Procs : pc[q] \in Crawling => run[q] \in 1..now
    <3>1. Crawling \subseteq AtAJob
      BY DEF Crawling, AtAJob
    <3> QED
      BY <3>1 DEF TabInv, SummaryInv, RunTimes, InJob
  <2>5. tab'[s].at \in 0..now
    BY <1>1, <2>3, <2>4 DEF Dated
  <2>6. \A q \in Procs : pc[q] \in Crawling => tab'[s].at # run[q]
    BY <1>1, <2>3, <2>4 DEF Unstamped
  <2>7. Dated(tab)'
    BY <1>1, <1>2, <2>2, <2>5 DEF Dated
  <2>8. Unstamped(tab)'
    BY <1>1, <1>2, <2>6 DEF Unstamped
  <2> QED
    BY <1>1, <1>2, <2>7, <2>8 DEF TabInv, StampInv, Dated, Unstamped, Complete
<1> QED
  BY <1>3, <1>4

\* One process takes a step.
LEMMA StampStep ==
  ASSUME TabInv, SummaryInv', NEW p \in Procs, Step(p) \/ Die(p)
  PROVE  TabInv'
<1> DEFINE Same == UNCHANGED <<now, tab, copy, run, targets, todo, got, warned, stored>>
<1>1. ASSUME NEW where \in Places, Goto(p, where), Same, where \notin {"fetch", "publish"},
             where \in Stored => pc[p] \in Stored
      PROVE  TabInv'
  BY <1>1, StampMove
<1>2. CASE Start(p)
  <2>1. (Goto(p, "turn") \/ Goto(p, "refused")) /\ Same
    BY <1>2 DEF Start, procVars, history
  <2> QED
    BY <1>1, <2>1 DEF Places, Stored, Crawling, Before, Between
<1>3. CASE Begin(p)
  BY <1>3, StampBegin
<1>4. CASE Fetch(p)
  BY <1>4, StampFetch
<1>5. CASE Ingest(p)
  BY <1>5, StampIngest
<1>6. CASE Project(p)
  <2>1. pc[p] = "project" /\ (Goto(p, "record") \/ Goto(p, "raised")) /\ Same
    BY <1>6 DEF Project, Goto, procVars, history
  <2> QED
    BY <1>1, <2>1 DEF Places, AtAJob, Stored, Crawling
<1>7. CASE RecordCrawl(p)
  <2>1. /\ pc[p] = "record" /\ Same
        /\ Goto(p, "reread") \/ Goto(p, "ended") \/ Goto(p, "raised")
    BY <1>7 DEF RecordCrawl, procVars, history
  <2> QED
    BY <1>1, <2>1 DEF Places, AtAJob, Stored, Crawling
<1>8. CASE Reread(p)
  BY <1>8, StampReread
<1>9. CASE Publish(p)
  BY <1>9, StampPublish
<1>10. CASE Summary(p)
  <2>1. (Goto(p, "post") \/ Goto(p, "note") \/ Goto(p, "raised")) /\ Same
    BY <1>10 DEF Summary, Count, Post, Goto, procVars, history
  <2> QED
    BY <1>1, <2>1 DEF Places, AtAJob, Stored, Crawling
<1>11. CASE NoteDone(p) \/ WorkFails(p)
  <2>1. (Goto(p, "ended") \/ Goto(p, "raised")) /\ Same
    BY <1>11 DEF NoteDone, WorkFails, procVars, history
  <2> QED
    BY <1>1, <2>1 DEF Places, AtAJob, Stored, Crawling
<1>12. CASE EndJob(p) \/ Fail(p)
  <2>1. Forget(p) /\ UNCHANGED <<now, tab, stored>>
    BY <1>12 DEF EndJob, Fail
  <2>2. Goto(p, "off") \/ Goto(p, "turn") \/ Goto(p, "done") \/ Goto(p, "sleep")
    BY <1>12 DEF EndJob, Fail, NextTurn, NextJob, EndCycle, Procs
  <2> QED
    BY <2>1, <2>2, StampLeave DEF Places, AtAJob, Before, Between
<1>13. CASE Die(p)
  <2>1. Forget(p) /\ UNCHANGED <<now, tab, stored>> /\ (Goto(p, "start") \/ Goto(p, "off"))
    BY <1>13 DEF Die
  <2> QED
    BY <2>1, StampLeave DEF Places, AtAJob, Before
<1> QED
  BY <1>2, <1>3, <1>4, <1>5, <1>6, <1>7, <1>8, <1>9, <1>10, <1>11, <1>12, <1>13
     DEF Step, Crawl

\* The steps of no process.
LEMMA StampElse ==
  ASSUME TabInv, SummaryInv', \/ Wake \/ UNCHANGED vars
                              \/ \E s \in Slots, t \in Targets \cup {NoRow} : Edit(s, t)
  PROVE  TabInv'
<1>1. CASE Wake
  <2>1. /\ Goto("loop", "turn") /\ "loop" \in Procs
        /\ UNCHANGED <<now, tab, copy, run, targets, todo, got, warned, stored>>
    BY <1>1 DEF Wake, procVars, history, Procs
  <2> QED
    BY <2>1, StampMove DEF Places, Between, Stored, Crawling
<1>2. CASE UNCHANGED vars
  BY <1>2 DEF vars, procVars, TabInv, StampInv, Dated, Unstamped, Complete
<1> QED
  BY <1>1, <1>2, StampEdit

\* Whoever edits the tab and whatever crawls at the same time, fails or dies: a
\* target that a step stamps without a message has its sources stored under that
\* run, with the cells that the crawl knows as they stand in the stamped row, but for
\* their spelling.
THEOREM StampsHold == Spec => StampsAreTrue
<1>1. TabInv /\ [Next]_vars => TabInv'
  <2> SUFFICES ASSUME TabInv, [Next]_vars PROVE TabInv'
    OBVIOUS
  <2>1. SummaryInv'
    BY SummaryStep, SummaryElse DEF TabInv, Next, AllStopped
  <2> QED
    BY <2>1, StampStep, StampElse DEF Next, AllStopped
<1> DEFINE Claim == \A p \in Procs : Publish(p) =>
                     \A s \in Slots : LET row == tab'[s] IN
                         row \notin {NoRow, tab[s]} /\ row.at = run[p] /\ ~row.err
                             => \E src \in stored : src[1] = run[p] /\ Ident(src[2]) = Ident(row)
<1>2. TabInv => Claim
  <2> SUFFICES ASSUME TabInv, NEW p \in Procs, Publish(p), NEW s \in Slots,
                      tab'[s] # NoRow, tab'[s] # tab[s], tab'[s].at = run[p], ~tab'[s].err
               PROVE  \E src \in stored : src[1] = run[p] /\ Ident(src[2]) = Ident(tab'[s])
    OBVIOUS
  <2>1. pc[p] = "publish" /\ tab' = [r \in Slots |-> Stamped(p, copy[p][r])]
    BY DEF Publish
  <2>2. tab'[s] = Stamped(p, copy[p][s]) /\ Unstamped(copy[p]) /\ Complete(p)
    BY <2>1 DEF TabInv, StampInv
  <2>3. tab'[s] # copy[p][s]
    BY <2>1, <2>2 DEF Unstamped, Crawling
  <2>4. /\ tab'[s].err = warned[p] /\ Ident(tab'[s]) = Ident(copy[p][s])
        /\ \E t \in ToSet(targets[p]) : Ident(copy[p][s]) = Ident(t)
    BY <2>2, <2>3, StampedRow
  <2>5. PICK t \in ToSet(targets[p]) : Ident(tab'[s]) = Ident(t)
    BY <2>4
  <2>6. <<run[p], t>> \in stored
    <3>1. ~warned[p]
      BY <2>4
    <3> QED
      BY <2>1, <2>2, <2>5, <3>1 DEF Complete, Stored, Crawling
  <2> QED
    BY <2>5, <2>6
<1> HIDE DEF Claim
<1>3. TabInv => [Claim]_vars
  BY <1>2
<1> QED
  BY <1>1, <1>3, StampInit, PTL DEF Spec, StampsAreTrue, Claim
=============================================================================
