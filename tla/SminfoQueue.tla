---------------------------- MODULE SminfoQueue ----------------------------
(***************************************************************************)
(* The enrichment queue between crawl_sources, which queues the companies  *)
(* it sees, and enrich_sminfo_candidates, which leases a batch of them,    *)
(* looks each up at SMINFO, stores the profiles, writes the queue rows     *)
(* back and publishes them to the "SMINFO Queue" tab.  One row of          *)
(* sminfo_enrichment_queue per company.  One action is one transaction on  *)
(* the Mother DB or one call of the sheet; any number of processes of both *)
(* kinds run at once, and each may die or raise between two actions.       *)
(*                                                                         *)
(* Abstractions: a company is the rank of its row in the lease's order     *)
(* (priority, created_at), which no update of the row changes; timestamps  *)
(* are kept as what is compared with the clock: the time left to           *)
(* next_run_at, the age of locked_at, the time left of the stale window    *)
(* after completed_at.  Left out: the path without a queue (no rows yet,   *)
(* or names on the command line), which takes its companies from the sheet *)
(* and stores what it finds about them, and two rows of one name           *)
(* (CandidateDetail, OneTaskEach): their profiles would share ids.         *)
(***************************************************************************)
EXTENDS Integers, FiniteSets

CONSTANTS
  NumTasks,     \* companies that a crawl can see
  Enrichers,    \* processes that run the enrich-sminfo job
  Crawlers,     \* processes that run the crawl-sources job
  Answers,      \* the terminal statuses: matched, not_found, ...
  Matches,      \* those that come with a page of SMINFO's
  MaxAttempts,  \* DEFAULT_MAX_ATTEMPTS
  MaxItems,     \* _MAX_SMINFO_BATCH_SIZE
  Stale,        \* stale_running_seconds
  Fresh,        \* sminfo_stale_days
  RetryBase,    \* retry_base_seconds
  MaxCrawls,    \* bound: crawls that find something to queue
  MaxCrashes    \* bound: deaths of processes

Tasks == 1 .. NumTasks
Queued == {"pending", "retry", "running"}
Statuses == {"absent", "failed"} \union Queued \union Answers
Results == Answers \union {"error"}
Ids == {"page", "none"}

ASSUME SminfoAssumption ==
  /\ NumTasks \in Nat \ {0}
  /\ MaxAttempts \in Nat \ {0}
  /\ MaxItems \in Nat \ {0}
  /\ Stale \in Nat \ {0} /\ Fresh \in Nat /\ RetryBase \in Nat \ {0}
  /\ MaxCrawls \in Nat /\ MaxCrashes \in Nat
  /\ Enrichers \intersect Crawlers = {}
  /\ Matches \subseteq Answers
  /\ Answers \intersect ({"absent", "failed", "error"} \union Queued) = {}

VARIABLES
  status, attempts,  \* the rows
  wait,      \* time to next_run_at, 0 once it is past
  lock_age,  \* time since locked_at, at most Stale
  fresh,     \* time until completed_at leaves the stale window
  profiles,  \* sminfo_company_profiles: the last result stored for a company
             \* under each of its ids
  sheet,     \* the "SMINFO Queue" tab: status of the company's row
  pc,        \* where each process is in its job
  batch,     \* an enricher's leased companies
  copy,      \* their attempt_count when leased
  result,    \* what SMINFO answered
  plan,      \* the companies a crawler has decided to write as pending
  quiet,     \* history: time before the company should be asked again
  crawls, crashes

rows   == <<status, attempts, wait, lock_age, fresh>>
memory == <<batch, copy, result, plan>>
vars   == <<rows, profiles, sheet, pc, memory, quiet, crawls, crashes>>

-----------------------------------------------------------------------------
Goto(p, point) == pc' = [pc EXCEPT ![p] = point]

\* The job is over, however it ends: what it held in memory is gone.
Forget(p) ==
  /\ Goto(p, "idle")
  /\ IF p \in Enrichers
       THEN /\ batch' = [batch EXCEPT ![p] = {}]
            /\ copy' = [copy EXCEPT ![p] = [t \in Tasks |-> 0]]
            /\ result' = [result EXCEPT ![p] = [t \in Tasks |-> "error"]]
            /\ UNCHANGED plan
       ELSE /\ plan' = [plan EXCEPT ![p] = {}]
            /\ UNCHANGED <<batch, copy, result>>

\* Mutation of MayQueue: answered companies are queued whatever their age.
MayQueueAnswered(t) == status[t] \in {"absent", "pending"} \union Answers

\* The filter of _enqueue_sminfo_tasks.
MayQueue(t) ==
  \/ status[t] \in {"absent", "pending"}
  \/ status[t] \in Answers /\ fresh[t] = 0

DueUnlessRunning(t) == wait[t] = 0 /\ status[t] \in {"pending", "retry"}
\* Mutation of Due: a lease is taken over one tick too early.
DueEarly(t) ==
  /\ wait[t] = 0
  /\ \/ status[t] \in {"pending", "retry"}
     \/ status[t] = "running" /\ lock_age[t] + 1 >= Stale

\* The where clause of lease_sminfo_tasks.
Due(t) ==
  /\ wait[t] = 0
  /\ \/ status[t] \in {"pending", "retry"}
     \/ status[t] = "running" /\ lock_age[t] >= Stale

\* order by priority, created_at limit max_items
NextBatch == {t \in Tasks : Due(t) /\ Cardinality({u \in 1 .. t : Due(u)}) <= MaxItems}

\* next_retry_at
Backoff(n) == RetryBase * 2 ^ (n - 1)

\* Mutation of StatusAfter: off by one in the budget.
StatusAfterLate(r, n) ==
  IF r # "error" THEN r ELSE IF n > MaxAttempts THEN "failed" ELSE "retry"

\* The status _queue_task_update gives a row after its n-th lookup returned r.
StatusAfter(r, n) ==
  IF r # "error" THEN r ELSE IF n >= MaxAttempts THEN "failed" ELSE "retry"
-----------------------------------------------------------------------------
(* crawl_sources                                                           *)

\* _enqueue_sminfo_tasks reads the queue and decides what to write.
Crawl(c, seen) ==
  /\ pc[c] = "idle"
  /\ crawls < MaxCrawls
  /\ LET new == {t \in seen : MayQueue(t)}
     IN  /\ new # {}
         /\ plan' = [plan EXCEPT ![c] = new]
  /\ crawls' = crawls + 1
  /\ Goto(c, "enqueue")
  /\ UNCHANGED <<rows, profiles, sheet, batch, copy, result, quiet, crashes>>

\* Whole rows as build_sminfo_task makes them.
PutPending(new) ==
  /\ status' = [t \in Tasks |-> IF t \in new THEN "pending" ELSE status[t]]
  /\ attempts' = [t \in Tasks |-> IF t \in new THEN 0 ELSE attempts[t]]
  /\ wait' = [t \in Tasks |-> IF t \in new THEN 0 ELSE wait[t]]
  /\ lock_age' = [t \in Tasks |-> IF t \in new THEN 0 ELSE lock_age[t]]
  /\ fresh' = [t \in Tasks |-> IF t \in new THEN 0 ELSE fresh[t]]

\* It upserts whole pending rows, whatever has happened since it read.
Enqueue(c) ==
  /\ pc[c] = "enqueue"
  /\ PutPending(plan[c])
  /\ Goto(c, "announce")
  /\ UNCHANGED <<profiles, sheet, memory, quiet, crawls, crashes>>

\* _publish_sminfo_queue_projection of the rows it wrote.
Announce(c) ==
  /\ pc[c] = "announce"
  /\ sheet' = [t \in Tasks |-> IF t \in plan[c] THEN "pending" ELSE sheet[t]]
  /\ Forget(c)
  /\ UNCHANGED <<rows, profiles, quiet, crawls, crashes>>

-----------------------------------------------------------------------------
(* enrich_sminfo_candidates                                                *)

\* lease_sminfo_tasks: one BEGIN IMMEDIATE transaction.  With nothing due
\* the job ends without a write.
Lease(w) ==
  /\ pc[w] = "idle"
  /\ NextBatch # {}
  /\ status' = [t \in Tasks |-> IF t \in NextBatch THEN "running" ELSE status[t]]
  /\ lock_age' = [t \in Tasks |-> IF t \in NextBatch THEN 0 ELSE lock_age[t]]
  /\ batch' = [batch EXCEPT ![w] = NextBatch]
  /\ copy' = [copy EXCEPT ![w] = [t \in Tasks |-> IF t \in NextBatch THEN attempts[t] ELSE 0]]
  /\ Goto(w, "lookup")
  /\ UNCHANGED <<attempts, wait, fresh, profiles, sheet, result, plan, quiet, crawls, crashes>>

\* client.lookup_company for each; an exception becomes an error profile.
Lookup(w) ==
  /\ pc[w] = "lookup"
  /\ \E r \in [batch[w] -> Results] :
       result' = [result EXCEPT ![w] = [t \in Tasks |-> IF t \in batch[w] THEN r[t] ELSE "error"]]
  /\ Goto(w, "store")
  /\ UNCHANGED <<rows, profiles, sheet, batch, copy, plan, quiet, crawls, crashes>>

\* _profile_id: of the company's name with the page found or, without a page,
\* with nothing; so errors and answers without a page overwrite each other.
IdOf(r) == IF r \in Matches THEN "page" ELSE "none"

\* The upsert of sminfo_company_profiles.
StoreProfiles(w) ==
  /\ pc[w] = "store"
  /\ profiles' = [t \in Tasks |-> IF t \in batch[w]
       THEN [profiles[t] EXCEPT ![IdOf(result[w][t])] = result[w][t]] ELSE profiles[t]]
  /\ Goto(w, "settle")
  /\ UNCHANGED <<rows, sheet, memory, quiet, crawls, crashes>>

\* The upsert of the rows _queue_task_update makes of the leased copies.
Settle(w) ==
  /\ pc[w] = "settle"
  /\ LET n(t) == copy[w][t] + 1
         outcome(t) == StatusAfter(result[w][t], n(t))
     IN  /\ status' = [t \in Tasks |-> IF t \in batch[w] THEN outcome(t) ELSE status[t]]
         /\ attempts' = [t \in Tasks |-> IF t \in batch[w] THEN n(t) ELSE attempts[t]]
         /\ wait' = [t \in Tasks |-> CASE t \notin batch[w] -> wait[t]
              [] t \in batch[w] /\ outcome(t) = "retry" -> Backoff(n(t))
              [] OTHER -> 0]
         /\ fresh' = [t \in Tasks |-> CASE t \notin batch[w] -> fresh[t]
              [] t \in batch[w] /\ outcome(t) \in Answers -> Fresh
              [] OTHER -> 0]
         /\ quiet' = [t \in Tasks |-> CASE t \notin batch[w] -> quiet[t]
              [] t \in batch[w] /\ outcome(t) \in Answers -> Fresh
              [] t \in batch[w] /\ outcome(t) = "retry" -> Backoff(n(t))
              [] OTHER -> 0]
  /\ lock_age' = [t \in Tasks |-> IF t \in batch[w] THEN 0 ELSE lock_age[t]]
  /\ Goto(w, "publish")
  /\ UNCHANGED <<profiles, sheet, memory, crawls, crashes>>

\* The rows go to the sheet.  The two tabs before it may raise instead: then
\* the job ends with the queue written and the tab as it was.
Publish(w) ==
  /\ pc[w] = "publish"
  /\ \/ sheet' = [t \in Tasks |-> IF t \in batch[w]
          THEN StatusAfter(result[w][t], copy[w][t] + 1) ELSE sheet[t]]
     \/ UNCHANGED sheet
  /\ Forget(w)
  /\ UNCHANGED <<rows, profiles, quiet, crawls, crashes>>

-----------------------------------------------------------------------------
\* A process dies or the store or the sheet raises between two actions.
Crash(p) ==
  /\ pc[p] # "idle"
  /\ crashes < MaxCrashes
  /\ crashes' = crashes + 1
  /\ Forget(p)
  /\ UNCHANGED <<rows, profiles, sheet, quiet, crawls>>

Down(n) == IF n > 0 THEN n - 1 ELSE 0

\* Time passes.
Tick ==
  /\ \E t \in Tasks :
       \/ wait[t] + fresh[t] + quiet[t] > 0
       \/ status[t] = "running" /\ lock_age[t] < Stale
  /\ wait' = [t \in Tasks |-> Down(wait[t])]
  /\ fresh' = [t \in Tasks |-> Down(fresh[t])]
  /\ quiet' = [t \in Tasks |-> Down(quiet[t])]
  /\ lock_age' = [t \in Tasks |-> IF status[t] = "running" /\ lock_age[t] < Stale
                                    THEN lock_age[t] + 1 ELSE lock_age[t]]
  /\ UNCHANGED <<status, attempts, profiles, sheet, pc, memory, crawls, crashes>>

Init ==
  /\ status = [t \in Tasks |-> "absent"]
  /\ attempts = [t \in Tasks |-> 0]
  /\ wait = [t \in Tasks |-> 0]
  /\ lock_age = [t \in Tasks |-> 0]
  /\ fresh = [t \in Tasks |-> 0]
  /\ profiles = [t \in Tasks |-> [id \in Ids |-> "absent"]]
  /\ sheet = [t \in Tasks |-> "absent"]
  /\ pc = [p \in Enrichers \union Crawlers |-> "idle"]
  /\ batch = [w \in Enrichers |-> {}]
  /\ copy = [w \in Enrichers |-> [t \in Tasks |-> 0]]
  /\ result = [w \in Enrichers |-> [t \in Tasks |-> "error"]]
  /\ plan = [c \in Crawlers |-> {}]
  /\ quiet = [t \in Tasks |-> 0]
  /\ crawls = 0 /\ crashes = 0

Enrich(w) == Lease(w) \/ Lookup(w) \/ StoreProfiles(w) \/ Settle(w) \/ Publish(w)
CrawlSome(c) == \E seen \in SUBSET Tasks : Crawl(c, seen)

Next ==
  \/ Tick
  \/ \E c \in Crawlers : CrawlSome(c) \/ Enqueue(c) \/ Announce(c)
  \/ \E w \in Enrichers : Enrich(w)
  \/ \E p \in Enrichers \union Crawlers : Crash(p)

\* Any number of processes, whose jobs may overlap and outlive their leases.
Spec == Init /\ [][Next]_vars

Idle(P) == \A p \in P : pc[p] = "idle"
Holds(w) == pc[w] \in {"lookup", "store", "settle"}

\* No job outlives its lease: what stale_running_seconds is meant to ensure.
Punctual == \A w \in Enrichers : Holds(w) => \A t \in batch[w] : lock_age[t] + 1 < Stale

\* Crawling and enriching take turns, as the stages of one work-queue chain do
\* (AgentWorkQueue, OneAtATime); several enrichers may still overlap.
TurnsNext ==
  \/ Punctual /\ Tick
  \/ \E c \in Crawlers : \/ Idle(Enrichers \union Crawlers) /\ CrawlSome(c)
                         \/ Enqueue(c) \/ Announce(c)
  \/ \E w \in Enrichers : Idle(Crawlers) /\ Enrich(w)
  \/ \E p \in Enrichers \union Crawlers : Crash(p)

TurnsSpec == Init /\ [][TurnsNext]_vars

\* Time passes, a job that has started goes on, and the loop starts the
\* enrich job again and again.  No crawl need ever happen.
Fairness ==
  /\ WF_vars(Punctual /\ Tick)
  /\ \A w \in Enrichers : WF_vars(Idle(Crawlers) /\ Enrich(w))
  /\ \A c \in Crawlers : WF_vars(Enqueue(c) \/ Announce(c))

FairTurnsSpec == TurnsSpec /\ Fairness

-----------------------------------------------------------------------------
(* Properties of every behaviour (Spec).                                   *)

\* max_attempts is a budget: whatever copies cross, a row that may be asked
\* has an attempt left, and failed rows have spent exactly all of theirs.
AttemptBudget ==
  \A t \in Tasks :
    /\ status[t] \in Queued => attempts[t] < MaxAttempts
    /\ status[t] = "failed" => attempts[t] = MaxAttempts

-----------------------------------------------------------------------------
(* Properties while crawls and enrichments take turns (TurnsSpec).         *)

\* The answer that a queue row gives is the one last stored under its id: it is
\* stored first, and no error overwrites it before the row is queued again.  The
\* tab may be behind (its row says not_found while a later error is stored), but it
\* never claims a page, or an answer without one, where no such row is.
ProfileFirst ==
  \A t \in Tasks :
    /\ status[t] \in Answers => profiles[t][IdOf(status[t])] = status[t]
    /\ sheet[t] \in Answers => profiles[t][IdOf(sheet[t])] # "absent"

\* A company is not asked about again before its backoff is over, or, once
\* answered, within the stale window (docs/ONBOARDING.md:58).
NotAskedTooSoon ==
  [][\A w \in Enrichers : \A t \in batch'[w] \ batch[w] : quiet[t] = 0]_vars

\* Every queued company is answered or failed in the end: errors run into
\* the budget, and a dead process's lease expires.
Settles ==
  \A t \in Tasks : (status[t] \in Queued) ~> (status[t] \in Answers \union {"failed"})
=============================================================================
