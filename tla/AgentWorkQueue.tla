--------------------------- MODULE AgentWorkQueue ---------------------------
(***************************************************************************)
(* The chain queue of pipelines/agent_work_queue.py over the SQLite store: *)
(* one row of the table agent_work_queue per stage of the chain (a task_id *)
(* is a hash of the chain, the stage and its predecessor's task_id), and   *)
(* any number of workers that each execute run_agent_work_queue again and  *)
(* again.  One action is one transaction on the table, so everything the   *)
(* code does between two transactions can interleave with other workers.  *)
(*                                                                         *)
(* Abstractions: a row is identified by its stage's position in the chain; *)
(* the stages' priorities grow along the chain, as they do in              *)
(* configs/agent_work_queue.discovery.json; locked_at is kept as the time  *)
(* elapsed since, which is all the lease query uses it for; next_run_at is *)
(* left out, since it is the row's creation time and no update moves it.   *)
(***************************************************************************)
EXTENDS Integers, FiniteSets

CONSTANTS
  Workers,      \* the processes that run the agent-work-queue job
  Nobody,       \* locked_by = ""
  NumStages,    \* the length of the chain
  MaxAttempts,  \* max_attempts of each stage
  Stale,        \* age at which a lease may be taken over (3600 s)
  MaxTasks,     \* AGENT_WORK_QUEUE_BATCH_LIMIT, tasks of one call
  MaxCrashes    \* bound: how many crashes a behaviour has

Stages == 1 .. NumStages

ASSUME QueueAssumption ==
  /\ Nobody \notin Workers
  /\ NumStages \in Nat \ {0}
  /\ MaxAttempts \in [Stages -> Nat \ {0}]
  /\ Stale \in Nat \ {0}
  /\ MaxTasks \in Nat \ {0}
  /\ MaxCrashes \in Nat

VARIABLES
  status,         \* the rows: column status, "absent" for no row
  attempt_count,  \*           column attempt_count
  lock_age,       \*           time since locked_at, at most Stale
  locked_by,      \*           column locked_by
  pc,             \* where each worker is in run_agent_work_queue
  task,           \* the stage it has leased, 0 if none
  tried,          \* attempt_count in its copy of the leased row
  left,           \* iterations left of its loop
  succeeded,      \* history: stages whose job has ever returned normally
  crashes         \* crashes so far

table == <<status, attempt_count, lock_age, locked_by>>
local == <<pc, task, tried, left>>
vars  == <<table, local, succeeded, crashes>>

Statuses == {"absent", "pending", "running", "retry", "done", "failed", "blocked"}
Settled  == {"done", "failed", "blocked"}
Points   == {"idle", "seed", "claim", "run", "link", "enqueue"}

-----------------------------------------------------------------------------
(* The table.                                                              *)

\* upsert_rows of one whole, unlocked row: it overwrites every column.
Upsert(s, st, n) ==
  /\ status' = [status EXCEPT ![s] = st]
  /\ attempt_count' = [attempt_count EXCEPT ![s] = n]
  /\ lock_age' = [lock_age EXCEPT ![s] = 0]
  /\ locked_by' = [locked_by EXCEPT ![s] = Nobody]

\* Mutations of Due: an expired lease is never taken over; a lease expires
\* one tick early; failed rows are retried.
DueNeverStale(s) ==
  /\ status[s] \in {"pending", "retry"}
  /\ s > 1 => status[s - 1] = "done"
DueEarly(s) ==
  /\ \/ status[s] \in {"pending", "retry"}
     \/ status[s] = "running" /\ lock_age[s] + 1 >= Stale
  /\ s > 1 => status[s - 1] = "done"
DueFailed(s) ==
  /\ \/ status[s] \in {"pending", "retry", "failed"}
     \/ status[s] = "running" /\ lock_age[s] >= Stale
  /\ s > 1 => status[s - 1] = "done"

\* The where clause of the lease query.
Due(s) ==
  /\ \/ status[s] \in {"pending", "retry"}
     \/ status[s] = "running" /\ lock_age[s] >= Stale
  /\ s > 1 => status[s - 1] = "done"

\* order by priority limit 1
IsNextDue(s) == Due(s) /\ \A r \in Stages : Due(r) => s <= r

\* Mutation of StatusAfterFailure: off by one in the budget.
StatusAfterFailureLate(s, n, blocking) ==
  CASE blocking -> "blocked"
    [] ~blocking /\ n > MaxAttempts[s] -> "failed"
    [] OTHER -> "retry"

\* _failed_task_update: what a raised exception makes of the leased row.
StatusAfterFailure(s, n, blocking) ==
  CASE blocking -> "blocked"
    [] ~blocking /\ n >= MaxAttempts[s] -> "failed"
    [] OTHER -> "retry"

-----------------------------------------------------------------------------
(* run_agent_work_queue, one worker.                                       *)

Goto(w, point) == pc' = [pc EXCEPT ![w] = point]

\* The call returns, raises or dies: what the worker held in memory is gone.
Return(w) ==
  /\ Goto(w, "idle")
  /\ task' = [task EXCEPT ![w] = 0]
  /\ tried' = [tried EXCEPT ![w] = 0]
  /\ left' = [left EXCEPT ![w] = 0]

\* The next iteration of the loop.
Continue(w) ==
  /\ Goto(w, "claim")
  /\ task' = [task EXCEPT ![w] = 0]
  /\ tried' = [tried EXCEPT ![w] = 0]
  /\ UNCHANGED left

\* The read of _ensure_seed_task: are there rows of the chain?
Start(w) ==
  /\ pc[w] = "idle"
  /\ Goto(w, IF \A s \in Stages : status[s] = "absent" THEN "seed" ELSE "claim")
  /\ left' = [left EXCEPT ![w] = MaxTasks]
  /\ UNCHANGED <<table, task, tried, succeeded, crashes>>

\* The write of _ensure_seed_task, whatever has happened since its read.
Seed(w) ==
  /\ pc[w] = "seed"
  /\ Upsert(1, "pending", 0)
  /\ Goto(w, "claim")
  /\ UNCHANGED <<task, tried, left, succeeded, crashes>>

\* lease_agent_work_tasks: one BEGIN IMMEDIATE transaction.
Claim(w) ==
  /\ pc[w] = "claim"
  /\ left[w] > 0
  /\ \E s \in Stages :
       /\ IsNextDue(s)
       /\ status' = [status EXCEPT ![s] = "running"]
       /\ lock_age' = [lock_age EXCEPT ![s] = 0]
       /\ locked_by' = [locked_by EXCEPT ![s] = w]
       /\ task' = [task EXCEPT ![w] = s]
       /\ tried' = [tried EXCEPT ![w] = attempt_count[s]]
  /\ left' = [left EXCEPT ![w] = left[w] - 1]
  /\ Goto(w, "run")
  /\ UNCHANGED <<attempt_count, succeeded, crashes>>

\* The loop ends: its budget is spent, or nothing is due.
Leave(w) ==
  /\ pc[w] = "claim"
  /\ left[w] = 0 \/ ~ \E s \in Stages : Due(s)
  /\ Return(w)
  /\ UNCHANGED <<table, succeeded, crashes>>

\* Mutation of Fail: the next task is created whatever became of this one.
FailThenLink(w, blocking) ==
  /\ pc[w] = "run"
  /\ LET n == tried[w] + 1
     IN  Upsert(task[w], StatusAfterFailure(task[w], n, blocking), n)
  /\ IF task[w] = NumStages
       THEN Continue(w)
       ELSE Goto(w, "link") /\ UNCHANGED <<task, tried, left>>
  /\ UNCHANGED <<succeeded, crashes>>

\* run_job_fn raises; the row is written from the copy taken when leased.
Fail(w, blocking) ==
  /\ pc[w] = "run"
  /\ LET n == tried[w] + 1
     IN  Upsert(task[w], StatusAfterFailure(task[w], n, blocking), n)
  /\ IF blocking THEN Return(w) ELSE Continue(w)
  /\ UNCHANGED <<succeeded, crashes>>

\* run_job_fn returns; the row is written from the copy taken when leased.
Finish(w) ==
  /\ pc[w] = "run"
  /\ Upsert(task[w], "done", tried[w])
  /\ succeeded' = succeeded \union {task[w]}
  /\ IF task[w] = NumStages
       THEN Continue(w)
       ELSE Goto(w, "link") /\ UNCHANGED <<task, tried, left>>
  /\ UNCHANGED crashes

\* The read of _task_exists for the next stage's row.
Link(w) ==
  /\ pc[w] = "link"
  /\ IF status[task[w] + 1] = "absent"
       THEN Goto(w, "enqueue") /\ UNCHANGED <<task, tried, left>>
       ELSE Continue(w)
  /\ UNCHANGED <<table, succeeded, crashes>>

\* The upsert of the next stage's row, whatever has happened since the read.
Enqueue(w) ==
  /\ pc[w] = "enqueue"
  /\ Upsert(task[w] + 1, "pending", 0)
  /\ Continue(w)
  /\ UNCHANGED <<succeeded, crashes>>

\* The process dies, or the store raises, between two transactions.
Crash(w) ==
  /\ pc[w] # "idle"
  /\ crashes < MaxCrashes
  /\ crashes' = crashes + 1
  /\ Return(w)
  /\ UNCHANGED <<table, succeeded>>

\* Time passes.
Tick ==
  /\ \E s \in Stages : status[s] = "running" /\ lock_age[s] < Stale
  /\ lock_age' = [s \in Stages |->
       IF status[s] = "running" /\ lock_age[s] < Stale
         THEN lock_age[s] + 1 ELSE lock_age[s]]
  /\ UNCHANGED <<status, attempt_count, locked_by, local, succeeded, crashes>>

-----------------------------------------------------------------------------
Unlocked ==
  /\ attempt_count = [s \in Stages |-> 0]
  /\ lock_age = [s \in Stages |-> 0]
  /\ locked_by = [s \in Stages |-> Nobody]
  /\ pc = [w \in Workers |-> "idle"]
  /\ task = [w \in Workers |-> 0]
  /\ tried = [w \in Workers |-> 0]
  /\ left = [w \in Workers |-> 0]
  /\ succeeded = {}
  /\ crashes = 0

\* A new Mother DB.
Init == Unlocked /\ status = [s \in Stages |-> "absent"]

\* A Mother DB in which some earlier call has written the seed row.
SeededInit ==
  Unlocked /\ status = [s \in Stages |-> IF s = 1 THEN "pending" ELSE "absent"]

Step(w) ==
  \/ Start(w) \/ Seed(w) \/ Claim(w) \/ Leave(w)
  \/ Finish(w) \/ Link(w) \/ Enqueue(w)
  \/ \E blocking \in BOOLEAN : Fail(w, blocking)

Next == Tick \/ \E w \in Workers : Step(w) \/ Crash(w)

Spec == Init /\ [][Next]_vars

\* No job outlives its lease: time stands still while a live worker's lease
\* is about to expire.  Nothing in the code enforces this; it is what the
\* 3600 s of stale_running_seconds are meant to guarantee.
Punctual ==
  \A w \in Workers : pc[w] = "run" => lock_age[task[w]] + 1 < Stale

PunctualNext ==
  \/ Punctual /\ Tick
  \/ \E w \in Workers : Step(w) \/ Crash(w)

\* The queue in the regime it is designed for.
LeaseSpec == SeededInit /\ [][PunctualNext]_vars

\* The agent loop calls every worker's job again and again, jobs return or
\* raise, and time passes.
Fairness ==
  /\ \A w \in Workers : WF_vars(Step(w))
  /\ WF_vars(Punctual /\ Tick)

-----------------------------------------------------------------------------
(* Properties of every behaviour of the queue (Spec).                      *)

\* Columns and workers' memory have their types.
TypeOK ==
  /\ status \in [Stages -> Statuses]
  /\ attempt_count \in [Stages -> Nat]
  /\ lock_age \in [Stages -> 0 .. Stale]
  /\ locked_by \in [Stages -> Workers \union {Nobody}]
  /\ pc \in [Workers -> Points]
  /\ task \in [Workers -> Stages \union {0}]
  /\ tried \in [Workers -> Nat]
  /\ left \in [Workers -> 0 .. MaxTasks]
  /\ succeeded \subseteq Stages
  /\ crashes \in 0 .. MaxCrashes

\* No stage is queued, leased or run before the job of the stage it depends
\* on has succeeded, whatever races, takeovers and crashes there are: the
\* lease query tests the dependency, and only _next_task creates a row.
PredecessorSucceeded ==
  /\ \A s \in Stages : s > 1 /\ status[s] # "absent" => s - 1 \in succeeded
  /\ \A w \in Workers : pc[w] = "run" /\ task[w] > 1 => task[w] - 1 \in succeeded

\* max_attempts is a budget: a row the lease query can grant has some of it
\* left, and "failed" means that all of it is spent, although attempts are
\* counted from the copy a worker took when it leased the row.
AttemptBudget ==
  \A s \in Stages :
    /\ status[s] \in {"pending", "running", "retry", "done"} =>
         attempt_count[s] < MaxAttempts[s]
    /\ status[s] = "failed" => attempt_count[s] = MaxAttempts[s]
    /\ attempt_count[s] <= MaxAttempts[s]

-----------------------------------------------------------------------------
(* Properties of the regime the lease is designed for (LeaseSpec): the     *)
(* chain is seeded, and no job outlives its lease.                         *)

Working(w) == pc[w] \in {"run", "link", "enqueue"}

\* The chain is serial across workers: while one runs a stage, or has still
\* to create the next stage's row, no other runs any stage of the chain.
OneAtATime == \A v, w \in Workers : Working(v) /\ Working(w) => v = w

\* The whole row a worker writes back without looking is the row as it still
\* is, so neither _failed_task_update nor the done row loses an update.
CopyIsCurrent ==
  \A w \in Workers : pc[w] = "run" =>
    /\ status[task[w]] = "running"
    /\ locked_by[task[w]] = w
    /\ attempt_count[task[w]] = tried[w]

\* done, failed and blocked are final: no late write reopens a stage.
SettledIsFinal ==
  [][\A s \in Stages : status[s] \in Settled => status'[s] = status[s]]_vars

\* The queue implements the chain a reader of the table relies on.
Chain == INSTANCE ChainProgress WITH
  done    <- {s \in Stages : status[s] = "done"},
  stopped <- {s \in Stages : status[s] \in {"failed", "blocked"}}
ChainSpec == Chain!Spec

Complete == \A s \in Stages : status[s] = "done"
Stopped  == \E s \in Stages : status[s] \in {"failed", "blocked"}

\* A stage is done, the next one has no row, and nobody is about to write it.
Unlinked ==
  \E s \in Stages :
    /\ s < NumStages /\ status[s] = "done" /\ status[s + 1] = "absent"
    /\ \A w \in Workers : pc[w] \in {"link", "enqueue"} => task[w] # s

\* The chain runs to its end or to a stage that stops it, over failures,
\* retries and crashes, unless a crash hits the gap between the two writes of
\* a finished stage.
ChainEnds == <>(Complete \/ Stopped \/ Unlinked)
=============================================================================
