----------------------- MODULE AgentWorkQueueProofs -----------------------
(***************************************************************************)
(* Proofs about AgentWorkQueue, for every number of workers, stages,       *)
(* attempts and crashes.                                                   *)
(***************************************************************************)
EXTENDS AgentWorkQueue, TLAPS

\* What a worker's memory says about the chain at each point of the loop.
MemoryInv ==
  \A w \in Workers :
    /\ pc[w] \in {"run", "link", "enqueue"} => task[w] \in Stages
    /\ pc[w] = "run" => tried[w] < MaxAttempts[task[w]]
    /\ pc[w] \in {"link", "enqueue"} =>
         task[w] < NumStages /\ task[w] \in succeeded

\* The inductive invariant of Spec.
QueueInv == TypeOK /\ MemoryInv /\ PredecessorSucceeded /\ AttemptBudget

-----------------------------------------------------------------------------
(* Constants.                                                              *)

\* What the assumption says of the constants, without its definitions.
LEMMA Constants ==
  /\ NumStages \in Nat /\ 1 \in Stages
  /\ \A s \in Stages : s \in Nat /\ s > 0 /\ s <= NumStages
  /\ \A s \in Stages : s < NumStages => s + 1 \in Stages
  /\ \A s \in Stages : MaxAttempts[s] \in Nat /\ MaxAttempts[s] > 0
  /\ Stale \in Nat /\ Stale > 0
  /\ MaxTasks \in Nat
  /\ MaxCrashes \in Nat
  BY QueueAssumption DEF QueueAssumption, Stages

\* A failed attempt leaves one of the statuses of the table.
LEMMA FailureStatus ==
  ASSUME NEW s, NEW n, NEW blocking \in BOOLEAN
  PROVE  StatusAfterFailure(s, n, blocking) \in {"blocked", "failed", "retry"}
  BY DEF StatusAfterFailure

-----------------------------------------------------------------------------
(* Types.                                                                  *)

\* A whole row written with values of the right types keeps the table's type.
LEMMA UpsertTypeOK ==
  ASSUME TypeOK, NEW s, NEW st \in Statuses, NEW n \in Nat, Upsert(s, st, n)
  PROVE  /\ status' \in [Stages -> Statuses]
         /\ attempt_count' \in [Stages -> Nat]
         /\ lock_age' \in [Stages -> 0 .. Stale]
         /\ locked_by' \in [Stages -> Workers \union {Nobody}]
  <1>1. 0 \in 0 .. Stale /\ Nobody \in Workers \union {Nobody}
    BY Constants
  <1>2. /\ status' \in [Stages -> Statuses]
        /\ attempt_count' \in [Stages -> Nat]
    BY DEF TypeOK, Upsert
  <1>3. lock_age' \in [Stages -> 0 .. Stale]
    BY <1>1 DEF TypeOK, Upsert
  <1>4. locked_by' \in [Stages -> Workers \union {Nobody}]
    BY <1>1 DEF TypeOK, Upsert
  <1> QED
    BY <1>2, <1>3, <1>4

\* Every column and every worker's memory has its type initially.
LEMMA InitTypeOK == Init \/ SeededInit => TypeOK /\ MemoryInv
  <1> SUFFICES ASSUME Init \/ SeededInit PROVE TypeOK /\ MemoryInv
    OBVIOUS
  <1>1. Unlocked
    BY DEF Init, SeededInit
  <1>2. status \in [Stages -> Statuses]
    BY DEF Init, SeededInit, Statuses
  <1>3. TypeOK
    BY <1>1, <1>2, Constants DEF Unlocked, TypeOK, Points
  <1>4. MemoryInv
    BY <1>1 DEF Unlocked, MemoryInv
  <1> QED
    BY <1>3, <1>4

\* Time passing changes no row but for the age of its lease.
LEMMA TickTypeOK == ASSUME TypeOK, Tick PROVE TypeOK'
  <1>1. lock_age' \in [Stages -> 0 .. Stale]
    BY Constants DEF TypeOK, Tick
  <1> QED
    BY <1>1 DEF TypeOK, Tick, local

\* A step of a worker, or its crash, keeps the types.
LEMMA StepTypeOK ==
  ASSUME TypeOK, MemoryInv, NEW w \in Workers, Step(w) \/ Crash(w)
  PROVE  TypeOK'
  <1>1. CASE Start(w)
    BY <1>1, Constants DEF Start, Goto, TypeOK, Points, table
  <1>2. CASE Seed(w)
    <2>1. "pending" \in Statuses /\ 0 \in Nat
      BY DEF Statuses
    <2> QED
      BY <1>2, <2>1, UpsertTypeOK DEF Seed, Goto, TypeOK, Points
  <1>3. CASE Claim(w)
    BY <1>3, Constants DEF Claim, Goto, TypeOK, Points, Statuses
  <1>4. CASE Leave(w)
    BY <1>4, Constants DEF Leave, Return, Goto, TypeOK, Points, table
  <1>5. CASE Finish(w)
    <2>1. "done" \in Statuses /\ tried[w] \in Nat /\ task[w] \in Stages
      BY <1>5 DEF Statuses, TypeOK, Finish, MemoryInv
    <2>2. /\ pc' \in [Workers -> Points]
          /\ task' \in [Workers -> Stages \union {0}]
          /\ tried' \in [Workers -> Nat]
          /\ left' \in [Workers -> 0 .. MaxTasks]
      BY <1>5 DEF Finish, Continue, Goto, TypeOK, Points
    <2>3. succeeded' \subseteq Stages /\ crashes' \in 0 .. MaxCrashes
      BY <1>5, <2>1 DEF Finish, TypeOK
    <2> QED
      BY <1>5, <2>1, <2>2, <2>3, UpsertTypeOK DEF Finish, TypeOK
  <1>6. CASE Link(w)
    BY <1>6 DEF Link, Continue, Goto, TypeOK, Points, table
  <1>7. CASE Enqueue(w)
    <2>1. "pending" \in Statuses /\ 0 \in Nat
      BY DEF Statuses
    <2> QED
      BY <1>7, <2>1, UpsertTypeOK DEF Enqueue, Continue, Goto, TypeOK, Points
  <1>8. ASSUME NEW blocking \in BOOLEAN, Fail(w, blocking) PROVE TypeOK'
    <2> DEFINE st == StatusAfterFailure(task[w], tried[w] + 1, blocking)
    <2>1. st \in Statuses /\ tried[w] + 1 \in Nat
      BY FailureStatus DEF Statuses, TypeOK
    <2>2. Upsert(task[w], st, tried[w] + 1)
      BY <1>8 DEF Fail
    <2>3. /\ pc' \in [Workers -> Points]
          /\ task' \in [Workers -> Stages \union {0}]
          /\ tried' \in [Workers -> Nat]
          /\ left' \in [Workers -> 0 .. MaxTasks]
      BY <1>8, Constants DEF Fail, Continue, Return, Goto, TypeOK, Points
    <2> QED
      BY <1>8, <2>1, <2>2, <2>3, UpsertTypeOK DEF Fail, TypeOK
  <1>9. CASE Crash(w)
    BY <1>9, Constants DEF Crash, Return, Goto, TypeOK, Points, table
  <1> QED
    BY <1>1, <1>2, <1>3, <1>4, <1>5, <1>6, <1>7, <1>8, <1>9 DEF Step

-----------------------------------------------------------------------------
(* Dependencies and attempts, for every behaviour.                         *)

\* What one write of a whole row does to the columns the invariants read.
LEMMA UpsertColumns ==
  ASSUME TypeOK, NEW s \in Stages, NEW st, NEW n, Upsert(s, st, n)
  PROVE  /\ status'[s] = st /\ attempt_count'[s] = n
         /\ \A r \in Stages \ {s} :
              status'[r] = status[r] /\ attempt_count'[r] = attempt_count[r]
  BY DEF TypeOK, Upsert

\* Steps that write no row keep the part of the invariant about rows, if they
\* keep the set of succeeded stages.
LEMMA QueueInvStep ==
  ASSUME QueueInv, NEW w \in Workers, Step(w) \/ Crash(w)
  PROVE  MemoryInv' /\ PredecessorSucceeded' /\ AttemptBudget'
  <1> USE DEF QueueInv
  <1>1. CASE Start(w)
    BY <1>1 DEF Start, Goto, TypeOK, MemoryInv, PredecessorSucceeded, AttemptBudget, table
  <1>2. CASE Seed(w)
    <2>1. 1 \in Stages /\ MaxAttempts[1] > 0
      BY Constants
    <2>2. /\ status'[1] = "pending" /\ attempt_count'[1] = 0
          /\ \A r \in Stages \ {1} :
               status'[r] = status[r] /\ attempt_count'[r] = attempt_count[r]
      BY <1>2, <2>1, UpsertColumns DEF Seed
    <2>3. MemoryInv'
      BY <1>2 DEF Seed, Goto, TypeOK, MemoryInv
    <2>4. PredecessorSucceeded'
      BY <1>2, <2>2 DEF Seed, Goto, TypeOK, PredecessorSucceeded
    <2>5. AttemptBudget'
      BY <2>1, <2>2, Constants DEF AttemptBudget
    <2> QED
      BY <2>3, <2>4, <2>5
  <1>3. CASE Claim(w)
    <2>1. PICK s \in Stages :
            /\ Due(s)
            /\ status' = [status EXCEPT ![s] = "running"]
            /\ task' = [task EXCEPT ![w] = s]
            /\ tried' = [tried EXCEPT ![w] = attempt_count[s]]
      BY <1>3 DEF Claim, IsNextDue
    <2>2. status[s] \in {"pending", "retry", "running"}
      BY <2>1 DEF Due
    <2>3. attempt_count[s] < MaxAttempts[s]
      BY <2>2 DEF AttemptBudget
    <2>4. MemoryInv'
      BY <1>3, <2>1, <2>3 DEF Claim, Goto, TypeOK, MemoryInv
    <2>5. s > 1 => s - 1 \in succeeded
      BY <2>2 DEF PredecessorSucceeded
    <2>6. PredecessorSucceeded'
      BY <1>3, <2>1, <2>2, <2>5 DEF Claim, Goto, TypeOK, PredecessorSucceeded
    <2>7. AttemptBudget'
      BY <1>3, <2>1, <2>3 DEF Claim, TypeOK, AttemptBudget
    <2> QED
      BY <2>4, <2>6, <2>7
  <1>4. CASE Leave(w)
    BY <1>4
    DEF Leave, Return, Goto, TypeOK, MemoryInv, PredecessorSucceeded, AttemptBudget, table
  <1>5. CASE Finish(w)
    <2>1. task[w] \in Stages /\ tried[w] < MaxAttempts[task[w]] /\ tried[w] \in Nat
      BY <1>5 DEF Finish, MemoryInv, TypeOK
    <2>2. /\ status'[task[w]] = "done" /\ attempt_count'[task[w]] = tried[w]
          /\ \A r \in Stages \ {task[w]} :
               status'[r] = status[r] /\ attempt_count'[r] = attempt_count[r]
      BY <1>5, <2>1, UpsertColumns DEF Finish
    <2>3. task[w] > 1 => task[w] - 1 \in succeeded
      BY <1>5 DEF Finish, PredecessorSucceeded
    <2>4. MemoryInv'
      <3>1. task[w] # NumStages => task[w] < NumStages
        BY <2>1, Constants
      <3>2. /\ succeeded \subseteq succeeded' /\ task[w] \in succeeded'
            /\ \A v \in Workers \ {w} :
                 pc'[v] = pc[v] /\ task'[v] = task[v] /\ tried'[v] = tried[v]
        BY <1>5 DEF Finish, Continue, Goto, TypeOK
      <3>3. \/ pc'[w] = "claim"
            \/ pc'[w] = "link" /\ task'[w] = task[w] /\ task[w] # NumStages
        BY <1>5 DEF Finish, Continue, Goto, TypeOK
      <3> QED
        BY <2>1, <3>1, <3>2, <3>3 DEF MemoryInv
    <2>5. PredecessorSucceeded'
      BY <1>5, <2>2, <2>3 DEF Finish, Continue, Goto, TypeOK, PredecessorSucceeded
    <2>6. AttemptBudget'
      BY <2>1, <2>2, Constants DEF AttemptBudget
    <2> QED
      BY <2>4, <2>5, <2>6
  <1>6. CASE Link(w)
    BY <1>6
    DEF Link, Continue, Goto, TypeOK, MemoryInv, PredecessorSucceeded, AttemptBudget, table
  <1>7. CASE Enqueue(w)
    <2> DEFINE s == task[w] + 1
    <2>1. s \in Stages /\ s - 1 \in succeeded /\ MaxAttempts[s] > 0
      <3>1. task[w] \in Stages /\ task[w] < NumStages /\ task[w] \in succeeded
        BY <1>7 DEF Enqueue, MemoryInv
      <3>2. task[w] \in Nat /\ s \in Stages
        BY <3>1, Constants
      <3>3. s - 1 = task[w]
        BY <3>2
      <3> QED
        BY <3>1, <3>2, <3>3, Constants
    <2>2. /\ status'[s] = "pending" /\ attempt_count'[s] = 0
          /\ \A r \in Stages \ {s} :
               status'[r] = status[r] /\ attempt_count'[r] = attempt_count[r]
      BY <1>7, <2>1, UpsertColumns DEF Enqueue
    <2>3. MemoryInv'
      BY <1>7 DEF Enqueue, Continue, Goto, TypeOK, MemoryInv
    <2>4. PredecessorSucceeded'
      BY <1>7, <2>1, <2>2 DEF Enqueue, Continue, Goto, TypeOK, PredecessorSucceeded
    <2>5. AttemptBudget'
      BY <2>1, <2>2, Constants DEF AttemptBudget
    <2> QED
      BY <2>3, <2>4, <2>5
  <1>8. ASSUME NEW blocking \in BOOLEAN, Fail(w, blocking)
        PROVE  MemoryInv' /\ PredecessorSucceeded' /\ AttemptBudget'
    <2> DEFINE n == tried[w] + 1
               st == StatusAfterFailure(task[w], n, blocking)
    <2>1. /\ task[w] \in Stages /\ n \in Nat /\ n <= MaxAttempts[task[w]]
          /\ MaxAttempts[task[w]] \in Nat
      <3>1. task[w] \in Stages /\ tried[w] < MaxAttempts[task[w]] /\ tried[w] \in Nat
        BY <1>8 DEF Fail, MemoryInv, TypeOK
      <3>2. MaxAttempts[task[w]] \in Nat
        BY <3>1, Constants
      <3> QED
        BY <3>1, <3>2
    <2>2. /\ status'[task[w]] = st /\ attempt_count'[task[w]] = n
          /\ \A r \in Stages \ {task[w]} :
               status'[r] = status[r] /\ attempt_count'[r] = attempt_count[r]
      BY <1>8, <2>1, UpsertColumns DEF Fail
    <2>3. /\ st \in {"blocked", "failed", "retry"}
          /\ st = "retry" => n < MaxAttempts[task[w]]
          /\ st = "failed" => n = MaxAttempts[task[w]]
      BY <2>1 DEF StatusAfterFailure
    <2>4. task[w] > 1 => task[w] - 1 \in succeeded
      BY <1>8 DEF Fail, PredecessorSucceeded
    <2>5. MemoryInv'
      BY <1>8 DEF Fail, Continue, Return, Goto, TypeOK, MemoryInv
    <2>6. PredecessorSucceeded'
      BY <1>8, <2>2, <2>4 DEF Fail, Continue, Return, Goto, TypeOK, PredecessorSucceeded
    <2>7. AttemptBudget'
      BY <2>1, <2>2, <2>3, Constants DEF AttemptBudget
    <2> QED
      BY <2>5, <2>6, <2>7
  <1>9. CASE Crash(w)
    BY <1>9
    DEF Crash, Return, Goto, TypeOK, MemoryInv, PredecessorSucceeded, AttemptBudget, table
  <1> QED
    BY <1>1, <1>2, <1>3, <1>4, <1>5, <1>6, <1>7, <1>8, <1>9 DEF Step

\* The invariant is inductive.
LEMMA QueueInvNext == QueueInv /\ [Next]_vars => QueueInv'
  <1> SUFFICES ASSUME QueueInv, [Next]_vars PROVE QueueInv'
    OBVIOUS
  <1>1. CASE Tick
    <2>1. TypeOK'
      BY <1>1, TickTypeOK DEF QueueInv
    <2> QED
      BY <1>1, <2>1
      DEF Tick, local, QueueInv, MemoryInv, PredecessorSucceeded, AttemptBudget
  <1>2. ASSUME NEW w \in Workers, Step(w) \/ Crash(w) PROVE QueueInv'
    BY <1>2, StepTypeOK, QueueInvStep DEF QueueInv
  <1>3. CASE UNCHANGED vars
    BY <1>3
    DEF vars, table, local, QueueInv, TypeOK, MemoryInv, PredecessorSucceeded, AttemptBudget
  <1> QED
    BY <1>1, <1>2, <1>3 DEF Next

\* A new database satisfies it.
LEMMA QueueInvInit == Init \/ SeededInit => QueueInv
  <1> SUFFICES ASSUME Init \/ SeededInit PROVE QueueInv
    OBVIOUS
  <1>1. PredecessorSucceeded
    BY Constants DEF Init, SeededInit, Unlocked, PredecessorSucceeded
  <1>2. AttemptBudget
    BY Constants DEF Init, SeededInit, Unlocked, AttemptBudget
  <1> QED
    BY <1>1, <1>2, InitTypeOK DEF QueueInv

\* Every behaviour of the queue, races and takeovers included, keeps it.
THEOREM QueueInvariant == Spec => []QueueInv
  <1>1. Init => QueueInv
    BY QueueInvInit
  <1> QED
    BY <1>1, QueueInvNext, PTL DEF Spec

\* No stage is queued or run before the stage it depends on has succeeded.
THEOREM DependencySafety == Spec => []PredecessorSucceeded
  <1>1. QueueInv => PredecessorSucceeded
    BY DEF QueueInv
  <1> QED
    BY <1>1, QueueInvariant, PTL

\* A grantable row has attempts left; "failed" rows have none.
THEOREM AttemptSafety == Spec => []AttemptBudget
  <1>1. QueueInv => AttemptBudget
    BY DEF QueueInv
  <1> QED
    BY <1>1, QueueInvariant, PTL

-----------------------------------------------------------------------------
(* The regime the lease is designed for.                                   *)

\* Everything before a stage that has a row is done.
Frontier ==
  \A s \in Stages : status[s] # "absent" =>
    \A r \in Stages : r < s => status[r] = "done"

\* A finished stage's successor has no row until the finisher writes it.
LinkInv ==
  \A w \in Workers : pc[w] \in {"link", "enqueue"} =>
    status[task[w]] = "done" /\ status[task[w] + 1] = "absent"

\* A live worker's lease cannot be taken over.
FreshLease == \A w \in Workers : pc[w] = "run" => lock_age[task[w]] < Stale

\* The chain has its seed row, so nobody writes it again.
IsSeeded == status[1] # "absent" /\ \A w \in Workers : pc[w] # "seed"

\* The inductive invariant of LeaseSpec, above the one of Spec.
LeaseInv ==
  IsSeeded /\ Frontier /\ CopyIsCurrent /\ LinkInv /\ FreshLease /\ OneAtATime

\* When a row is due, no worker is at work on any stage of the chain.
LEMMA DueMeansQuiet ==
  ASSUME QueueInv, LeaseInv, NEW s \in Stages, Due(s), NEW v \in Workers
  PROVE  ~Working(v)
  <1>1. /\ status[s] \in {"pending", "retry", "running"}
        /\ status[s] = "running" => ~(lock_age[s] < Stale)
    <2>1. lock_age[s] \in Nat /\ Stale \in Nat
      BY Constants DEF QueueInv, TypeOK
    <2> QED
      BY <2>1 DEF Due
  <1>2. ASSUME pc[v] = "run" PROVE FALSE
    <2>1. task[v] \in Stages /\ status[task[v]] = "running" /\ lock_age[task[v]] < Stale
      BY <1>2 DEF QueueInv, MemoryInv, LeaseInv, CopyIsCurrent, FreshLease
    <2>2. task[v] # s
      BY <1>1, <2>1
    <2>3. task[v] < s \/ s < task[v]
      BY <2>1, <2>2, Constants
    <2> QED
      BY <1>1, <2>1, <2>3 DEF LeaseInv, Frontier
  <1>3. ASSUME pc[v] \in {"link", "enqueue"} PROVE FALSE
    <2> DEFINE t == task[v]
    <2>1. /\ t \in Stages /\ t < NumStages
          /\ status[t] = "done" /\ status[t + 1] = "absent"
      BY <1>3 DEF QueueInv, MemoryInv, LeaseInv, LinkInv
    <2>2. t + 1 \in Stages
      BY <2>1, Constants
    <2>3. s < t \/ s = t \/ s = t + 1 \/ t + 1 < s
      BY <2>1, Constants
    <2> QED
      BY <1>1, <2>1, <2>2, <2>3 DEF LeaseInv, Frontier
  <1> QED
    BY <1>2, <1>3 DEF Working

\* While w is at work nobody else is, and it stays so if the others stay put.
LEMMA OthersQuiet ==
  ASSUME LeaseInv, NEW w \in Workers, Working(w),
         \A v \in Workers \ {w} : pc'[v] = pc[v]
  PROVE  \A v \in Workers \ {w} : pc'[v] \notin {"run", "link", "enqueue"}
  BY DEF LeaseInv, OneAtATime, Working

\* If nobody but w may be at work afterwards, the invariants about workers
\* need only be shown of w.
LEMMA OnlyOne ==
  ASSUME NEW w \in Workers,
         \A v \in Workers \ {w} : pc'[v] \notin {"seed", "run", "link", "enqueue"},
         pc'[w] # "seed", status'[1] # "absent",
         pc'[w] = "run" =>
           /\ status'[task'[w]] = "running" /\ locked_by'[task'[w]] = w
           /\ attempt_count'[task'[w]] = tried'[w] /\ lock_age'[task'[w]] < Stale,
         pc'[w] \in {"link", "enqueue"} =>
           status'[task'[w]] = "done" /\ status'[task'[w] + 1] = "absent"
  PROVE  (IsSeeded /\ CopyIsCurrent /\ LinkInv /\ FreshLease /\ OneAtATime)'
  <1>1. IsSeeded'
    BY DEF IsSeeded
  <1>2. CopyIsCurrent' /\ FreshLease'
    BY DEF CopyIsCurrent, FreshLease
  <1>3. LinkInv'
    BY DEF LinkInv
  <1>4. OneAtATime'
    BY DEF OneAtATime, Working
  <1> QED
    BY <1>1, <1>2, <1>3, <1>4

\* The ways a step of the regime changes a row: a live row is leased, retried
\* or settled, or the successor of a done row appears.
RowChange(s, st) ==
  /\ status' = [status EXCEPT ![s] = st]
  /\ \/ /\ status[s] \in {"pending", "retry", "running"}
        /\ st \in {"running", "retry", "done", "failed", "blocked"}
     \/ /\ status[s] = "absent" /\ st = "pending"
        /\ s > 1 /\ status[s - 1] = "done"

\* A step of a worker changes one row in one of these ways, or none, and keeps
\* the invariants about workers.
LEMMA LeaseStep ==
  ASSUME QueueInv, LeaseInv, NEW w \in Workers, Step(w) \/ Crash(w)
  PROVE  /\ \/ UNCHANGED status
            \/ \E s \in Stages, st \in Statuses : RowChange(s, st)
         /\ (IsSeeded /\ CopyIsCurrent /\ LinkInv /\ FreshLease /\ OneAtATime)'
  <1> USE DEF QueueInv
  <1> DEFINE Rows == \/ UNCHANGED status
                     \/ \E s \in Stages, st \in Statuses : RowChange(s, st)
             Local == IsSeeded /\ CopyIsCurrent /\ LinkInv /\ FreshLease /\ OneAtATime
  <1>0. /\ status[1] # "absent" /\ \A v \in Workers : pc[v] # "seed"
        /\ 1 \in Stages
    BY Constants DEF LeaseInv, IsSeeded
  <1>1. CASE Start(w)
    <2>1. UNCHANGED table /\ pc'[w] = "claim" /\ UNCHANGED <<task, tried>>
          /\ \A v \in Workers \ {w} : pc'[v] = pc[v]
      BY <1>0, <1>1 DEF Start, Goto, TypeOK
    <2>2. Local'
      BY <2>1 DEF table, LeaseInv, IsSeeded, CopyIsCurrent, LinkInv, FreshLease,
                  OneAtATime, Working
    <2> QED
      BY <2>1, <2>2 DEF table
  <1>2. CASE Seed(w)
    BY <1>0, <1>2 DEF Seed
  <1>3. CASE Claim(w)
    <2>1. PICK s \in Stages :
            /\ Due(s)
            /\ status' = [status EXCEPT ![s] = "running"]
            /\ lock_age' = [lock_age EXCEPT ![s] = 0]
            /\ locked_by' = [locked_by EXCEPT ![s] = w]
            /\ task' = [task EXCEPT ![w] = s]
            /\ tried' = [tried EXCEPT ![w] = attempt_count[s]]
      BY <1>3 DEF Claim, IsNextDue
    <2>2. RowChange(s, "running") /\ "running" \in Statuses
      BY <2>1 DEF RowChange, Due, Statuses
    <2>3. \A v \in Workers : ~Working(v)
      BY <2>1, DueMeansQuiet
    <2>4. \A v \in Workers \ {w} : pc'[v] \notin {"seed", "run", "link", "enqueue"}
      BY <1>0, <1>3, <2>3 DEF Claim, Goto, TypeOK, Working
    <2>5. /\ pc'[w] = "run" /\ task'[w] = s /\ tried'[w] = attempt_count[s]
          /\ status'[s] = "running" /\ locked_by'[s] = w
          /\ attempt_count'[s] = attempt_count[s] /\ lock_age'[s] = 0
          /\ status'[1] # "absent" /\ 0 < Stale
      BY <1>0, <1>3, <2>1, Constants DEF Claim, Goto, TypeOK
    <2>6. Local'
      BY <2>4, <2>5, OnlyOne
    <2> QED
      BY <2>2, <2>6
  <1>4. CASE Leave(w) \/ Crash(w)
    <2>1. UNCHANGED table /\ pc'[w] = "idle"
          /\ \A v \in Workers \ {w} :
               pc'[v] = pc[v] /\ task'[v] = task[v] /\ tried'[v] = tried[v]
      BY <1>4 DEF Leave, Crash, Return, Goto, TypeOK
    <2>2. Local'
      BY <2>1 DEF table, LeaseInv, IsSeeded, CopyIsCurrent, LinkInv, FreshLease,
                  OneAtATime, Working
    <2> QED
      BY <2>1, <2>2 DEF table
  <1>5. CASE Finish(w)
    <2> DEFINE s == task[w]
    <2>1. pc[w] = "run" /\ s \in Stages /\ status[s] = "running"
      BY <1>5 DEF Finish, MemoryInv, LeaseInv, CopyIsCurrent
    <2>2. status' = [status EXCEPT ![s] = "done"]
      BY <1>5 DEF Finish, Upsert
    <2>3. RowChange(s, "done") /\ "done" \in Statuses
      BY <2>1, <2>2 DEF RowChange, Statuses
    <2>4. \A v \in Workers \ {w} : pc'[v] \notin {"seed", "run", "link", "enqueue"}
      <3>1. \A v \in Workers \ {w} : pc'[v] = pc[v]
        BY <1>5 DEF Finish, Continue, Goto, TypeOK
      <3> QED
        BY <1>0, <2>1, <3>1, OthersQuiet DEF Working
    <2>5. status'[1] # "absent"
      BY <1>0, <2>2 DEF TypeOK
    <2>6. CASE s = NumStages
      <3>1. pc'[w] = "claim"
        BY <1>5, <2>6 DEF Finish, Continue, Goto, TypeOK
      <3> QED
        BY <2>1, <2>3, <2>4, <2>5, <3>1, OnlyOne
    <2>7. CASE s # NumStages
      <3>1. pc'[w] = "link" /\ task'[w] = s
        BY <1>5, <2>7 DEF Finish, Goto, TypeOK
      <3>2. s + 1 \in Stages /\ s < s + 1 /\ s + 1 # s
        BY <2>1, <2>7, Constants
      <3>3. status[s + 1] = "absent"
        BY <2>1, <3>2 DEF LeaseInv, Frontier
      <3>4. status'[s] = "done" /\ status'[s + 1] = "absent"
        BY <2>1, <2>2, <3>2, <3>3 DEF TypeOK
      <3> QED
        BY <2>1, <2>3, <2>4, <2>5, <3>1, <3>4, OnlyOne
    <2> QED
      BY <2>6, <2>7
  <1>6. CASE Link(w)
    <2>1. /\ UNCHANGED table /\ Working(w) /\ pc[w] = "link"
          /\ \A v \in Workers \ {w} : pc'[v] = pc[v]
          /\ pc'[w] = "claim" \/ (pc'[w] = "enqueue" /\ task'[w] = task[w])
      <3>1. UNCHANGED table /\ pc[w] = "link" /\ Working(w)
        BY <1>6 DEF Link, Working
      <3>2. CASE status[task[w] + 1] = "absent"
        BY <1>6, <3>1, <3>2 DEF Link, Goto, TypeOK
      <3>3. CASE status[task[w] + 1] # "absent"
        BY <1>6, <3>1, <3>3 DEF Link, Continue, Goto, TypeOK
      <3> QED
        BY <3>2, <3>3
    <2>2. status[task[w]] = "done" /\ status[task[w] + 1] = "absent"
      BY <2>1 DEF LeaseInv, LinkInv
    <2>3. \A v \in Workers \ {w} : pc'[v] \notin {"seed", "run", "link", "enqueue"}
      BY <1>0, <2>1, OthersQuiet
    <2> QED
      BY <1>0, <2>1, <2>2, <2>3, OnlyOne DEF table
  <1>7. CASE Enqueue(w)
    <2> DEFINE s == task[w] + 1
    <2>1. /\ task[w] \in Stages /\ task[w] < NumStages
          /\ status[task[w]] = "done" /\ status[s] = "absent"
      BY <1>7 DEF Enqueue, MemoryInv, LeaseInv, LinkInv
    <2>2. s \in Stages /\ s > 1 /\ s - 1 = task[w]
      BY <2>1, Constants
    <2>3. status' = [status EXCEPT ![s] = "pending"]
      BY <1>7 DEF Enqueue, Upsert
    <2>4. RowChange(s, "pending") /\ "pending" \in Statuses
      BY <2>1, <2>2, <2>3 DEF RowChange, Statuses
    <2>5. /\ pc'[w] = "claim" /\ Working(w)
          /\ \A v \in Workers \ {w} : pc'[v] = pc[v]
      BY <1>7 DEF Enqueue, Continue, Goto, TypeOK, Working
    <2>6. \A v \in Workers \ {w} : pc'[v] \notin {"seed", "run", "link", "enqueue"}
      BY <1>0, <2>5, OthersQuiet
    <2>7. status'[1] # "absent"
      BY <1>0, <2>3 DEF TypeOK
    <2> QED
      BY <2>2, <2>4, <2>5, <2>6, <2>7, OnlyOne
  <1>8. ASSUME NEW blocking \in BOOLEAN, Fail(w, blocking) PROVE Rows /\ Local'
    <2> DEFINE s == task[w]
               st == StatusAfterFailure(s, tried[w] + 1, blocking)
    <2>1. Working(w) /\ s \in Stages /\ status[s] = "running"
      BY <1>8 DEF Fail, MemoryInv, LeaseInv, CopyIsCurrent, Working
    <2>2. status' = [status EXCEPT ![s] = st]
      BY <1>8 DEF Fail, Upsert
    <2>3. st \in {"blocked", "failed", "retry"}
      BY FailureStatus
    <2>4. RowChange(s, st) /\ st \in Statuses
      BY <2>1, <2>2, <2>3 DEF RowChange, Statuses
    <2>5. /\ pc'[w] \in {"idle", "claim"}
          /\ \A v \in Workers \ {w} : pc'[v] = pc[v]
      BY <1>8 DEF Fail, Continue, Return, Goto, TypeOK
    <2>6. \A v \in Workers \ {w} : pc'[v] \notin {"seed", "run", "link", "enqueue"}
      BY <1>0, <2>1, <2>5, OthersQuiet
    <2>7. status'[1] # "absent"
      BY <1>0, <2>2, <2>3 DEF TypeOK
    <2>8. Local'
      BY <2>5, <2>6, <2>7, OnlyOne
    <2> QED
      BY <2>1, <2>4, <2>8
  <1> QED
    BY <1>1, <1>2, <1>3, <1>4, <1>5, <1>6, <1>7, <1>8 DEF Step

\* Such a change keeps the shape of the chain and never reopens a stage.
LEMMA RowChangeKeepsFrontier ==
  ASSUME QueueInv, LeaseInv, NEW s \in Stages, NEW st \in Statuses, RowChange(s, st)
  PROVE  /\ Frontier'
         /\ \A r \in Stages : status[r] \in Settled => status'[r] = status[r]
  <1>1. /\ status'[s] = st /\ status[s] \notin Settled /\ st # "absent"
        /\ \A r \in Stages \ {s} : status'[r] = status[r]
    BY DEF QueueInv, TypeOK, RowChange, Settled
  <1>2. \A r \in Stages : r < s => status[r] = "done"
    <2>1. CASE status[s] # "absent"
      BY <2>1 DEF LeaseInv, Frontier
    <2>2. CASE status[s] = "absent"
      <3>1. s > 1 /\ status[s - 1] = "done" /\ s - 1 \in Stages
        <4>1. s > 1 /\ status[s - 1] = "done"
          BY <2>2 DEF RowChange
        <4> QED
          BY <4>1, QueueAssumption DEF QueueAssumption, Stages
      <3>2. \A r \in Stages : r < s - 1 => status[r] = "done"
        BY <3>1 DEF LeaseInv, Frontier
      <3>3. \A r \in Stages : r < s => r < s - 1 \/ r = s - 1
        BY Constants
      <3> QED
        BY <3>1, <3>2, <3>3
    <2> QED
      BY <2>1, <2>2
  <1>3. \A r \in Stages : s < r => status[r] = "absent"
    BY <1>1 DEF LeaseInv, Frontier, Settled
  <1>4. \A r \in Stages : ~(r < r) /\ (r < s \/ r = s \/ s < r)
    BY Constants
  <1>5. Frontier'
    BY <1>1, <1>2, <1>3, <1>4, Constants DEF Frontier
  <1> QED
    BY <1>1, <1>5

\* The invariant is inductive in the regime of the lease.
LEMMA LeaseInvNext == QueueInv /\ LeaseInv /\ [PunctualNext]_vars => LeaseInv'
  <1> SUFFICES ASSUME QueueInv, LeaseInv, [PunctualNext]_vars PROVE LeaseInv'
    OBVIOUS
  <1>1. CASE Punctual /\ Tick
    <2>1. UNCHANGED <<status, attempt_count, locked_by, pc, task, tried>>
      BY <1>1 DEF Tick, local
    <2>2. FreshLease'
      <3> SUFFICES ASSUME NEW w \in Workers, pc[w] = "run"
                   PROVE  lock_age'[task[w]] < Stale
        BY <2>1 DEF FreshLease
      <3>1. /\ task[w] \in Stages /\ lock_age[task[w]] + 1 < Stale
            /\ lock_age[task[w]] \in Nat /\ Stale \in Nat
        BY <1>1, Constants DEF Punctual, QueueInv, MemoryInv, TypeOK
      <3>2. lock_age'[task[w]] \in {lock_age[task[w]], lock_age[task[w]] + 1}
        BY <1>1, <3>1 DEF Tick
      <3> QED
        BY <3>1, <3>2
    <2> QED
      BY <2>1, <2>2
      DEF LeaseInv, IsSeeded, Frontier, CopyIsCurrent, LinkInv, OneAtATime, Working
  <1>2. ASSUME NEW w \in Workers, Step(w) \/ Crash(w) PROVE LeaseInv'
    <2>1. /\ \/ UNCHANGED status
             \/ \E s \in Stages, st \in Statuses : RowChange(s, st)
          /\ (IsSeeded /\ CopyIsCurrent /\ LinkInv /\ FreshLease /\ OneAtATime)'
      BY <1>2, LeaseStep
    <2>2. CASE UNCHANGED status
      BY <2>1, <2>2 DEF LeaseInv, Frontier
    <2>3. CASE \E s \in Stages, st \in Statuses : RowChange(s, st)
      BY <2>1, <2>3, RowChangeKeepsFrontier DEF LeaseInv
    <2> QED
      BY <2>1, <2>2, <2>3
  <1>3. CASE UNCHANGED vars
    BY <1>3
    DEF vars, table, local, LeaseInv, IsSeeded, Frontier, CopyIsCurrent, LinkInv,
        FreshLease, OneAtATime, Working
  <1> QED
    BY <1>1, <1>2, <1>3 DEF PunctualNext

\* A seeded database satisfies it.
LEMMA LeaseInvInit == SeededInit => LeaseInv
  BY Constants
  DEF SeededInit, Unlocked, LeaseInv, IsSeeded, Frontier, CopyIsCurrent, LinkInv,
      FreshLease, OneAtATime, Working

\* A step of the regime is a step of the queue.
LEMMA PunctualStep == [PunctualNext]_vars => [Next]_vars
  BY DEF PunctualNext, Next

\* Both invariants hold in the regime.
THEOREM LeaseInvariant == LeaseSpec => [](QueueInv /\ LeaseInv)
  <1>1. SeededInit => QueueInv /\ LeaseInv
    BY QueueInvInit, LeaseInvInit
  <1>2. QueueInv /\ LeaseInv /\ [PunctualNext]_vars => (QueueInv /\ LeaseInv)'
    BY QueueInvNext, LeaseInvNext, PunctualStep
  <1> QED
    BY <1>1, <1>2, PTL DEF LeaseSpec

\* The stages of the chain are worked on one at a time.
THEOREM Serial == LeaseSpec => []OneAtATime
  <1>1. LeaseInv => OneAtATime
    BY DEF LeaseInv
  <1> QED
    BY <1>1, LeaseInvariant, PTL

\* The copy a worker writes back is the row.
THEOREM NoLostUpdate == LeaseSpec => []CopyIsCurrent
  <1>1. LeaseInv => CopyIsCurrent
    BY DEF LeaseInv
  <1> QED
    BY <1>1, LeaseInvariant, PTL

\* A settled row stays as it is.
THEOREM Finality == LeaseSpec => SettledIsFinal
  <1> DEFINE Final == \A s \in Stages : status[s] \in Settled => status'[s] = status[s]
  <1>1. QueueInv /\ LeaseInv /\ [PunctualNext]_vars => [Final]_vars
    <2> SUFFICES ASSUME QueueInv, LeaseInv, PunctualNext PROVE Final
      OBVIOUS
    <2>1. CASE Punctual /\ Tick
      BY <2>1 DEF Tick
    <2>2. ASSUME NEW w \in Workers, Step(w) \/ Crash(w) PROVE Final
      BY <2>2, LeaseStep, RowChangeKeepsFrontier
    <2> QED
      BY <2>1, <2>2 DEF PunctualNext
  <1> QED
    BY <1>1, LeaseInvariant, PTL DEF LeaseSpec, SettledIsFinal

-----------------------------------------------------------------------------
(* The queue implements ChainProgress.                                     *)

DoneRows    == {s \in Stages : status[s] = "done"}
StoppedRows == {s \in Stages : status[s] \in {"failed", "blocked"}}

\* A change of a row completes the current stage, stops the chain there, or
\* is invisible to a reader of the chain.
LEMMA RowChangeRefines ==
  ASSUME QueueInv, LeaseInv, NEW s \in Stages, NEW st \in Statuses, RowChange(s, st)
  PROVE  Chain!Next \/ (DoneRows' = DoneRows /\ StoppedRows' = StoppedRows)
  <1>1. /\ status'[s] = st /\ status[s] \notin Settled
        /\ \A r \in Stages \ {s} : status'[r] = status[r]
    BY DEF QueueInv, TypeOK, RowChange, Settled
  <1>2. CASE st \notin Settled
    BY <1>1, <1>2 DEF DoneRows, StoppedRows, Settled
  <1>3. CASE st \in Settled
    <2>1. status[s] # "absent"
      BY <1>3 DEF RowChange, Settled
    <2>2. \A r \in Stages : r < s => status[r] = "done"
      BY <2>1 DEF LeaseInv, Frontier
    <2>3. \A r \in Stages : s < r => status[r] = "absent"
      BY <1>1 DEF LeaseInv, Frontier, Settled
    <2>4. \A r \in Stages : r < s \/ r = s \/ s < r
      BY Constants
    <2>5. StoppedRows = {}
      BY <1>1, <2>2, <2>3, <2>4 DEF StoppedRows, Settled
    <2>6. s \in 1 .. NumStages /\ \A r \in 1 .. s - 1 : r \in Stages /\ r < s
      BY QueueAssumption DEF QueueAssumption, Stages
    <2>7. Chain!IsNext(s)
      BY <1>1, <2>2, <2>5, <2>6 DEF Chain!IsNext, StoppedRows, Settled
    <2>8. CASE st = "done"
      <3>1. DoneRows' = DoneRows \union {s} /\ StoppedRows' = StoppedRows
        BY <1>1, <2>8 DEF DoneRows, StoppedRows, Settled
      <3>2. Chain!Complete(s)
        BY <2>7, <3>1 DEF Chain!Complete, DoneRows, StoppedRows
      <3> QED
        BY <2>6, <3>2 DEF Chain!Next
    <2>9. CASE st \in {"failed", "blocked"}
      <3>1. StoppedRows' = {s} /\ DoneRows' = DoneRows
        <4>1. StoppedRows' = StoppedRows \union {s} /\ DoneRows' = DoneRows
          BY <1>1, <2>9 DEF DoneRows, StoppedRows, Settled
        <4> QED
          BY <2>5, <4>1
      <3>2. Chain!Stop(s)
        BY <2>7, <3>1 DEF Chain!Stop, DoneRows, StoppedRows
      <3> QED
        BY <2>6, <3>2 DEF Chain!Next
    <2> QED
      BY <1>3, <2>8, <2>9 DEF Settled
  <1> QED
    BY <1>2, <1>3

\* Every behaviour of the regime is a behaviour of the abstract chain.
THEOREM Refinement == LeaseSpec => ChainSpec
  <1>1. SeededInit => Chain!Init
    BY DEF SeededInit, Unlocked, Chain!Init
  <1>2. QueueInv /\ LeaseInv /\ [PunctualNext]_vars
          => [Chain!Next]_<<DoneRows, StoppedRows>>
    <2> SUFFICES ASSUME QueueInv, LeaseInv, [PunctualNext]_vars
                 PROVE  Chain!Next \/ (DoneRows' = DoneRows /\ StoppedRows' = StoppedRows)
      OBVIOUS
    <2>1. CASE UNCHANGED status
      BY <2>1 DEF DoneRows, StoppedRows
    <2>2. CASE Punctual /\ Tick
      BY <2>2 DEF Tick, DoneRows, StoppedRows
    <2>3. ASSUME NEW w \in Workers, Step(w) \/ Crash(w)
          PROVE  Chain!Next \/ (DoneRows' = DoneRows /\ StoppedRows' = StoppedRows)
      BY <2>1, <2>3, LeaseStep, RowChangeRefines
    <2> QED
      BY <2>1, <2>2, <2>3 DEF PunctualNext, vars, table
  <1>3. QueueInv /\ LeaseInv /\ [PunctualNext]_vars
          => [Chain!Next]_<<{s \in Stages : status[s] = "done"},
                            {s \in Stages : status[s] \in {"failed", "blocked"}}>>
    BY <1>2 DEF DoneRows, StoppedRows
  <1> QED
    BY <1>1, <1>3, LeaseInvariant, PTL DEF LeaseSpec, ChainSpec, Chain!Spec
=============================================================================
