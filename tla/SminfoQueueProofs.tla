-------------------------- MODULE SminfoQueueProofs --------------------------
(***************************************************************************)
(* Proofs about the queue of SMINFO: SminfoQueue for every number of       *)
(* companies, processes, attempts, crawls and crashes, then the rows that  *)
(* the crawl and the enrichment of CandidateDetail write, and the rounds   *)
(* they tell, for any companies, pages and tabs.                           *)
(***************************************************************************)
EXTENDS SminfoQueue, CandidateDetail,
        FiniteSetTheorems, NaturalsInduction, WellFoundedInduction, TLAPS

Processes == Enrichers \union Crawlers
EnricherPoints == {"idle", "lookup", "store", "settle", "publish"}
CrawlerPoints  == {"idle", "enqueue", "announce"}

\* The types the proofs need.  (That times are natural numbers is not among
\* them: the prover knows nothing of powers of two.)
Types ==
  /\ status \in [Tasks -> Statuses] /\ attempts \in [Tasks -> Nat]
  /\ lock_age \in [Tasks -> Nat]
  /\ sheet \in [Tasks -> Statuses]
  /\ profiles \in [Tasks -> [Ids -> Results \union {"absent"}]]
  /\ pc \in [Processes -> EnricherPoints \union CrawlerPoints]
  /\ batch \in [Enrichers -> SUBSET Tasks]
  /\ copy \in [Enrichers -> [Tasks -> Nat]]
  /\ result \in [Enrichers -> [Tasks -> Results]]
  /\ plan \in [Crawlers -> SUBSET Tasks]

\* Each kind of process is at its own points.
PointsInv ==
  /\ \A w \in Enrichers : pc[w] \in EnricherPoints
  /\ \A c \in Crawlers : pc[c] \in CrawlerPoints

\* There is a profile under the id of an answer.
Stored(rows_of, t, r) == rows_of[t][IdOf(r)] # "absent"

\* No answer is shown, by the queue or by the sheet, without one under its id.
ShownInv ==
  \A t \in Tasks : \A s \in {status[t], sheet[t]} :
    s \in Answers => Stored(profiles, t, s)

\* A leased copy has an attempt left, and what is about to be written to the
\* queue or the sheet has a profile under its id.
BatchInv ==
  \A w \in Enrichers : \A t \in batch[w] :
    /\ Holds(w) => copy[w][t] < MaxAttempts
    /\ pc[w] \in {"settle", "publish"} => Stored(profiles, t, result[w][t])

\* The inductive invariant of Spec.
RowInv == Types /\ PointsInv /\ BatchInv /\ AttemptBudget /\ ShownInv

-----------------------------------------------------------------------------
\* What the assumption says of the constants, without its definitions.
LEMMA Constants ==
  /\ MaxAttempts \in Nat /\ MaxAttempts > 0
  /\ Stale \in Nat /\ Stale > 0
  /\ \A s \in Answers : s \notin {"absent", "failed", "error"} \union Queued
  /\ \A w \in Enrichers : w \notin Crawlers
  BY SminfoAssumption DEF SminfoAssumption

\* A result is not the mark of a row that is not there.
LEMMA ResultsAreResults == \A r \in Results : r # "absent"
  BY Constants DEF Results

\* What a lookup makes of its row: the answer, or a retry with an attempt
\* left, or failure with all of them spent.
LEMMA Outcome ==
  ASSUME NEW r \in Results, NEW n \in Nat, n <= MaxAttempts
  PROVE  /\ StatusAfter(r, n) \in Statuses
         /\ StatusAfter(r, n) \in Answers => StatusAfter(r, n) = r
         /\ StatusAfter(r, n) \in Queued => StatusAfter(r, n) = "retry" /\ n < MaxAttempts
         /\ StatusAfter(r, n) = "failed" => n = MaxAttempts
  BY Constants DEF StatusAfter, Results, Statuses, Queued

\* A process that forgets is idle and keeps nothing; nobody else is touched.
LEMMA Forgotten ==
  ASSUME Types, NEW p \in Processes, Forget(p)
  PROVE  /\ pc' = [pc EXCEPT ![p] = "idle"]
         /\ batch' \in [Enrichers -> SUBSET Tasks]
         /\ copy' \in [Enrichers -> [Tasks -> Nat]]
         /\ result' \in [Enrichers -> [Tasks -> Results]]
         /\ plan' \in [Crawlers -> SUBSET Tasks]
         /\ pc' \in [Processes -> EnricherPoints \union CrawlerPoints]
         /\ \A w \in Enrichers : w # p =>
              batch'[w] = batch[w] /\ copy'[w] = copy[w] /\ result'[w] = result[w]
         /\ \A c \in Crawlers : c # p => plan'[c] = plan[c]
  <1>1. "error" \in Results
    BY DEF Results
  <1>2. pc' = [pc EXCEPT ![p] = "idle"]
        /\ pc' \in [Processes -> EnricherPoints \union CrawlerPoints]
    BY DEF Forget, Goto, Types, EnricherPoints, CrawlerPoints
  <1>3. CASE p \in Enrichers
    <2>1. /\ batch' = [batch EXCEPT ![p] = {}]
          /\ copy' = [copy EXCEPT ![p] = [t \in Tasks |-> 0]]
          /\ result' = [result EXCEPT ![p] = [t \in Tasks |-> "error"]]
          /\ plan' = plan
      BY <1>3 DEF Forget
    <2>2. batch' \in [Enrichers -> SUBSET Tasks] /\ plan' \in [Crawlers -> SUBSET Tasks]
      BY <2>1 DEF Types
    <2>3. copy' \in [Enrichers -> [Tasks -> Nat]]
      BY <2>1 DEF Types
    <2>4. result' \in [Enrichers -> [Tasks -> Results]]
      BY <1>1, <2>1 DEF Types
    <2>5. \A w \in Enrichers : w # p =>
            batch'[w] = batch[w] /\ copy'[w] = copy[w] /\ result'[w] = result[w]
      BY <2>1 DEF Types
    <2> QED
      BY <1>2, <2>1, <2>2, <2>3, <2>4, <2>5
  <1>4. CASE p \notin Enrichers
    BY <1>2, <1>4 DEF Forget, Types, Processes
  <1> QED
    BY <1>3, <1>4

\* It has no batch any more that BatchInv speaks of.
LEMMA ForgetInv ==
  ASSUME Types, PointsInv, BatchInv, NEW p \in Processes, Forget(p), UNCHANGED profiles
  PROVE  PointsInv' /\ BatchInv'
  <1> USE Forgotten
  <1>1. PointsInv'
    BY ZenonT(60) DEF PointsInv, Types, EnricherPoints, CrawlerPoints, Processes
  <1>2. ASSUME NEW w \in Enrichers, NEW t \in batch'[w]
        PROVE  /\ Holds(w)' => copy'[w][t] < MaxAttempts
               /\ pc'[w] \in {"settle", "publish"} => Stored(profiles', t, result'[w][t])
    <2>1. CASE w = p
      BY <1>2, <2>1 DEF Holds, Types
    <2>2. CASE w # p
      BY <1>2, <2>2 DEF Holds, Types, BatchInv, Processes
    <2> QED
      BY <2>1, <2>2
  <1> QED
    BY <1>1, <1>2 DEF BatchInv

-----------------------------------------------------------------------------
(* Every behaviour (Spec): one lemma per action.                           *)

\* The invariant holds at the start: nothing is queued and nobody works.
LEMMA InitRowInv == Init => RowInv
  <1> SUFFICES ASSUME Init PROVE RowInv
    OBVIOUS
  <1>1. "absent" \in Statuses /\ "error" \in Results
    BY DEF Statuses, Results
  <1>2. Types /\ PointsInv
    BY <1>1 DEF Init, Types, PointsInv, Processes, EnricherPoints, CrawlerPoints
  <1>3. BatchInv
    BY DEF Init, BatchInv
  <1>4. AttemptBudget /\ ShownInv
    BY Constants DEF Init, AttemptBudget, ShownInv, Queued
  <1> QED
    BY <1>2, <1>3, <1>4 DEF RowInv

\* Time passing touches no row and no memory that the invariant speaks of.
LEMMA TickRowInv == ASSUME RowInv, Tick PROVE RowInv'
  <1>1. Types'
    BY DEF RowInv, Types, Tick, memory
  <1>2. PointsInv' /\ BatchInv'
    BY DEF RowInv, PointsInv, BatchInv, Holds, Tick, memory
  <1>3. AttemptBudget' /\ ShownInv'
    BY DEF RowInv, AttemptBudget, ShownInv, Tick
  <1> QED
    BY <1>1, <1>2, <1>3 DEF RowInv

\* A dead process leaves rows, profiles and sheet as they are.
LEMMA CrashRowInv == ASSUME RowInv, NEW p \in Processes, Crash(p) PROVE RowInv'
  <1>1. Types'
    BY Forgotten DEF RowInv, Types, Crash, rows
  <1>2. PointsInv' /\ BatchInv'
    BY ForgetInv DEF RowInv, Crash
  <1>3. AttemptBudget' /\ ShownInv'
    BY DEF RowInv, AttemptBudget, ShownInv, Crash, rows
  <1> QED
    BY <1>1, <1>2, <1>3 DEF RowInv

\* A crawl only plans.
LEMMA CrawlRowInv ==
  ASSUME RowInv, NEW c \in Crawlers, CrawlSome(c) PROVE RowInv'
  <1> PICK seen \in SUBSET Tasks : Crawl(c, seen)
    BY DEF CrawlSome
  <1>1. Types'
    BY DEF RowInv, Types, Crawl, Goto, rows, CrawlerPoints
  <1>2. PointsInv' /\ BatchInv'
    BY Constants DEF RowInv, Types, PointsInv, BatchInv, Holds, Crawl, Goto, CrawlerPoints, Processes
  <1>3. AttemptBudget' /\ ShownInv'
    BY DEF RowInv, AttemptBudget, ShownInv, Crawl, rows
  <1> QED
    BY <1>1, <1>2, <1>3 DEF RowInv

\* Pending rows have all their attempts and claim no answer.
LEMMA EnqueueRowInv ==
  ASSUME RowInv, NEW c \in Crawlers, Enqueue(c) PROVE RowInv'
  <1>1. "pending" \in Statuses /\ "pending" \notin Answers /\ "pending" # "failed"
    BY Constants DEF Statuses, Queued
  <1>2. Types'
    BY <1>1 DEF RowInv, Types, Enqueue, PutPending, Goto, memory, CrawlerPoints
  <1>3. PointsInv' /\ BatchInv'
    BY Constants DEF RowInv, Types, PointsInv, BatchInv, Holds, Enqueue, Goto, memory, CrawlerPoints, Processes
  <1>4. AttemptBudget'
    BY <1>1, Constants DEF RowInv, AttemptBudget, Enqueue, PutPending
  <1>5. ShownInv'
    BY <1>1 DEF RowInv, ShownInv, Enqueue, PutPending
  <1> QED
    BY <1>2, <1>3, <1>4, <1>5 DEF RowInv

\* A crawl publishes pending rows only, which claim no answer.
LEMMA AnnounceRowInv ==
  ASSUME RowInv, NEW c \in Crawlers, Announce(c) PROVE RowInv'
  <1>1. "pending" \in Statuses /\ "pending" \notin Answers
    BY Constants DEF Statuses, Queued
  <1>2. c \in Processes
    BY DEF Processes
  <1>3. Types'
    BY <1>1, <1>2, Forgotten DEF RowInv, Types, Announce, rows
  <1>4. PointsInv' /\ BatchInv'
    BY <1>2, ForgetInv DEF RowInv, Announce
  <1>5. AttemptBudget' /\ ShownInv'
    BY <1>1 DEF RowInv, AttemptBudget, ShownInv, Announce, rows
  <1> QED
    BY <1>3, <1>4, <1>5 DEF RowInv

\* A leased row was due, so that its copy has an attempt left.
LEMMA LeaseRowInv ==
  ASSUME RowInv, NEW w \in Enrichers, Lease(w) PROVE RowInv'
  <1>1. NextBatch \subseteq Tasks /\ \A t \in NextBatch : status[t] \in Queued
    BY DEF NextBatch, Due, Queued
  <1>2. "running" \in Statuses /\ "running" \in Queued /\ "running" \notin Answers
    BY Constants DEF Statuses, Queued
  <1>3. Types'
    BY <1>1, <1>2 DEF RowInv, Types, Lease, Goto, EnricherPoints
  <1>4. PointsInv'
    BY Constants DEF RowInv, Types, PointsInv, Lease, Goto, EnricherPoints, Processes
  <1>5. ASSUME NEW v \in Enrichers, NEW t \in batch'[v]
        PROVE  /\ Holds(v)' => copy'[v][t] < MaxAttempts
               /\ pc'[v] \in {"settle", "publish"} => Stored(profiles', t, result'[v][t])
    <2>1. CASE v = w
      <3>1. t \in NextBatch /\ t \in Tasks /\ copy'[w][t] = attempts[t] /\ pc'[w] = "lookup"
        BY <1>1, <1>5, <2>1 DEF RowInv, Types, Lease, Goto, Processes
      <3>2. attempts[t] < MaxAttempts
        BY <1>1, <3>1 DEF RowInv, AttemptBudget
      <3> QED
        BY <2>1, <3>1, <3>2
    <2>2. CASE v # w
      BY <1>5, <2>2 DEF RowInv, Types, BatchInv, Holds, Lease, Goto, Processes
    <2> QED
      BY <2>1, <2>2
  <1>6. AttemptBudget'
    BY <1>1, <1>2 DEF RowInv, AttemptBudget, Lease
  <1>7. ShownInv'
    BY <1>2 DEF RowInv, ShownInv, Lease
  <1> QED
    BY <1>3, <1>4, <1>5, <1>6, <1>7 DEF RowInv, BatchInv

\* A lookup changes only what its process remembers as answers.
LEMMA LookupRowInv ==
  ASSUME RowInv, NEW w \in Enrichers, Lookup(w) PROVE RowInv'
  <1> PICK r \in [batch[w] -> Results] :
        result' = [result EXCEPT ![w] = [t \in Tasks |-> IF t \in batch[w] THEN r[t] ELSE "error"]]
    BY DEF Lookup
  <1>1. "error" \in Results /\ batch[w] \subseteq Tasks
    BY DEF Results, RowInv, Types
  <1>2. result' \in [Enrichers -> [Tasks -> Results]]
    BY <1>1 DEF RowInv, Types
  <1>3. Types'
    BY <1>2 DEF RowInv, Types, Lookup, Goto, rows, EnricherPoints
  <1>4. PointsInv'
    BY Constants DEF RowInv, Types, PointsInv, Lookup, Goto, EnricherPoints, Processes
  <1>5. ASSUME NEW v \in Enrichers, NEW t \in batch'[v]
        PROVE  /\ Holds(v)' => copy'[v][t] < MaxAttempts
               /\ pc'[v] \in {"settle", "publish"} => Stored(profiles', t, result'[v][t])
    <2>1. CASE v = w
      BY <1>5, <2>1 DEF RowInv, Types, BatchInv, Holds, Lookup, Goto, Processes
    <2>2. CASE v # w
      BY <1>5, <2>2 DEF RowInv, Types, BatchInv, Holds, Lookup, Goto, Processes
    <2> QED
      BY <2>1, <2>2
  <1>6. AttemptBudget' /\ ShownInv'
    BY DEF RowInv, AttemptBudget, ShownInv, Lookup, rows
  <1> QED
    BY <1>3, <1>4, <1>5, <1>6 DEF RowInv, BatchInv

\* What StoreProfiles does to one company's profiles.
LEMMA StoredProfile ==
  ASSUME RowInv, NEW w \in Enrichers, StoreProfiles(w), NEW t \in Tasks
  PROVE  /\ profiles'[t] \in [Ids -> Results \union {"absent"}]
         /\ t \notin batch[w] => profiles'[t] = profiles[t]
         /\ t \in batch[w] => profiles'[t][IdOf(result[w][t])] = result[w][t]
         /\ t \in batch[w] => Stored(profiles', t, result[w][t])
         /\ \A r : Stored(profiles, t, r) => Stored(profiles', t, r)
  <1> DEFINE r == result[w][t]
             new == [profiles[t] EXCEPT ![IdOf(r)] = r]
  <1>1. r \in Results /\ r # "absent" /\ profiles[t] \in [Ids -> Results \union {"absent"}]
    BY ResultsAreResults DEF RowInv, Types
  <1>2. \A q : IdOf(q) \in Ids
    BY DEF IdOf, Ids
  <1>3. profiles'[t] = IF t \in batch[w] THEN new ELSE profiles[t]
    BY DEF StoreProfiles
  <1>4. new \in [Ids -> Results \union {"absent"}] /\ new[IdOf(r)] = r
    BY <1>1, <1>2
  <1>5. \A q : profiles[t][IdOf(q)] # "absent" => new[IdOf(q)] # "absent"
    BY <1>1, <1>2
  <1> HIDE DEF new
  <1> QED
    BY <1>1, <1>3, <1>4, <1>5 DEF Stored

\* The batch's answers come under their ids; no profile goes.
LEMMA StoreRowInv ==
  ASSUME RowInv, NEW w \in Enrichers, StoreProfiles(w) PROVE RowInv'
  <1> profiles' \in [Tasks -> [Ids -> Results \union {"absent"}]]
    BY StoredProfile DEF StoreProfiles
  <1>1. Types'
    BY DEF RowInv, Types, StoreProfiles, Goto, rows, memory, EnricherPoints
  <1>2. PointsInv'
    BY Constants DEF RowInv, Types, PointsInv, StoreProfiles, Goto, EnricherPoints, Processes
  <1>3. /\ \A t \in Tasks : \A r : Stored(profiles, t, r) => Stored(profiles', t, r)
        /\ \A t \in batch[w] : t \in Tasks /\ Stored(profiles', t, result[w][t])
    BY StoredProfile DEF RowInv, Types
  <1>4. ASSUME NEW v \in Enrichers, NEW t \in batch'[v]
        PROVE  /\ Holds(v)' => copy'[v][t] < MaxAttempts
               /\ pc'[v] \in {"settle", "publish"} => Stored(profiles', t, result'[v][t])
    <2>1. CASE v = w
      BY <1>3, <1>4, <2>1 DEF RowInv, Types, BatchInv, Holds, StoreProfiles, Goto, memory, Processes
    <2>2. CASE v # w
      BY <1>3, <1>4, <2>2 DEF RowInv, Types, BatchInv, Holds, StoreProfiles, Goto, memory, Processes
    <2> QED
      BY <2>1, <2>2
  <1>5. AttemptBudget'
    BY DEF RowInv, AttemptBudget, StoreProfiles, rows
  <1>6. ShownInv'
    BY <1>3 DEF RowInv, ShownInv, StoreProfiles, rows
  <1> QED
    BY <1>1, <1>2, <1>4, <1>5, <1>6 DEF RowInv, BatchInv

\* What Settle does to one row.
LEMMA SettledRow ==
  ASSUME RowInv, NEW w \in Enrichers, Settle(w), NEW t \in Tasks
  PROVE  /\ t \notin batch[w] => status'[t] = status[t] /\ attempts'[t] = attempts[t]
         /\ t \in batch[w] =>
              /\ status'[t] = StatusAfter(result[w][t], copy[w][t] + 1)
              /\ attempts'[t] = copy[w][t] + 1
              /\ copy[w][t] + 1 \in Nat /\ copy[w][t] + 1 <= MaxAttempts
              /\ result[w][t] \in Results
              /\ Stored(profiles, t, result[w][t])
  <1>1. t \notin batch[w] => status'[t] = status[t] /\ attempts'[t] = attempts[t]
    BY DEF Settle
  <1>2. t \in batch[w] =>
          /\ status'[t] = StatusAfter(result[w][t], copy[w][t] + 1)
          /\ attempts'[t] = copy[w][t] + 1
    BY DEF Settle
  <1>3. copy[w][t] \in Nat /\ result[w][t] \in Results
    BY DEF RowInv, Types
  <1>4. t \in batch[w] => copy[w][t] < MaxAttempts /\ Stored(profiles, t, result[w][t])
    BY DEF RowInv, BatchInv, Holds, Settle
  <1> QED
    BY <1>1, <1>2, <1>3, <1>4, Constants

\* Settled rows stay within the budget and show only stored answers.
LEMMA SettleRowInv ==
  ASSUME RowInv, NEW w \in Enrichers, Settle(w) PROVE RowInv'
  <1>1. ASSUME NEW t \in Tasks PROVE status'[t] \in Statuses /\ attempts'[t] \in Nat
    <2>1. CASE t \in batch[w]
      <3>1. status'[t] = StatusAfter(result[w][t], copy[w][t] + 1)
            /\ attempts'[t] = copy[w][t] + 1
            /\ copy[w][t] + 1 \in Nat /\ copy[w][t] + 1 <= MaxAttempts
            /\ result[w][t] \in Results
        BY <2>1, SettledRow
      <3>2. StatusAfter(result[w][t], copy[w][t] + 1) \in Statuses
        BY <3>1, Outcome
      <3> QED
        BY <3>1, <3>2
    <2>2. CASE t \notin batch[w]
      BY <2>2, SettledRow DEF RowInv, Types
    <2> QED
      BY <2>1, <2>2
  <1>2. status' \in [Tasks -> Statuses] /\ attempts' \in [Tasks -> Nat]
    <2>1. /\ status' = [t \in Tasks |-> status'[t]]
          /\ attempts' = [t \in Tasks |-> attempts'[t]]
      BY DEF Settle
    <2> QED
      BY <1>1, <2>1
  <1>3. Types'
    BY <1>2 DEF RowInv, Types, Settle, Goto, memory, EnricherPoints
  <1>4. PointsInv'
    BY Constants DEF RowInv, Types, PointsInv, Settle, Goto, EnricherPoints, Processes
  <1>5. ASSUME NEW v \in Enrichers, NEW t \in batch'[v]
        PROVE  /\ Holds(v)' => copy'[v][t] < MaxAttempts
               /\ pc'[v] \in {"settle", "publish"} => Stored(profiles', t, result'[v][t])
    <2>1. CASE v = w
      BY <1>5, <2>1 DEF RowInv, Types, BatchInv, Holds, Settle, Goto, memory, Processes
    <2>2. CASE v # w
      BY <1>5, <2>2 DEF RowInv, Types, BatchInv, Holds, Settle, Goto, memory, Processes
    <2> QED
      BY <2>1, <2>2
  <1>6. AttemptBudget'
    <2> SUFFICES ASSUME NEW t \in Tasks
                 PROVE  /\ status'[t] \in Queued => attempts'[t] < MaxAttempts
                        /\ status'[t] = "failed" => attempts'[t] = MaxAttempts
      BY DEF AttemptBudget
    <2> QED
      BY SettledRow, Outcome, ZenonT(60) DEF RowInv, AttemptBudget
  <1>7. ShownInv'
    <2> SUFFICES ASSUME NEW t \in Tasks, NEW s \in {status'[t], sheet'[t]}, s \in Answers
                 PROVE  Stored(profiles', t, s)
      BY DEF ShownInv
    <2>1. sheet' = sheet /\ profiles' = profiles
      BY DEF Settle
    <2>2. CASE s = sheet[t] \/ t \notin batch[w]
      BY <2>1, <2>2, SettledRow DEF RowInv, ShownInv
    <2>3. CASE s = status'[t] /\ t \in batch[w]
      BY <2>1, <2>3, SettledRow, Outcome, ZenonT(60)
    <2> QED
      BY <2>1, <2>2, <2>3
  <1> QED
    BY <1>3, <1>4, <1>5, <1>6, <1>7 DEF RowInv, BatchInv

\* The sheet is written from the same batch, copy and answers as the queue.
LEMMA PublishRowInv ==
  ASSUME RowInv, NEW w \in Enrichers, Publish(w) PROVE RowInv'
  <1>1. w \in Processes
    BY DEF Processes
  <1>2. PointsInv' /\ BatchInv'
    BY <1>1, ForgetInv DEF RowInv, Publish
  <1>3. AttemptBudget'
    BY DEF RowInv, AttemptBudget, Publish, rows
  <1>4. ASSUME NEW t \in Tasks
        PROVE  /\ sheet'[t] \in Statuses
               /\ sheet'[t] \in Answers => Stored(profiles, t, sheet'[t])
    <2>1. CASE sheet'[t] = sheet[t]
      BY <2>1 DEF RowInv, Types, ShownInv
    <2>2. CASE sheet'[t] = StatusAfter(result[w][t], copy[w][t] + 1) /\ t \in batch[w]
      <3>1. result[w][t] \in Results /\ Stored(profiles, t, result[w][t])
        BY <2>2 DEF RowInv, Types, BatchInv, Publish
      <3> QED
        BY <2>2, <3>1, Constants DEF StatusAfter, Results, Statuses, Queued
    <2> QED
      BY <2>1, <2>2 DEF Publish
  <1>5. sheet' \in [Tasks -> Statuses]
    <2>1. CASE UNCHANGED sheet
      BY <2>1 DEF RowInv, Types
    <2>2. CASE sheet' # sheet
      <3>1. sheet' = [t \in Tasks |-> sheet'[t]]
        BY <2>2 DEF Publish
      <3> QED
        BY <1>4, <3>1
    <2> QED
      BY <2>1, <2>2
  <1>6. Types'
    BY <1>1, <1>5, Forgotten DEF RowInv, Types, Publish, rows
  <1>7. ShownInv'
    BY <1>4 DEF RowInv, ShownInv, Publish, rows
  <1> QED
    BY <1>2, <1>3, <1>6, <1>7 DEF RowInv

-----------------------------------------------------------------------------
\* Every step keeps the invariant.
LEMMA RowInvNext == RowInv /\ [Next]_vars => RowInv'
  <1> SUFFICES ASSUME RowInv, [Next]_vars PROVE RowInv'
    OBVIOUS
  <1>1. CASE Tick
    BY <1>1, TickRowInv
  <1>2. ASSUME NEW c \in Crawlers, CrawlSome(c) \/ Enqueue(c) \/ Announce(c) PROVE RowInv'
    BY <1>2, CrawlRowInv, EnqueueRowInv, AnnounceRowInv
  <1>3. ASSUME NEW w \in Enrichers, Enrich(w) PROVE RowInv'
    BY <1>3, LeaseRowInv, LookupRowInv, StoreRowInv, SettleRowInv, PublishRowInv DEF Enrich
  <1>4. ASSUME NEW p \in Processes, Crash(p) PROVE RowInv'
    BY <1>4, CrashRowInv
  <1>5. CASE UNCHANGED vars
    <2>1. Types' /\ PointsInv'
      BY <1>5 DEF RowInv, Types, PointsInv, vars, rows, memory
    <2>2. BatchInv' /\ AttemptBudget' /\ ShownInv'
      BY <1>5 DEF RowInv, BatchInv, Holds, AttemptBudget, ShownInv, vars, rows, memory
    <2> QED
      BY <2>1, <2>2 DEF RowInv
  <1> QED
    BY <1>1, <1>2, <1>3, <1>4, <1>5 DEF Next, Processes

\* The invariant of every behaviour, in which jobs overlap, die and outlive
\* their leases as they like.
THEOREM RowInvariant == Spec => []RowInv
  <1>1. Init => RowInv
    BY InitRowInv
  <1> QED
    BY <1>1, RowInvNext, PTL DEF Spec

\* max_attempts is a budget however copies of a row cross.
THEOREM BudgetKept == Spec => []AttemptBudget
  <1>1. RowInv => AttemptBudget
    BY DEF RowInv
  <1> QED
    BY <1>1, RowInvariant, PTL

-----------------------------------------------------------------------------
(* Crawls and enrichments in turn (TurnsSpec).                             *)

\* While jobs keep to their turns and their leases: nobody enriches while a crawl
\* is under way, a row that is worked on is leased, not yet to be taken over and in
\* one batch only, and a row about to be settled is stored as it was answered.
LeaseInv ==
  /\ \A c \in Crawlers : pc[c] # "idle" => \A w \in Enrichers : ~Holds(w)
  /\ \A w \in Enrichers : \A t \in batch[w] : Holds(w) =>
       /\ status[t] = "running" /\ lock_age[t] < Stale
       /\ \A v \in Enrichers : v # w /\ Holds(v) => t \notin batch[v]
  /\ \A w \in Enrichers : \A t \in batch[w] :
       pc[w] = "settle" => profiles[t][IdOf(result[w][t])] = result[w][t]

AnswerInv == \A t \in Tasks : status[t] \in Answers => profiles[t][IdOf(status[t])] = status[t]

TurnInv == RowInv /\ LeaseInv /\ AnswerInv

\* How long a company is not to be asked is what its row says: the wait of a
\* retry, the rest of an answer's window, and for any other row no time at all.
RestInv ==
  \A t \in Tasks :
    /\ status[t] = "retry" => quiet[t] = wait[t]
    /\ status[t] \in Answers => quiet[t] = fresh[t]
    /\ status[t] \notin Answers \union {"retry"} => quiet[t] = 0

\* What a crawl is about to write over may be asked.
PlanInv == \A c \in Crawlers : \A t \in plan[c] : pc[c] = "enqueue" => quiet[t] = 0

QuietInv == RowInv /\ RestInv /\ PlanInv

\* A row that can be leased, and a row that a crawl may write, is past its rest.
LEMMA Rested ==
  ASSUME QuietInv, NEW t \in Tasks, Due(t) \/ MayQueue(t)
  PROVE  quiet[t] = 0
  BY Constants DEF QuietInv, RestInv, Due, MayQueue, Queued

\* Turns leave out some steps of Next and add none.
LEMMA TurnsAreSteps == TurnsNext => Next
  BY DEF TurnsNext, Next

\* A new database knows no company.
LEMMA InitQuietInv == Init => QuietInv
  <1> SUFFICES ASSUME Init PROVE QuietInv
    OBVIOUS
  <1>1. RestInv /\ PlanInv
    BY Constants DEF Init, RestInv, PlanInv, Processes
  <1> QED
    BY <1>1, InitRowInv DEF QuietInv

\* A process that forgets plans nothing; nobody else's plan is touched.
LEMMA ForgetPlan ==
  ASSUME QuietInv, NEW p \in Processes, Forget(p), UNCHANGED quiet
  PROVE  PlanInv'
  <1>1. ASSUME NEW c \in Crawlers, pc'[c] = "enqueue"
        PROVE  pc[c] = "enqueue" /\ plan'[c] = plan[c]
    <2>1. c # p /\ pc'[c] = pc[c]
      BY <1>1 DEF QuietInv, RowInv, Types, Forget, Goto, Processes
    <2> QED
      BY <1>1, <2>1 DEF QuietInv, RowInv, Types, Forget
  <1> QED
    BY <1>1 DEF QuietInv, PlanInv

\* An enricher's step other than Settle changes no rest and no plan.
LEMMA EnrichQuietInv ==
  ASSUME QuietInv, NEW w \in Enrichers, Lookup(w) \/ StoreProfiles(w) \/ Publish(w)
  PROVE  RestInv' /\ PlanInv'
  <1>1. UNCHANGED <<rows, quiet>>
    BY DEF Lookup, StoreProfiles, Publish
  <1>2. RestInv'
    BY <1>1 DEF QuietInv, RestInv, rows
  <1>3. CASE Publish(w)
    <2>1. PlanInv'
      BY <1>1, <1>3, ForgetPlan DEF Publish, Processes
    <2> QED
      BY <1>2, <2>1
  <1>4. CASE Lookup(w) \/ StoreProfiles(w)
    <2>1. \A c \in Crawlers : pc'[c] = pc[c] /\ plan' = plan
      BY <1>4, Constants DEF QuietInv, RowInv, Types, Lookup, StoreProfiles, Goto, memory, Processes
    <2> QED
      BY <1>1, <1>2, <2>1 DEF QuietInv, PlanInv
  <1> QED
    BY <1>3, <1>4

\* A leased row has rested, and leased it need not rest.
LEMMA LeaseQuietInv ==
  ASSUME QuietInv, NEW w \in Enrichers, Lease(w)
  PROVE  RestInv' /\ PlanInv'
  <1>1. \A t \in NextBatch : t \in Tasks /\ quiet[t] = 0
    BY Rested DEF NextBatch
  <1>2. "running" \notin Answers \union {"retry"}
    BY Constants DEF Queued
  <1>3. RestInv'
    BY <1>1, <1>2 DEF QuietInv, RestInv, Lease
  <1>4. \A c \in Crawlers : pc'[c] = pc[c] /\ UNCHANGED <<plan, quiet>>
    BY Constants DEF QuietInv, RowInv, Types, Lease, Goto, Processes
  <1> QED
    BY <1>3, <1>4 DEF QuietInv, PlanInv

\* Settling sets the rest and what the row says of it together, and no crawl has
\* a plan meanwhile.
LEMMA SettleQuietInv ==
  ASSUME QuietInv, NEW w \in Enrichers, Settle(w), Idle(Crawlers)
  PROVE  RestInv' /\ PlanInv'
  <1>1. ASSUME NEW t \in Tasks
        PROVE  /\ status'[t] = "retry" => quiet'[t] = wait'[t]
               /\ status'[t] \in Answers => quiet'[t] = fresh'[t]
               /\ status'[t] \notin Answers \union {"retry"} => quiet'[t] = 0
    <2>1. CASE t \notin batch[w]
      <3>1. /\ status'[t] = status[t] /\ wait'[t] = wait[t]
            /\ fresh'[t] = fresh[t] /\ quiet'[t] = quiet[t]
        BY <2>1 DEF Settle
      <3> QED
        BY <3>1 DEF QuietInv, RestInv
    <2>2. CASE t \in batch[w]
      <3> DEFINE s == StatusAfter(result[w][t], copy[w][t] + 1)
      <3>1. "retry" \notin Answers
        BY Constants DEF Queued
      <3>2. status'[t] = s
        BY <2>2 DEF Settle
      <3>3. wait'[t] = IF s = "retry" THEN Backoff(copy[w][t] + 1) ELSE 0
        BY <2>2 DEF Settle
      <3>4. fresh'[t] = IF s \in Answers THEN Fresh ELSE 0
        BY <2>2 DEF Settle
      <3>5. quiet'[t] = IF s \in Answers THEN Fresh
                        ELSE IF s = "retry" THEN Backoff(copy[w][t] + 1) ELSE 0
        BY <2>2, <3>1 DEF Settle
      <3> QED
        BY <3>1, <3>2, <3>3, <3>4, <3>5
    <2> QED
      BY <2>1, <2>2
  <1>2. \A c \in Crawlers : pc'[c] = "idle"
    BY Constants DEF QuietInv, RowInv, Types, Settle, Goto, Idle, Processes
  <1> QED
    BY <1>1, <1>2 DEF RestInv, PlanInv

\* A crawl plans what has rested, and writes it with no rest.
LEMMA CrawlQuietInv ==
  ASSUME QuietInv, NEW c \in Crawlers, CrawlSome(c) \/ Enqueue(c) \/ Announce(c)
  PROVE  RestInv' /\ PlanInv'
  <1>1. CASE CrawlSome(c)
    <2>1. PICK seen \in SUBSET Tasks : Crawl(c, seen)
      BY <1>1 DEF CrawlSome
    <2>2. \A t \in plan'[c] : quiet[t] = 0
      BY <2>1, Rested DEF QuietInv, RowInv, Types, Crawl
    <2>3. \A d \in Crawlers : d # c => pc'[d] = pc[d] /\ plan'[d] = plan[d]
      BY <2>1 DEF QuietInv, RowInv, Types, Crawl, Goto, Processes
    <2>4. UNCHANGED <<rows, quiet>>
      BY <2>1 DEF Crawl
    <2> QED
      BY <2>2, <2>3, <2>4 DEF QuietInv, RestInv, PlanInv, rows
  <1>2. CASE Enqueue(c)
    <2>1. \A t \in plan[c] : quiet[t] = 0
      BY <1>2 DEF QuietInv, PlanInv, Enqueue
    <2>2. "pending" \notin Answers \union {"retry"}
      BY Constants DEF Queued
    <2>3. RestInv'
      BY <1>2, <2>1, <2>2 DEF QuietInv, RestInv, Enqueue, PutPending
    <2>4. \A d \in Crawlers : pc'[d] = "enqueue" => pc[d] = "enqueue"
      BY <1>2 DEF QuietInv, RowInv, Types, Enqueue, Goto, Processes
    <2> QED
      BY <1>2, <2>3, <2>4 DEF QuietInv, PlanInv, Enqueue, memory
  <1>3. CASE Announce(c)
    <2>1. PlanInv' /\ UNCHANGED <<rows, quiet>>
      BY <1>3, ForgetPlan DEF Announce, Processes
    <2> QED
      BY <2>1 DEF QuietInv, RestInv, rows
  <1> QED
    BY <1>1, <1>2, <1>3

\* Every step of a behaviour in turns keeps the invariant.
LEMMA QuietInvNext == QuietInv /\ [TurnsNext]_vars => QuietInv'
  <1> SUFFICES ASSUME QuietInv, [TurnsNext]_vars PROVE QuietInv'
    OBVIOUS
  <1>1. RowInv'
    BY TurnsAreSteps, RowInvNext DEF QuietInv
  <1>2. CASE Tick
    <2>1. /\ UNCHANGED <<status, pc, plan>>
          /\ \A t \in Tasks : /\ wait'[t] = Down(wait[t]) /\ fresh'[t] = Down(fresh[t])
                              /\ quiet'[t] = Down(quiet[t])
      BY <1>2 DEF Tick, memory
    <2>2. \A n : n = 0 => Down(n) = 0
      BY DEF Down
    <2>3. RestInv'
      BY <2>1, <2>2 DEF QuietInv, RestInv
    <2>4. \A c \in Crawlers : plan[c] \subseteq Tasks
      BY DEF QuietInv, RowInv, Types
    <2>5. PlanInv'
      BY <2>1, <2>2, <2>4 DEF QuietInv, PlanInv
    <2> QED
      BY <1>1, <2>3, <2>5 DEF QuietInv
  <1>3. ASSUME NEW c \in Crawlers, CrawlSome(c) \/ Enqueue(c) \/ Announce(c) PROVE QuietInv'
    BY <1>1, <1>3, CrawlQuietInv DEF QuietInv
  <1>4. ASSUME NEW w \in Enrichers, Idle(Crawlers), Enrich(w) PROVE QuietInv'
    BY <1>1, <1>4, LeaseQuietInv, SettleQuietInv, EnrichQuietInv DEF QuietInv, Enrich
  <1>5. ASSUME NEW p \in Processes, Crash(p) PROVE QuietInv'
    <2>1. PlanInv' /\ UNCHANGED <<rows, quiet>>
      BY <1>5, ForgetPlan DEF Crash
    <2> QED
      BY <1>1, <2>1 DEF QuietInv, RestInv, rows
  <1>6. CASE UNCHANGED vars
    BY <1>1, <1>6 DEF QuietInv, RestInv, PlanInv, vars, rows, memory
  <1> QED
    BY <1>2, <1>3, <1>4, <1>5, <1>6 DEF TurnsNext, Processes

\* A process's pc alone says whether it holds its batch.
LEMMA OthersHold ==
  ASSUME RowInv, NEW p \in Processes, NEW point, Goto(p, point)
  PROVE  /\ \A q \in Processes : q # p => pc'[q] = pc[q]
         /\ pc'[p] = point
         /\ \A w \in Enrichers : w # p => Holds(w)' = Holds(w)
  BY DEF RowInv, Types, Goto, Holds, Processes

\* Who forgets holds nothing and is no crawl under way.
LEMMA ForgetLeaseInv ==
  ASSUME TurnInv, NEW p \in Processes, Forget(p), UNCHANGED <<rows, profiles>>
  PROVE  LeaseInv' /\ AnswerInv'
  <1>1. AnswerInv'
    BY DEF TurnInv, AnswerInv, rows
  <1>2. /\ pc'[p] = "idle" /\ \A q \in Processes : q # p => pc'[q] = pc[q]
        /\ \A w \in Enrichers : w # p => batch'[w] = batch[w] /\ result'[w] = result[w]
    BY Forgotten DEF TurnInv, RowInv, Types
  <1>3. \A w \in Enrichers : Holds(w)' => w # p /\ Holds(w)
    BY <1>2 DEF Holds, Processes
  <1>4. \A c \in Crawlers : pc'[c] # "idle" => \A w \in Enrichers : ~Holds(w)'
    BY <1>2, <1>3 DEF TurnInv, LeaseInv, Processes
  <1>5. ASSUME NEW w \in Enrichers, NEW t \in batch'[w], Holds(w)'
        PROVE  /\ status'[t] = "running" /\ lock_age'[t] < Stale
               /\ \A v \in Enrichers : v # w /\ Holds(v)' => t \notin batch'[v]
    BY <1>2, <1>3, <1>5 DEF TurnInv, LeaseInv, rows
  <1>6. ASSUME NEW w \in Enrichers, NEW t \in batch'[w], pc'[w] = "settle"
        PROVE  profiles'[t][IdOf(result'[w][t])] = result'[w][t]
    BY <1>2, <1>6 DEF TurnInv, LeaseInv, Processes
  <1> QED
    BY <1>1, <1>4, <1>5, <1>6 DEF LeaseInv

\* Nobody works on a row that a crawl plans or writes.
LEMMA CrawlLeaseInv ==
  ASSUME TurnInv, NEW c \in Crawlers,
         (Idle(Enrichers \union Crawlers) /\ CrawlSome(c)) \/ Enqueue(c)
  PROVE  LeaseInv' /\ AnswerInv'
  <1>1. /\ UNCHANGED <<profiles, batch, result>>
        /\ \E point : Goto(c, point)
    BY DEF CrawlSome, Crawl, Enqueue, memory
  <1>2. \A w \in Enrichers : ~Holds(w)
    BY DEF TurnInv, LeaseInv, Enqueue, Idle, Holds
  <1>3. \A w \in Enrichers : ~Holds(w)' /\ pc'[w] = pc[w]
    BY <1>1, <1>2, OthersHold, Constants DEF TurnInv, Processes
  <1>4. LeaseInv'
    BY <1>3 DEF LeaseInv, Holds
  <1>5. \A t \in Tasks : status'[t] = status[t] \/ status'[t] = "pending"
    BY DEF CrawlSome, Crawl, Enqueue, PutPending, rows
  <1>6. "pending" \notin Answers
    BY Constants DEF Queued
  <1> QED
    BY <1>1, <1>4, <1>5, <1>6 DEF TurnInv, AnswerInv

\* Due rows are in nobody's hands: a lease that still runs cannot be taken over.
LEMMA LeaseLeaseInv ==
  ASSUME TurnInv, NEW w \in Enrichers, Idle(Crawlers), Lease(w)
  PROVE  LeaseInv' /\ AnswerInv'
  <1>1. /\ \A q \in Processes : q # w => pc'[q] = pc[q]
        /\ pc'[w] = "lookup" /\ w \in Processes
        /\ \A v \in Enrichers : v # w => Holds(v)' = Holds(v)
    BY OthersHold DEF TurnInv, Lease, Processes
  <1>2. \A t \in NextBatch : t \in Tasks /\ Due(t)
    BY DEF NextBatch
  <1>3. /\ batch'[w] = NextBatch /\ \A v \in Enrichers : v # w => batch'[v] = batch[v]
        /\ UNCHANGED <<profiles, result>>
    BY DEF TurnInv, RowInv, Types, Lease
  <1>4. \A t \in Tasks : /\ t \in NextBatch => status'[t] = "running" /\ lock_age'[t] = 0
                         /\ t \notin NextBatch => status'[t] = status[t] /\ lock_age'[t] = lock_age[t]
    BY DEF Lease
  <1>5. ASSUME NEW v \in Enrichers, Holds(v), NEW t \in batch[v] PROVE t \notin NextBatch /\ t \in Tasks
    <2>1. status[t] = "running" /\ lock_age[t] < Stale /\ t \in Tasks
      BY <1>5 DEF TurnInv, LeaseInv, RowInv, Types
    <2>2. ~(lock_age[t] >= Stale)
      BY <2>1, Constants DEF TurnInv, RowInv, Types
    <2> QED
      BY <1>2, <2>1, <2>2 DEF Due
  <1>6. ~Holds(w)
    BY DEF Lease, Holds
  <1>7. \A c \in Crawlers : pc'[c] = "idle"
    BY <1>1, Constants DEF Idle, Processes
  <1>8. ASSUME NEW v \in Enrichers, NEW t \in batch'[v], Holds(v)'
        PROVE  /\ status'[t] = "running" /\ lock_age'[t] < Stale
               /\ \A u \in Enrichers : u # v /\ Holds(u)' => t \notin batch'[u]
    <2>1. CASE v = w
      <3>1. t \in NextBatch /\ t \in Tasks
        BY <1>2, <1>3, <1>8, <2>1
      <3>2. \A u \in Enrichers : u # v /\ Holds(u)' => t \notin batch'[u]
        BY <1>1, <1>3, <1>5, <2>1, <3>1
      <3> QED
        BY <1>4, <3>1, <3>2, Constants
    <2>2. CASE v # w
      <3>1. t \in batch[v] /\ Holds(v)
        BY <1>1, <1>3, <1>8, <2>2
      <3>2. status'[t] = "running" /\ lock_age'[t] = lock_age[t] /\ lock_age[t] < Stale
        BY <1>4, <1>5, <3>1 DEF TurnInv, LeaseInv
      <3>3. \A u \in Enrichers : u # v /\ Holds(u)' => t \notin batch'[u]
        BY <1>1, <1>3, <1>5, <3>1 DEF TurnInv, LeaseInv
      <3> QED
        BY <3>2, <3>3
    <2> QED
      BY <2>1, <2>2
  <1>9. ASSUME NEW v \in Enrichers, NEW t \in batch'[v], pc'[v] = "settle"
        PROVE  profiles'[t][IdOf(result'[v][t])] = result'[v][t]
    BY <1>1, <1>3, <1>9 DEF TurnInv, LeaseInv, Processes
  <1>10. "running" \notin Answers
    BY Constants DEF Queued
  <1>11. AnswerInv'
    BY <1>3, <1>4, <1>10 DEF TurnInv, AnswerInv
  <1> QED
    BY <1>7, <1>8, <1>9, <1>11 DEF LeaseInv

\* What is stored and settled is a row that nobody else has.
LEMMA WorkLeaseInv ==
  ASSUME TurnInv, NEW w \in Enrichers, Idle(Crawlers),
         Lookup(w) \/ StoreProfiles(w) \/ Settle(w)
  PROVE  LeaseInv' /\ AnswerInv'
  <1>1. \E point : Goto(w, point)
    BY DEF Lookup, StoreProfiles, Settle
  <1>2. /\ \A q \in Processes : q # w => pc'[q] = pc[q]
        /\ w \in Processes
        /\ \A v \in Enrichers : v # w => Holds(v)' = Holds(v)
    BY <1>1, OthersHold DEF TurnInv, Processes
  <1>3. Holds(w) /\ batch' = batch /\ \A v \in Enrichers : v # w => result'[v] = result[v]
    BY DEF Lookup, StoreProfiles, Settle, Holds, memory, TurnInv, RowInv, Types
  <1>4. \A c \in Crawlers : pc'[c] = "idle"
    BY <1>2, Constants DEF Idle, Processes
  <1>5. \A v \in Enrichers, t \in batch[w] : v # w /\ Holds(v) => t \notin batch[v]
    BY <1>3 DEF TurnInv, LeaseInv
  <1>6. \A v \in Enrichers : batch[v] \subseteq Tasks
    BY DEF TurnInv, RowInv, Types
  <1>7. \A t \in Tasks : t \notin batch[w] =>
          /\ status'[t] = status[t] /\ lock_age'[t] = lock_age[t] /\ profiles'[t] = profiles[t]
    BY StoredProfile DEF Lookup, Settle, StoreProfiles, rows, TurnInv
  <1>8. ~Settle(w) => UNCHANGED rows
    BY DEF Lookup, StoreProfiles
  <1>9. ASSUME NEW v \in Enrichers, NEW t \in batch'[v], Holds(v)'
        PROVE  /\ status'[t] = "running" /\ lock_age'[t] < Stale
               /\ \A u \in Enrichers : u # v /\ Holds(u)' => t \notin batch'[u]
    <2>1. t \in batch[v] /\ t \in Tasks /\ Holds(v)
      BY <1>2, <1>3, <1>6, <1>9
    <2>2. status'[t] = status[t] /\ lock_age'[t] = lock_age[t]
      <3>1. CASE v = w
        <4>1. ~Settle(w)
          BY <1>2, <1>9, <3>1, OthersHold DEF Settle, Holds, TurnInv
        <4> QED
          BY <1>8, <4>1 DEF rows
      <3>2. CASE v # w
        BY <1>5, <1>7, <2>1, <3>2
      <3> QED
        BY <3>1, <3>2
    <2>3. \A u \in Enrichers : u # v /\ Holds(u)' => t \notin batch'[u]
      BY <1>2, <1>3, <2>1 DEF TurnInv, LeaseInv
    <2> QED
      BY <2>1, <2>2, <2>3 DEF TurnInv, LeaseInv
  <1>10. ASSUME NEW v \in Enrichers, NEW t \in batch'[v], pc'[v] = "settle"
         PROVE  profiles'[t][IdOf(result'[v][t])] = result'[v][t]
    <2>1. CASE v = w
      <3>1. StoreProfiles(w)
        BY <1>10, <2>1, <1>2, OthersHold DEF Lookup, Settle, TurnInv
      <3> QED
        <4>1. t \in batch[w] /\ t \in Tasks /\ result'[v][t] = result[w][t]
          BY <1>3, <1>6, <1>10, <2>1, <3>1 DEF StoreProfiles, memory
        <4> QED
          BY <3>1, <4>1, StoredProfile DEF TurnInv
    <2>2. CASE v # w
      <3>1. pc[v] = "settle" /\ t \in batch[v] /\ t \in Tasks /\ t \notin batch[w] /\ result'[v] = result[v]
        BY <1>2, <1>3, <1>5, <1>6, <1>10, <2>2 DEF Holds, Processes
      <3> QED
        BY <1>7, <3>1 DEF TurnInv, LeaseInv
    <2> QED
      BY <2>1, <2>2
  <1>11. ASSUME NEW t \in Tasks, status'[t] \in Answers
         PROVE  profiles'[t][IdOf(status'[t])] = status'[t]
    <2>1. CASE t \notin batch[w]
      BY <1>7, <1>11, <2>1 DEF TurnInv, AnswerInv
    <2>2. CASE t \in batch[w] /\ Settle(w)
      <3>1. /\ status'[t] = StatusAfter(result[w][t], copy[w][t] + 1)
            /\ copy[w][t] + 1 \in Nat /\ copy[w][t] + 1 <= MaxAttempts
            /\ result[w][t] \in Results
        BY <2>2, SettledRow DEF TurnInv
      <3>2. status'[t] = result[w][t]
        BY <1>11, <3>1, Outcome
      <3> QED
        BY <2>2, <3>2 DEF TurnInv, LeaseInv, Settle
    <2>3. CASE t \in batch[w] /\ ~Settle(w)
      <3>1. status'[t] = "running" /\ "running" \notin Answers
        BY <1>3, <1>8, <2>3, Constants DEF TurnInv, LeaseInv, rows, Queued
      <3> QED
        BY <1>11, <3>1
    <2> QED
      BY <2>1, <2>2, <2>3
  <1> QED
    BY <1>4, <1>9, <1>10, <1>11 DEF LeaseInv, AnswerInv

\* A new database has neither rows nor processes at work.
LEMMA InitTurnInv == Init => TurnInv
  <1> SUFFICES ASSUME Init PROVE TurnInv
    OBVIOUS
  <1>1. LeaseInv
    BY DEF Init, LeaseInv, Processes
  <1>2. AnswerInv
    BY Constants DEF Init, AnswerInv
  <1> QED
    BY <1>1, <1>2, InitRowInv DEF TurnInv

\* Every step in turns keeps rows in one pair of hands.
LEMMA TurnInvNext == TurnInv /\ [TurnsNext]_vars => TurnInv'
  <1> SUFFICES ASSUME TurnInv, [TurnsNext]_vars PROVE LeaseInv' /\ AnswerInv'
    BY TurnsAreSteps, RowInvNext DEF TurnInv
  <1>1. CASE Punctual /\ Tick
    <2>1. UNCHANGED <<status, profiles, pc, batch, result>>
      BY <1>1 DEF Tick, memory
    <2>2. AnswerInv'
      BY <2>1 DEF TurnInv, AnswerInv
    <2>3. ASSUME NEW w \in Enrichers, NEW t \in batch[w], Holds(w) PROVE lock_age'[t] < Stale
      <3>1. t \in Tasks /\ lock_age[t] \in Nat /\ lock_age[t] + 1 < Stale
        BY <1>1, <2>3 DEF TurnInv, RowInv, Types, Punctual
      <3>2. lock_age'[t] = lock_age[t] \/ lock_age'[t] = lock_age[t] + 1
        BY <1>1, <3>1 DEF Tick
      <3> QED
        BY <3>1, <3>2, Constants
    <2> QED
      BY <2>1, <2>2, <2>3 DEF TurnInv, LeaseInv, Holds
  <1>2. ASSUME NEW c \in Crawlers,
               (Idle(Enrichers \union Crawlers) /\ CrawlSome(c)) \/ Enqueue(c) \/ Announce(c)
        PROVE  LeaseInv' /\ AnswerInv'
    <2>1. CASE Announce(c)
      BY <2>1, ForgetLeaseInv DEF Announce, Processes
    <2> QED
      BY <1>2, <2>1, CrawlLeaseInv
  <1>3. ASSUME NEW w \in Enrichers, Idle(Crawlers), Enrich(w)
        PROVE  LeaseInv' /\ AnswerInv'
    <2>1. CASE Publish(w)
      BY <2>1, ForgetLeaseInv DEF Publish, Processes
    <2> QED
      BY <1>3, <2>1, LeaseLeaseInv, WorkLeaseInv DEF Enrich
  <1>4. ASSUME NEW p \in Processes, Crash(p) PROVE LeaseInv' /\ AnswerInv'
    BY <1>4, ForgetLeaseInv DEF Crash
  <1>5. CASE UNCHANGED vars
    BY <1>5 DEF TurnInv, LeaseInv, AnswerInv, Holds, vars, rows, memory
  <1> QED
    BY <1>1, <1>2, <1>3, <1>4, <1>5 DEF TurnsNext, Processes

\* If crawls and enrichments take turns and no job outlives its lease, the answer
\* in the queue is the one stored last under its id, for any number of overlapping
\* enrichers that die between any two steps; a tab's answer has its profile.
THEOREM StoredFirst == TurnsSpec => []ProfileFirst
  <1>1. Init => TurnInv
    BY InitTurnInv
  <1>2. TurnInv => ProfileFirst
    BY DEF TurnInv, AnswerInv, RowInv, ShownInv, Stored, ProfileFirst
  <1> QED
    BY <1>1, <1>2, TurnInvNext, PTL DEF TurnsSpec

\* If crawls and enrichments take turns, no company is asked again before its
\* backoff or its answer's window is over: for any number of enrichers, which may
\* overlap and die between any two steps.
THEOREM BackoffKept == TurnsSpec => NotAskedTooSoon
  <1> DEFINE Asked == \A w \in Enrichers : \A t \in batch'[w] \ batch[w] : quiet[t] = 0
  <1>1. QuietInv /\ [TurnsNext]_vars => [Asked]_vars
    <2> SUFFICES ASSUME QuietInv, TurnsNext,
                        NEW w \in Enrichers, NEW t \in batch'[w] \ batch[w]
                 PROVE  quiet[t] = 0
      OBVIOUS
    <2>1. ASSUME NEW v \in Enrichers, Lease(v) PROVE quiet[t] = 0
      <3>1. batch'[w] = IF w = v THEN NextBatch ELSE batch[w]
        BY <2>1 DEF QuietInv, RowInv, Types, Lease
      <3>2. t \in Tasks /\ Due(t)
        BY <3>1 DEF NextBatch
      <3> QED
        BY <3>2, Rested
    <2>2. CASE \A v \in Enrichers : ~Lease(v)
      <3>1. ASSUME NEW p \in Processes, Forget(p) PROVE batch'[w] \subseteq batch[w]
        BY <3>1 DEF QuietInv, RowInv, Types, Forget
      <3>2. batch'[w] \subseteq batch[w]
        BY <2>2, <3>1 DEF TurnsNext, Enrich, Tick, CrawlSome, Crawl, Enqueue, Announce, Lookup,
                          StoreProfiles, Settle, Publish, Crash, memory, Processes
      <3> QED
        BY <3>2
    <2> QED
      BY <2>1, <2>2
  <1> QED
    BY <1>1, InitQuietInv, QuietInvNext, PTL DEF TurnsSpec, NotAskedTooSoon
-----------------------------------------------------------------------------
(* Lists, and functions that are built place by place.                     *)

LEMMA ListFacts ==
  ASSUME NEW S, NEW s \in Seq(S)
  PROVE  /\ DOMAIN s = 1..Len(s) /\ Len(s) \in Nat
         /\ \A k \in DOMAIN s : s[k] \in S
  OBVIOUS

LEMMA MakeList ==
  ASSUME NEW S, NEW n \in Nat, NEW s, s = [k \in 1..n |-> s[k]], \A k \in 1..n : s[k] \in S
  PROVE  s \in Seq(S) /\ Len(s) = n /\ DOMAIN s = 1..n
  OBVIOUS

LEMMA ToSetOfList ==
  ASSUME NEW S, NEW s \in Seq(S)
  PROVE  ToSet(s) \subseteq S /\ ToSet(s) = {s[k] : k \in 1..Len(s)}
  BY DEF ToSet

\* Induction, for a set of numbers.
LEMMA Induction ==
  ASSUME NEW T, 0 \in T, \A k \in Nat : k \in T => k + 1 \in T
  PROVE  Nat \subseteq T
  <1> DEFINE R == {xy \in Nat \X Nat : xy[1] < xy[2]}
  <1> SUFFICES ASSUME Nat \ T # {} PROVE FALSE
    OBVIOUS
  <1>1. IsWellFoundedOn(R, Nat)
    BY NatLessThanWellFounded DEF OpToRel
  <1>2. PICK k \in Nat \ T : \A y \in Nat \ T : <<y, k>> \notin R
    <2> HIDE DEF R
    <2> QED
      BY <1>1, WFMin
  <1>3. k \in Nat /\ k # 0
    BY <1>2
  <1>4. k - 1 \in Nat /\ <<k - 1, k>> \in R
    BY <1>3
  <1>5. k - 1 \in T /\ (k - 1) + 1 = k
    BY <1>2, <1>3, <1>4
  <1> QED
    BY <1>2, <1>4, <1>5

LEMMA ToSetOfAppend ==
  ASSUME NEW S, NEW s \in Seq(S), NEW e \in S
  PROVE  ToSet(Append(s, e)) = ToSet(s) \union {e}
  <1> DEFINE r == Append(s, e)
  <1>1. DOMAIN s = 1..Len(s) /\ DOMAIN r = 1..(Len(s) + 1) /\ Len(s) \in Nat
    OBVIOUS
  <1>2. r[Len(s) + 1] = e /\ \A i \in 1..Len(s) : r[i] = s[i]
    OBVIOUS
  <1> HIDE DEF r
  <1>3. \A i \in DOMAIN r : i \in 1..Len(s) \/ i = Len(s) + 1
    BY <1>1
  <1>4. ToSet(r) \subseteq ToSet(s) \union {e}
    BY <1>1, <1>2, <1>3 DEF ToSet
  <1>5. ToSet(s) \union {e} \subseteq ToSet(r)
    BY <1>1, <1>2 DEF ToSet
  <1> QED
    BY <1>4, <1>5 DEF r

LEMMA ToSetOfConcat ==
  ASSUME NEW S, NEW s \in Seq(S), NEW r \in Seq(S)
  PROVE  ToSet(s \o r) = ToSet(s) \union ToSet(r)
  <1> DEFINE t == s \o r
  <1>1. /\ DOMAIN s = 1..Len(s) /\ DOMAIN r = 1..Len(r) /\ DOMAIN t = 1..(Len(s) + Len(r))
        /\ Len(s) \in Nat /\ Len(r) \in Nat
    OBVIOUS
  <1>2. /\ \A i \in 1..Len(s) : t[i] = s[i]
        /\ \A i \in 1..Len(r) : t[Len(s) + i] = r[i]
    OBVIOUS
  <1> HIDE DEF t
  <1>3. ASSUME NEW i \in DOMAIN t PROVE t[i] \in ToSet(s) \union ToSet(r)
    <2>1. CASE i \in 1..Len(s)
      BY <1>1, <1>2, <2>1 DEF ToSet
    <2>2. CASE i \notin 1..Len(s)
      <3>1. i - Len(s) \in 1..Len(r) /\ Len(s) + (i - Len(s)) = i
        BY <1>1, <1>3, <2>2
      <3>2. t[i] = r[i - Len(s)]
        BY <1>2, <3>1
      <3> QED
        BY <1>1, <3>1, <3>2 DEF ToSet
    <2> QED
      BY <2>1, <2>2
  <1>4. \A i \in 1..Len(s) : i \in DOMAIN t
    BY <1>1
  <1>5. \A i \in 1..Len(r) : Len(s) + i \in DOMAIN t
    BY <1>1
  <1>6. ToSet(s) \union ToSet(r) \subseteq ToSet(t)
    BY <1>1, <1>2, <1>4, <1>5 DEF ToSet
  <1> QED
    BY <1>3, <1>6 DEF t, ToSet
\* What Only builds.
KeptUpTo(s, kept, g, n) ==
  IF n = 0 THEN <<>> ELSE IF s[n] \in kept THEN Append(g[n - 1], s[n]) ELSE g[n - 1]

KeptBy(g, s, kept, m) == g = [n \in 0..m |-> KeptUpTo(s, kept, g, n)]

LEMMA KeptExists ==
  ASSUME NEW s, NEW kept, NEW m \in Nat
  PROVE  \E g : KeptBy(g, s, kept, m)
  <1> DEFINE U(g, n) == KeptUpTo(s, kept, g, n)
             Has(k) == \E g : g = [n \in 0..k |-> U(g, n)]
  <1>1. Has(0)
    <2>1. \A g : U(g, 0) = <<>>
      BY DEF KeptUpTo
    <2> HIDE DEF U
    <2>2. [n \in 0..0 |-> <<>>] = [n \in 0..0 |-> U([i \in 0..0 |-> <<>>], n)]
      BY <2>1
    <2> QED
      BY <2>2
  <1>2. ASSUME NEW k \in Nat, Has(k) PROVE Has(k + 1)
    <2>1. PICK g : g = [n \in 0..k |-> U(g, n)]
      BY <1>2
    <2> DEFINE h == [n \in 0..(k + 1) |-> U(g, n)]
    <2>2. ASSUME NEW n \in 0..(k + 1) PROVE U(h, n) = U(g, n)
      <3>1. n # 0 => n - 1 \in 0..k
        OBVIOUS
      <3>2. n # 0 => h[n - 1] = g[n - 1]
        <4> HIDE DEF U
        <4> QED
          BY <2>1, <3>1
      <3> QED
        <4> HIDE DEF h
        <4> QED
          BY <3>2 DEF KeptUpTo
    <2>3. h = [n \in 0..(k + 1) |-> U(h, n)]
      <3> HIDE DEF U
      <3> QED
        BY <2>2
    <2> QED
      BY <2>3
  <1>3. Nat \subseteq {k \in Nat : Has(k)}
    <2> HIDE DEF Has
    <2> DEFINE T == {k \in Nat : Has(k)}
    <2>1. 0 \in T /\ \A k \in Nat : k \in T => k + 1 \in T
      BY <1>1, <1>2
    <2> HIDE DEF T
    <2>2. Nat \subseteq T
      BY <2>1, Induction
    <2> QED
      BY <2>2 DEF T
  <1> QED
    BY <1>3 DEF KeptBy
\* What CardsOf builds.
CardsOfUpTo(read, size, g, n) ==
  IF n = 0 THEN <<>> ELSE g[n - 1] \o Take(read[n], size)

CardsOfBy(g, read, size, m) == g = [n \in 0..m |-> CardsOfUpTo(read, size, g, n)]

LEMMA CardsOfExists ==
  ASSUME NEW read, NEW size, NEW m \in Nat
  PROVE  \E g : CardsOfBy(g, read, size, m)
  <1> DEFINE U(g, n) == CardsOfUpTo(read, size, g, n)
             Has(k) == \E g : g = [n \in 0..k |-> U(g, n)]
  <1>1. Has(0)
    <2>1. \A g : U(g, 0) = <<>>
      BY DEF CardsOfUpTo
    <2> HIDE DEF U
    <2>2. [n \in 0..0 |-> <<>>] = [n \in 0..0 |-> U([i \in 0..0 |-> <<>>], n)]
      BY <2>1
    <2> QED
      BY <2>2
  <1>2. ASSUME NEW k \in Nat, Has(k) PROVE Has(k + 1)
    <2>1. PICK g : g = [n \in 0..k |-> U(g, n)]
      BY <1>2
    <2> DEFINE h == [n \in 0..(k + 1) |-> U(g, n)]
    <2>2. ASSUME NEW n \in 0..(k + 1) PROVE U(h, n) = U(g, n)
      <3>1. n # 0 => n - 1 \in 0..k
        OBVIOUS
      <3>2. n # 0 => h[n - 1] = g[n - 1]
        <4> HIDE DEF U
        <4> QED
          BY <2>1, <3>1
      <3> QED
        <4> HIDE DEF h
        <4> QED
          BY <3>2 DEF CardsOfUpTo
    <2>3. h = [n \in 0..(k + 1) |-> U(h, n)]
      <3> HIDE DEF U
      <3> QED
        BY <2>2
    <2> QED
      BY <2>3
  <1>3. Nat \subseteq {k \in Nat : Has(k)}
    <2> HIDE DEF Has
    <2> DEFINE T == {k \in Nat : Has(k)}
    <2>1. 0 \in T /\ \A k \in Nat : k \in T => k + 1 \in T
      BY <1>1, <1>2
    <2> HIDE DEF T
    <2>2. Nat \subseteq T
      BY <2>1, Induction
    <2> QED
      BY <2>2 DEF T
  <1> QED
    BY <1>3 DEF CardsOfBy
\* What FromPages builds.
FromPagesUpTo(all, g, n) ==
  IF n = 0 THEN <<>>
  ELSE IF \E j \in 1 .. n - 1 : all[j].co = all[n].co THEN g[n - 1]
  ELSE Append(g[n - 1], all[n])

FromPagesBy(g, all, m) == g = [n \in 0..m |-> FromPagesUpTo(all, g, n)]

LEMMA FromPagesExists ==
  ASSUME NEW all, NEW m \in Nat
  PROVE  \E g : FromPagesBy(g, all, m)
  <1> DEFINE U(g, n) == FromPagesUpTo(all, g, n)
             Has(k) == \E g : g = [n \in 0..k |-> U(g, n)]
  <1>1. Has(0)
    <2>1. \A g : U(g, 0) = <<>>
      BY DEF FromPagesUpTo
    <2> HIDE DEF U
    <2>2. [n \in 0..0 |-> <<>>] = [n \in 0..0 |-> U([i \in 0..0 |-> <<>>], n)]
      BY <2>1
    <2> QED
      BY <2>2
  <1>2. ASSUME NEW k \in Nat, Has(k) PROVE Has(k + 1)
    <2>1. PICK g : g = [n \in 0..k |-> U(g, n)]
      BY <1>2
    <2> DEFINE h == [n \in 0..(k + 1) |-> U(g, n)]
    <2>2. ASSUME NEW n \in 0..(k + 1) PROVE U(h, n) = U(g, n)
      <3>1. n # 0 => n - 1 \in 0..k
        OBVIOUS
      <3>2. n # 0 => h[n - 1] = g[n - 1]
        <4> HIDE DEF U
        <4> QED
          BY <2>1, <3>1
      <3> QED
        <4> HIDE DEF h
        <4> QED
          BY <3>2 DEF FromPagesUpTo
    <2>3. h = [n \in 0..(k + 1) |-> U(h, n)]
      <3> HIDE DEF U
      <3> QED
        BY <2>2
    <2> QED
      BY <2>3
  <1>3. Nat \subseteq {k \in Nat : Has(k)}
    <2> HIDE DEF Has
    <2> DEFINE T == {k \in Nat : Has(k)}
    <2>1. 0 \in T /\ \A k \in Nat : k \in T => k + 1 \in T
      BY <1>1, <1>2
    <2> HIDE DEF T
    <2>2. Nat \subseteq T
      BY <2>1, Induction
    <2> QED
      BY <2>2 DEF T
  <1> QED
    BY <1>3 DEF FromPagesBy
\* What WithTasks builds.
WithTasksUpTo(before, tasks, g, n) ==
  IF n = 0 THEN before ELSE PutTask(g[n - 1], tasks[n])

WithTasksBy(g, before, tasks, m) == g = [n \in 0..m |-> WithTasksUpTo(before, tasks, g, n)]

LEMMA WithTasksExists ==
  ASSUME NEW before, NEW tasks, NEW m \in Nat
  PROVE  \E g : WithTasksBy(g, before, tasks, m)
  <1> DEFINE U(g, n) == WithTasksUpTo(before, tasks, g, n)
             Has(k) == \E g : g = [n \in 0..k |-> U(g, n)]
  <1>1. Has(0)
    <2>1. \A g : U(g, 0) = before
      BY DEF WithTasksUpTo
    <2> HIDE DEF U
    <2>2. [n \in 0..0 |-> before] = [n \in 0..0 |-> U([i \in 0..0 |-> before], n)]
      BY <2>1
    <2> QED
      BY <2>2
  <1>2. ASSUME NEW k \in Nat, Has(k) PROVE Has(k + 1)
    <2>1. PICK g : g = [n \in 0..k |-> U(g, n)]
      BY <1>2
    <2> DEFINE h == [n \in 0..(k + 1) |-> U(g, n)]
    <2>2. ASSUME NEW n \in 0..(k + 1) PROVE U(h, n) = U(g, n)
      <3>1. n # 0 => n - 1 \in 0..k
        OBVIOUS
      <3>2. n # 0 => h[n - 1] = g[n - 1]
        <4> HIDE DEF U
        <4> QED
          BY <2>1, <3>1
      <3> QED
        <4> HIDE DEF h
        <4> QED
          BY <3>2 DEF WithTasksUpTo
    <2>3. h = [n \in 0..(k + 1) |-> U(h, n)]
      <3> HIDE DEF U
      <3> QED
        BY <2>2
    <2> QED
      BY <2>3
  <1>3. Nat \subseteq {k \in Nat : Has(k)}
    <2> HIDE DEF Has
    <2> DEFINE T == {k \in Nat : Has(k)}
    <2>1. 0 \in T /\ \A k \in Nat : k \in T => k + 1 \in T
      BY <1>1, <1>2
    <2> HIDE DEF T
    <2>2. Nat \subseteq T
      BY <2>1, Induction
    <2> QED
      BY <2>2 DEF T
  <1> QED
    BY <1>3 DEF WithTasksBy
\* What Placed builds.
PlacedUpTo(table, list, from, g, n) ==
  IF n = 0 THEN table ELSE Sheet!Place(g[n - 1], list[n], from)

PlacedBy(g, table, list, from, m) == g = [n \in 0..m |-> PlacedUpTo(table, list, from, g, n)]

LEMMA PlacedExists ==
  ASSUME NEW table, NEW list, NEW from, NEW m \in Nat
  PROVE  \E g : PlacedBy(g, table, list, from, m)
  <1> DEFINE U(g, n) == PlacedUpTo(table, list, from, g, n)
             Has(k) == \E g : g = [n \in 0..k |-> U(g, n)]
  <1>1. Has(0)
    <2>1. \A g : U(g, 0) = table
      BY DEF PlacedUpTo
    <2> HIDE DEF U
    <2>2. [n \in 0..0 |-> table] = [n \in 0..0 |-> U([i \in 0..0 |-> table], n)]
      BY <2>1
    <2> QED
      BY <2>2
  <1>2. ASSUME NEW k \in Nat, Has(k) PROVE Has(k + 1)
    <2>1. PICK g : g = [n \in 0..k |-> U(g, n)]
      BY <1>2
    <2> DEFINE h == [n \in 0..(k + 1) |-> U(g, n)]
    <2>2. ASSUME NEW n \in 0..(k + 1) PROVE U(h, n) = U(g, n)
      <3>1. n # 0 => n - 1 \in 0..k
        OBVIOUS
      <3>2. n # 0 => h[n - 1] = g[n - 1]
        <4> HIDE DEF U
        <4> QED
          BY <2>1, <3>1
      <3> QED
        <4> HIDE DEF h
        <4> QED
          BY <3>2 DEF PlacedUpTo
    <2>3. h = [n \in 0..(k + 1) |-> U(h, n)]
      <3> HIDE DEF U
      <3> QED
        BY <2>2
    <2> QED
      BY <2>3
  <1>3. Nat \subseteq {k \in Nat : Has(k)}
    <2> HIDE DEF Has
    <2> DEFINE T == {k \in Nat : Has(k)}
    <2>1. 0 \in T /\ \A k \in Nat : k \in T => k + 1 \in T
      BY <1>1, <1>2
    <2> HIDE DEF T
    <2>2. Nat \subseteq T
      BY <2>1, Induction
    <2> QED
      BY <2>2 DEF T
  <1> QED
    BY <1>3 DEF PlacedBy
\* What Dedupe builds.
DedupeUpTo(list, keyless, g, n) ==
  CASE n = 0 -> Sheet!Nothing
    [] n # 0 /\ list[n] \in keyless -> g[n - 1]
    [] OTHER -> Sheet!Merge(g[n - 1], list[n])

DedupeBy(g, list, keyless, m) == g = [n \in 0..m |-> DedupeUpTo(list, keyless, g, n)]

LEMMA DedupeExists ==
  ASSUME NEW list, NEW keyless, NEW m \in Nat
  PROVE  \E g : DedupeBy(g, list, keyless, m)
  <1> DEFINE U(g, n) == DedupeUpTo(list, keyless, g, n)
             Has(k) == \E g : g = [n \in 0..k |-> U(g, n)]
  <1>1. Has(0)
    <2>1. \A g : U(g, 0) = Sheet!Nothing
      BY DEF DedupeUpTo
    <2> HIDE DEF U
    <2>2. [n \in 0..0 |-> Sheet!Nothing] = [n \in 0..0 |-> U([i \in 0..0 |-> Sheet!Nothing], n)]
      BY <2>1
    <2> QED
      BY <2>2
  <1>2. ASSUME NEW k \in Nat, Has(k) PROVE Has(k + 1)
    <2>1. PICK g : g = [n \in 0..k |-> U(g, n)]
      BY <1>2
    <2> DEFINE h == [n \in 0..(k + 1) |-> U(g, n)]
    <2>2. ASSUME NEW n \in 0..(k + 1) PROVE U(h, n) = U(g, n)
      <3>1. n # 0 => n - 1 \in 0..k
        OBVIOUS
      <3>2. n # 0 => h[n - 1] = g[n - 1]
        <4> HIDE DEF U
        <4> QED
          BY <2>1, <3>1
      <3> QED
        <4> HIDE DEF h
        <4> QED
          BY <3>2 DEF DedupeUpTo
    <2>3. h = [n \in 0..(k + 1) |-> U(h, n)]
      <3> HIDE DEF U
      <3> QED
        BY <2>2
    <2> QED
      BY <2>3
  <1>3. Nat \subseteq {k \in Nat : Has(k)}
    <2> HIDE DEF Has
    <2> DEFINE T == {k \in Nat : Has(k)}
    <2>1. 0 \in T /\ \A k \in Nat : k \in T => k + 1 \in T
      BY <1>1, <1>2
    <2> HIDE DEF T
    <2>2. Nat \subseteq T
      BY <2>1, Induction
    <2> QED
      BY <2>2 DEF T
  <1> QED
    BY <1>3 DEF DedupeBy
-----------------------------------------------------------------------------
(* What they amount to.                                                    *)

LEMMA KeptIsOnly ==
  ASSUME NEW S, NEW s \in Seq(S), NEW kept
  PROVE  /\ Sheet!Only(s, kept) \in Seq(S \intersect kept)
         /\ ToSet(Sheet!Only(s, kept)) = ToSet(s) \intersect kept
  <1> DEFINE L == Len(s)
             K == S \intersect kept
             g == CHOOSE f : f = [n \in 0..L |-> KeptUpTo(s, kept, f, n)]
             Good(n) == /\ g[n] \in Seq(K)
                        /\ ToSet(g[n]) = {s[i] : i \in {i \in 1..n : s[i] \in kept}}
             T == {n \in Nat : n <= L => Good(n)}
  <1>1. Sheet!Only(s, kept) = g[L] /\ L \in Nat
    BY DEF Sheet!Only, KeptUpTo
  <1>2. g = [n \in 0..L |-> KeptUpTo(s, kept, g, n)]
    BY <1>1, KeptExists DEF KeptBy
  <1> HIDE DEF g
  <1>3. \A n \in 0..L : g[n] = KeptUpTo(s, kept, g, n)
    BY <1>2
  <1>4. 0 \in T
    <2>1. g[0] = <<>>
      BY <1>1, <1>3 DEF KeptUpTo
    <2>2. <<>> \in Seq(K) /\ ToSet(<<>>) = {}
      BY DEF ToSet
    <2>3. {i \in 1..0 : s[i] \in kept} = {}
      OBVIOUS
    <2> QED
      BY <2>1, <2>2, <2>3
  <1>5. ASSUME NEW k \in Nat, k \in T PROVE k + 1 \in T
    <2> SUFFICES ASSUME k + 1 <= L PROVE Good(k + 1)
      OBVIOUS
    <2>1. k + 1 \in 0..L /\ k + 1 # 0 /\ k + 1 \in 1..L /\ (k + 1) - 1 = k /\ k <= L
      BY <1>1
    <2>2. Good(k)
      BY <1>5, <2>1
    <2>3. g[k + 1] = IF s[k + 1] \in kept THEN Append(g[k], s[k + 1]) ELSE g[k]
      BY <1>3, <2>1 DEF KeptUpTo
    <2>4. s[k + 1] \in S
      BY <2>1
    <2> DEFINE Upto(n) == {i \in 1..n : s[i] \in kept}
    <2>5. CASE s[k + 1] \in kept
      <3>1. g[k + 1] = Append(g[k], s[k + 1]) /\ g[k + 1] \in Seq(K)
        BY <2>2, <2>3, <2>4, <2>5
      <3>2. ToSet(g[k + 1]) = ToSet(g[k]) \union {s[k + 1]}
        BY <3>1, <2>2, <2>4, <2>5, ToSetOfAppend
      <3>3. Upto(k + 1) = Upto(k) \union {k + 1}
        BY <2>5, <2>1
      <3> QED
        BY <3>1, <3>2, <3>3, <2>2
    <2>6. CASE s[k + 1] \notin kept
      <3>1. Upto(k + 1) = Upto(k)
        BY <2>6, <2>1
      <3> QED
        BY <3>1, <2>2, <2>3, <2>6
    <2> QED
      BY <2>5, <2>6
  <1>6. Nat \subseteq T
    <2> HIDE DEF T
    <2> QED
      BY <1>4, <1>5, Induction
  <1>7. Good(L)
    <2> HIDE DEF Good
    <2> QED
      BY <1>1, <1>6
  <1>8. ToSet(s) = {s[i] : i \in 1..L}
    BY DEF ToSet
  <1> QED
    BY <1>1, <1>7, <1>8

LEMMA TakeOf ==
  ASSUME NEW S, NEW s \in Seq(S), NEW n \in Nat
  PROVE  /\ Take(s, n) \in Seq(S) /\ Len(Take(s, n)) = Least(n, Len(s))
         /\ \A k \in 1..Len(Take(s, n)) : k \in 1..Len(s) /\ Take(s, n)[k] = s[k]
  <1> DEFINE m == Least(n, Len(s))
  <1>1. m \in Nat /\ m <= Len(s)
    BY DEF Least
  <1> HIDE DEF m
  <1>2. SubSeq(s, 1, m) = [k \in 1..m |-> s[k]]
    BY <1>1
  <1>3. SubSeq(s, 1, m) \in Seq(S) /\ Len(SubSeq(s, 1, m)) = m
    BY <1>1
  <1>4. Take(s, n) = SubSeq(s, 1, m)
    BY DEF Take, m
  <1>5. \A k \in 1..m : k \in 1..Len(s) /\ Take(s, n)[k] = s[k]
    BY <1>1, <1>2, <1>4
  <1>6. Len(Take(s, n)) = m
    BY <1>3, <1>4
  <1> QED
    BY <1>3, <1>4, <1>5, <1>6 DEF m

\* The cards that pages give are cards of the pages.
LEMMA CardsOfPages ==
  ASSUME NEW S, NEW read \in Seq(Seq(S)), NEW size \in Nat
  PROVE  CardsOf(read, size) \in Seq(S)
  <1> DEFINE L == Len(read)
             g == CHOOSE f : f = [n \in 0..L |-> CardsOfUpTo(read, size, f, n)]
             T == {n \in Nat : n <= L => g[n] \in Seq(S)}
  <1>1. CardsOf(read, size) = g[L] /\ L \in Nat
    BY DEF CardsOf, CardsOfUpTo
  <1>2. g = [n \in 0..L |-> CardsOfUpTo(read, size, g, n)]
    BY <1>1, CardsOfExists DEF CardsOfBy
  <1> HIDE DEF g
  <1>3. \A n \in 0..L : g[n] = CardsOfUpTo(read, size, g, n)
    BY <1>2
  <1>4. 0 \in T
    <2>1. g[0] = <<>>
      BY <1>1, <1>3 DEF CardsOfUpTo
    <2>2. <<>> \in Seq(S)
      OBVIOUS
    <2> QED
      BY <2>1, <2>2
  <1>5. ASSUME NEW k \in Nat, k \in T PROVE k + 1 \in T
    <2> SUFFICES ASSUME k + 1 <= L PROVE g[k + 1] \in Seq(S)
      OBVIOUS
    <2>1. k + 1 \in 0..L /\ k + 1 # 0 /\ k + 1 \in 1..L /\ (k + 1) - 1 = k /\ k <= L
      BY <1>1
    <2>2. g[k] \in Seq(S) /\ read[k + 1] \in Seq(S)
      BY <1>5, <2>1
    <2>3. g[k + 1] = g[k] \o Take(read[k + 1], size)
      BY <1>3, <2>1 DEF CardsOfUpTo
    <2>4. Take(read[k + 1], size) \in Seq(S)
      BY <2>2, TakeOf
    <2> QED
      BY <2>2, <2>3, <2>4
  <1>6. Nat \subseteq T
    <2> HIDE DEF T
    <2> QED
      BY <1>4, <1>5, Induction
  <1> QED
    BY <1>1, <1>6

\* Before an item there is none, from a place on, of its company.
FirstFrom(s, i, m) == \A j \in m .. i - 1 : s[j].co # s[i].co
Firsts(s) == {s[j] : j \in {j \in DOMAIN s : FirstFrom(s, j, 1)}}

LEMMA FromPagesFirsts ==
  ASSUME NEW S, NEW read \in Seq(Seq(S)), NEW size \in Nat
  PROVE  FromPages(read, size) \in Seq(Firsts(CardsOf(read, size)))
  <1> DEFINE all == CardsOf(read, size)
             L == Len(all)
             g == CHOOSE f : f = [n \in 0..L |-> FromPagesUpTo(all, f, n)]
             F == Firsts(all)
             T == {n \in Nat : n <= L => g[n] \in Seq(F)}
  <1>0. all \in Seq(S)
    BY CardsOfPages
  <1>1. FromPages(read, size) = Take(g[L], size)
    BY DEF FromPages, FromPagesUpTo
  <1> HIDE DEF all, F
  <1>10. L \in Nat
    BY <1>0
  <1>2. g = [n \in 0..L |-> FromPagesUpTo(all, g, n)]
    BY <1>10, FromPagesExists DEF FromPagesBy
  <1> HIDE DEF g
  <1>3. \A n \in 0..L : g[n] = FromPagesUpTo(all, g, n)
    BY <1>2
  <1>4. 0 \in T
    <2>1. g[0] = <<>>
      BY <1>10, <1>3 DEF FromPagesUpTo
    <2>2. <<>> \in Seq(F)
      OBVIOUS
    <2> QED
      BY <2>1, <2>2
  <1>5. ASSUME NEW k \in Nat, k \in T PROVE k + 1 \in T
    <2> SUFFICES ASSUME k + 1 <= L PROVE g[k + 1] \in Seq(F)
      OBVIOUS
    <2>1. k + 1 \in 0..L /\ k + 1 # 0 /\ k + 1 \in 1..L /\ (k + 1) - 1 = k /\ k <= L
      BY <1>10
    <2>2. g[k] \in Seq(F)
      BY <1>5, <2>1
    <2>3. g[k + 1] = g[k] \/ (g[k + 1] = Append(g[k], all[k + 1]) /\ FirstFrom(all, k + 1, 1))
      <3>1. FirstFrom(all, k + 1, 1) <=> ~ \E j \in 1 .. (k + 1) - 1 : all[j].co = all[k + 1].co
        BY DEF FirstFrom
      <3> QED
        BY <1>3, <2>1, <3>1 DEF FromPagesUpTo
    <2>4. FirstFrom(all, k + 1, 1) => all[k + 1] \in F
      <3>1. DOMAIN all = 1..L
        BY <1>0
      <3> QED
        BY <2>1, <3>1 DEF F, Firsts
    <2>5. CASE g[k + 1] = g[k]
      BY <2>2, <2>5
    <2>6. CASE g[k + 1] = Append(g[k], all[k + 1]) /\ FirstFrom(all, k + 1, 1)
      <3>1. all[k + 1] \in F
        BY <2>4, <2>6
      <3> QED
        BY <2>2, <2>6, <3>1
    <2> QED
      BY <2>3, <2>5, <2>6
  <1>6. Nat \subseteq T
    <2> HIDE DEF T
    <2> QED
      BY <1>4, <1>5, Induction
  <1>7. g[L] \in Seq(F)
    BY <1>10, <1>6
  <1> QED
    BY <1>1, <1>7, TakeOf DEF F, all

LEMMA FromPagesCards ==
  ASSUME NEW S, NEW read \in Seq(Seq(S)), NEW size \in Nat
  PROVE  FromPages(read, size) \in Seq(S)
  <1> DEFINE r == FromPages(read, size)
             F == Firsts(CardsOf(read, size))
  <1>1. F \subseteq S
    <2>1. CardsOf(read, size) \in Seq(S)
      BY CardsOfPages
    <2> QED
      BY <2>1, ListFacts DEF Firsts
  <1>2. r \in Seq(F)
    BY FromPagesFirsts
  <1> HIDE DEF r, F
  <1>3. Len(r) \in Nat /\ r = [k \in 1..Len(r) |-> r[k]] /\ \A k \in 1..Len(r) : r[k] \in S
    BY <1>1, <1>2
  <1>4. r \in Seq(S)
    BY <1>3, MakeList
  <1> QED
    BY <1>4 DEF r
-----------------------------------------------------------------------------
(* The rows of the queue.                                                  *)

Listing == [co : Companies, round : ToSet(Rounds)]
Whos  == {NormName(Site[c].name) : c \in Companies}
Homes == {""} \union {Site[c].home : c \in Companies}
Reps  == {""} \union {Site[c].rep : c \in Companies}

\* A card of a company, with or without its page.
CardRows ==
  {x \in [co : Companies, browser : {"yes", "no"}, name : {Site[c].name : c \in Companies},
          round : ToSet(Rounds), investor : {Site[c].investor : c \in Companies},
          home : Homes, region : {""} \union {Site[c].region : c \in Companies}, rep : Reps] :
     LET site == Site[x.co]
     IN  /\ x.name = site.name /\ x.investor = site.investor
         /\ x.home \in {"", site.home} /\ x.region \in {"", site.region} /\ x.rep \in {"", site.rep}}

Lookups == {"matched", "not_found", "ambiguous"}
TaskRows == [id : Whos \X Homes \X Reps, company : Whos, home : Homes, rep : Reps,
             status : {"pending", "retry", "running", "failed"} \union Lookups, fresh : BOOLEAN]

\* Its id goes by its company; no two have an id in common.
Own(row) == row.id[1] = row.company
IdsOf(s) == {s[k].id : k \in DOMAIN s}
IdsApart(s) == \A j, k \in DOMAIN s : s[j].id = s[k].id => j = k

LEMMA CardOf ==
  ASSUME NEW card \in Listing, NEW f \in BOOLEAN, NEW b \in {"yes", "no"}
  PROVE  LET x == Enriched(card, Site[card.co], f, b)
         IN  /\ x \in CardRows /\ x.co = card.co
             /\ f => /\ x.home = Site[card.co].home /\ x.region = Site[card.co].region
                     /\ x.rep = Site[card.co].rep
  <1> DEFINE x == Enriched(card, Site[card.co], f, b)
  <1>1. card.co \in Companies /\ card.round \in ToSet(Rounds)
    BY DEF Listing
  <1>2. /\ x.co = card.co /\ x.browser = b /\ x.round = card.round
        /\ x.name = Site[card.co].name /\ x.investor = Site[card.co].investor
        /\ x.home = IF f THEN Site[card.co].home ELSE ""
        /\ x.region = IF f THEN Site[card.co].region ELSE ""
        /\ x.rep = IF f THEN Site[card.co].rep ELSE ""
    BY DEF Enriched
  <1>3. x = [co |-> x.co, browser |-> x.browser, name |-> x.name, round |-> x.round,
             investor |-> x.investor, home |-> x.home, region |-> x.region, rep |-> x.rep]
    BY DEF Enriched
  <1> HIDE DEF x
  <1>4. /\ x.home \in Homes /\ x.rep \in Reps
        /\ x.region \in {""} \union {Site[c].region : c \in Companies}
    BY <1>1, <1>2 DEF Homes, Reps
  <1>5. x \in CardRows
    BY <1>1, <1>2, <1>3, <1>4 DEF CardRows
  <1> QED
    BY <1>2, <1>5 DEF x

LEMMA CardFields ==
  ASSUME NEW x \in CardRows
  PROVE  /\ x.co \in Companies /\ x.round \in ToSet(Rounds) /\ x.home \in Homes /\ x.rep \in Reps
         /\ x.name = Site[x.co].name /\ x.investor = Site[x.co].investor
         /\ x.home \in {"", Site[x.co].home} /\ x.region \in {"", Site[x.co].region}
         /\ x.rep \in {"", Site[x.co].rep}
  BY DEF CardRows

LEMMA TaskOfCard ==
  ASSUME NEW x \in CardRows
  PROVE  /\ TaskOf(x) \in TaskRows /\ Own(TaskOf(x))
         /\ TaskOf(x).company = NormName(Site[x.co].name)
         /\ TaskOf(x).home = x.home /\ x.name = Site[x.co].name
  <1>1. NormName(x.name) \in Whos
    BY CardFields DEF Whos
  <1> DEFINE who == NormName(x.name)
  <1>2. who = NormName(Site[x.co].name)
    BY CardFields
  <1>3. TaskOf(x) = [id |-> <<who, x.home, x.rep>>, company |-> who,
                     home |-> x.home, rep |-> x.rep, status |-> "pending", fresh |-> FALSE]
    BY DEF TaskOf
  <1> HIDE DEF who
  <1>4. who \in Whos /\ x.home \in Homes /\ x.rep \in Reps /\ x.name = Site[x.co].name
    BY <1>1, CardFields DEF who
  <1> DEFINE t == TaskOf(x)
  <1>5. t.id = <<who, x.home, x.rep>> /\ t.company = who /\ t.home = x.home
    BY <1>3
  <1>6. <<who, x.home, x.rep>> \in Whos \X Homes \X Reps /\ <<who, x.home, x.rep>>[1] = who
    BY <1>4
  <1>7. t \in TaskRows
    <2> DEFINE id == <<who, x.home, x.rep>>
    <2>2. id \in Whos \X Homes \X Reps
      BY <1>6
    <2>3. t = [id |-> id, company |-> who, home |-> x.home, rep |-> x.rep, status |-> "pending", fresh |-> FALSE]
      BY <1>3
    <2> HIDE DEF id, t
    <2> QED
      BY <1>4, <2>2, <2>3 DEF TaskRows
  <1> HIDE DEF t
  <1>8. Own(t)
    BY <1>5, <1>6 DEF Own
  <1> QED
    BY <1>2, <1>4, <1>5, <1>7, <1>8 DEF t

LEMMA PutTaskOf ==
  ASSUME NEW s \in Seq(TaskRows), IdsApart(s), NEW task \in TaskRows
  PROVE  LET r == PutTask(s, task)
         IN  /\ r \in Seq(TaskRows) /\ IdsApart(r) /\ DOMAIN s \subseteq DOMAIN r
             /\ \A k \in DOMAIN s : r[k].id = s[k].id
             /\ \A k \in DOMAIN r : r[k] = task \/ (k \in DOMAIN s /\ r[k] = s[k])
             /\ task.id \in IdsOf(r)
  <1> DEFINE at == {k \in DOMAIN s : s[k].id = task.id}
             r == PutTask(s, task)
  <1>0. DOMAIN s = 1..Len(s) /\ Len(s) \in Nat /\ \A k \in DOMAIN s : s[k] \in TaskRows
    BY ListFacts
  <1>1. CASE at = {}
    <2>1. r = Append(s, task)
      BY <1>1 DEF PutTask
    <2>2. r \in Seq(TaskRows) /\ DOMAIN r = 1..(Len(s) + 1) /\ r[Len(s) + 1] = task
          /\ \A k \in 1..Len(s) : r[k] = s[k]
      BY <2>1
    <2> HIDE DEF r
    <2>3. \A k \in DOMAIN r : k = Len(s) + 1 \/ k \in DOMAIN s
      BY <1>0, <2>2
    <2>4. \A k \in DOMAIN s : s[k].id # task.id
      BY <1>1
    <2>5. IdsApart(r)
      BY <1>0, <2>2, <2>3, <2>4 DEF IdsApart
    <2>6. \A k \in DOMAIN s : r[k].id = s[k].id /\ k \in DOMAIN r
      BY <1>0, <2>2
    <2>7. \A k \in DOMAIN r : r[k] = task \/ (k \in DOMAIN s /\ r[k] = s[k])
      BY <1>0, <2>2, <2>3
    <2>8. task.id \in IdsOf(r)
      BY <1>0, <2>2 DEF IdsOf
    <2> QED
      BY <2>2, <2>5, <2>6, <2>7, <2>8 DEF r
  <1>2. CASE at # {}
    <2>1. r = [k \in DOMAIN s |-> IF k \in at THEN task ELSE s[k]]
      BY <1>2 DEF PutTask
    <2>2. DOMAIN r = DOMAIN s /\ \A k \in DOMAIN s : r[k] = IF k \in at THEN task ELSE s[k]
      BY <2>1
    <2>3. \A k \in DOMAIN s : r[k] \in TaskRows /\ r[k].id = s[k].id
      BY <1>0, <2>2
    <2>4. r = [k \in 1..Len(s) |-> r[k]] /\ \A k \in 1..Len(s) : r[k] \in TaskRows
      <3>1. r = [k \in DOMAIN s |-> r[k]]
        BY <2>1, <2>2
      <3> HIDE DEF r
      <3> QED
        BY <1>0, <2>3, <3>1
    <2>7. task.id \in IdsOf(r)
      <3>1. PICK k \in at : TRUE
        BY <1>2
      <3>2. r[k] = task /\ k \in DOMAIN r
        BY <2>2, <3>1
      <3> HIDE DEF r
      <3> QED
        BY <3>2 DEF IdsOf
    <2> HIDE DEF r, at
    <2>5. r \in Seq(TaskRows)
      BY <1>0, <2>4, MakeList
    <2>6. IdsApart(r)
      BY <2>2, <2>3 DEF IdsApart
    <2> QED
      BY <2>2, <2>3, <2>5, <2>6, <2>7 DEF r
  <1> QED
    BY <1>1, <1>2

\* Tasks written to rows replace rows with their ids or come after them.
LEMMA WithTasksOf ==
  ASSUME NEW s \in Seq(TaskRows), IdsApart(s), NEW tasks \in Seq(TaskRows)
  PROVE  LET r == WithTasks(s, tasks)
         IN  /\ r \in Seq(TaskRows) /\ IdsApart(r) /\ DOMAIN s \subseteq DOMAIN r
             /\ \A k \in DOMAIN s : r[k].id = s[k].id
             /\ \A k \in DOMAIN r : \/ k \in DOMAIN s /\ r[k] = s[k]
                                    \/ \E i \in DOMAIN tasks : r[k] = tasks[i]
             /\ \A i \in DOMAIN tasks : tasks[i].id \in IdsOf(r)
  <1> DEFINE L == Len(tasks)
             g == CHOOSE f : f = [n \in 0..L |-> WithTasksUpTo(s, tasks, f, n)]
             Good(r, n) ==
                        /\ r \in Seq(TaskRows) /\ IdsApart(r) /\ DOMAIN s \subseteq DOMAIN r
                        /\ \A k \in DOMAIN s : r[k].id = s[k].id
                        /\ \A k \in DOMAIN r : \/ k \in DOMAIN s /\ r[k] = s[k]
                                               \/ \E i \in DOMAIN tasks : r[k] = tasks[i]
                        /\ \A i \in 1..n : tasks[i].id \in IdsOf(r)
             T == {n \in Nat : n <= L => Good(g[n], n)}
  <1>1. WithTasks(s, tasks) = g[L] /\ L \in Nat /\ DOMAIN tasks = 1..L
    BY DEF WithTasks, WithTasksUpTo
  <1>2. g = [n \in 0..L |-> WithTasksUpTo(s, tasks, g, n)]
    BY <1>1, WithTasksExists DEF WithTasksBy
  <1> HIDE DEF g
  <1>3. \A n \in 0..L : g[n] = WithTasksUpTo(s, tasks, g, n)
    BY <1>2
  <1>4. 0 \in T
    <2>1. g[0] = s
      BY <1>1, <1>3 DEF WithTasksUpTo
    <2> QED
      BY <2>1
  <1>5. ASSUME NEW k \in Nat, k \in T PROVE k + 1 \in T
    <2> SUFFICES ASSUME k + 1 <= L PROVE Good(g[k + 1], k + 1)
      OBVIOUS
    <2>1. k + 1 \in 0..L /\ k + 1 # 0 /\ k + 1 \in 1..L /\ (k + 1) - 1 = k /\ k <= L
      BY <1>1
    <2>2. Good(g[k], k)
      BY <1>5, <2>1
    <2>3. g[k + 1] = PutTask(g[k], tasks[k + 1])
      BY <1>3, <2>1 DEF WithTasksUpTo
    <2>4. tasks[k + 1] \in TaskRows
      BY <2>1
    <2> DEFINE q == g[k]
               r == g[k + 1]
               task == tasks[k + 1]
    <2>8. q \in Seq(TaskRows) /\ IdsApart(q) /\ task \in TaskRows /\ r = PutTask(q, task)
      BY <2>2, <2>3, <2>4
    <2>5. /\ r \in Seq(TaskRows) /\ IdsApart(r) /\ DOMAIN q \subseteq DOMAIN r
          /\ \A i \in DOMAIN q : r[i].id = q[i].id
          /\ \A i \in DOMAIN r : r[i] = task \/ (i \in DOMAIN q /\ r[i] = q[i])
          /\ task.id \in IdsOf(r)
      <3> HIDE DEF q, r, task
      <3> QED
        BY <2>8, PutTaskOf
    <2>6. \A i \in DOMAIN r : \/ i \in DOMAIN s /\ r[i] = s[i]
                              \/ \E j \in DOMAIN tasks : r[i] = tasks[j]
      <3>1. k + 1 \in DOMAIN tasks
        BY <1>1, <2>1
      <3> HIDE DEF q, r
      <3>2. \A i \in DOMAIN q : \/ i \in DOMAIN s /\ q[i] = s[i]
                                \/ \E j \in DOMAIN tasks : q[i] = tasks[j]
        BY <2>2 DEF q
      <3> QED
        BY <2>5, <3>1, <3>2
    <2>7. DOMAIN s \subseteq DOMAIN r /\ \A i \in DOMAIN s : r[i].id = s[i].id
      BY <2>2, <2>5
    <2>9. \A i \in 1..(k + 1) : tasks[i].id \in IdsOf(r)
      <3>1. \A i \in 1..k : tasks[i].id \in IdsOf(q)
        BY <2>2
      <3>2. \A i \in 1..(k + 1) : i \in 1..k \/ i = k + 1
        BY <2>1
      <3>3. tasks[k + 1].id \in IdsOf(r)
        BY <2>5
      <3> HIDE DEF q, r, task
      <3>4. IdsOf(q) \subseteq IdsOf(r)
        BY <2>5 DEF IdsOf
      <3> QED
        BY <3>1, <3>2, <3>3, <3>4
    <2> HIDE DEF q, task
    <2> QED
      BY <2>5, <2>6, <2>7, <2>9
  <1>6. Nat \subseteq T
    <2> HIDE DEF T
    <2> QED
      BY <1>4, <1>5, Induction
  <1>7. Good(g[L], L)
    <2> HIDE DEF Good
    <2> QED
      BY <1>1, <1>6
  <1>8. \A i \in DOMAIN tasks : tasks[i].id \in IdsOf(g[L])
    BY <1>1, <1>7
  <1> HIDE DEF g
  <1> QED
    BY <1>1, <1>7, <1>8

LEMMA LeastOf ==
  ASSUME NEW S \in SUBSET Nat, S # {}
  PROVE  \E k \in S : \A j \in S : k <= j
  <1> DEFINE R == {xy \in Nat \X Nat : xy[1] < xy[2]}
  <1>1. IsWellFoundedOn(R, Nat)
    BY NatLessThanWellFounded DEF OpToRel
  <1>2. PICK k \in S : \A y \in S : <<y, k>> \notin R
    <2> HIDE DEF R
    <2> QED
      BY <1>1, WFMin
  <1>3. \A y \in S : ~(y < k)
    BY <1>2
  <1> QED
    BY <1>3

\* A task goes under the id of the row found, which is of its company.
LEMMA RenamedTask ==
  ASSUME queue \in Seq(TaskRows), \A k \in DOMAIN queue : Own(queue[k]),
         NEW task \in TaskRows, Own(task)
  PROVE  /\ Renamed(task) \in TaskRows /\ Own(Renamed(task))
         /\ Renamed(task).company = task.company /\ Renamed(task).home = task.home
         /\ \/ Renamed(task).id \in IdsOf(queue)
            \/ Renamed(task) = task /\ \A k \in DOMAIN queue : queue[k].company # task.company
         /\ Skipped(task) => queue # <<>>
  <1>0. DOMAIN queue = 1..Len(queue) /\ \A k \in DOMAIN queue : queue[k] \in TaskRows
    BY ListFacts
  <1> DEFINE named == {k \in DOMAIN queue : queue[k].company = task.company}
             direct == {k \in DOMAIN queue : queue[k].id = task.id}
  <1>1. Existing(task) \subseteq direct \union named /\ (Existing(task) = {} => named = {})
    <2>1. named # {} => First(named) # {} /\ First(named) \subseteq named
      <3>1. named \in SUBSET Nat
        BY <1>0
      <3>2. named # {} => \E k \in named : \A j \in named : k <= j
        BY <3>1, LeastOf
      <3> HIDE DEF named
      <3> QED
        BY <3>2 DEF First
    <2>2. named = {} => First(named) = {}
      BY DEF First
    <2>3. Existing(task) = IF direct # {} THEN direct ELSE First(named)
      BY DEF Existing
    <2> HIDE DEF named, direct
    <2> QED
      BY <2>1, <2>2, <2>3
  <1>2. CASE Existing(task) = {}
    BY <1>1, <1>2 DEF Renamed, Skipped
  <1>3. CASE Existing(task) # {}
    <2> DEFINE k == CHOOSE j \in Existing(task) : TRUE
    <2>1. k \in direct \union named /\ k \in DOMAIN queue
      BY <1>1, <1>3
    <2>2. Renamed(task) = [task EXCEPT !.id = queue[k].id]
      BY <1>3 DEF Renamed
    <2> HIDE DEF k
    <2>3. queue[k].id \in Whos \X Homes \X Reps /\ queue[k].id[1] = task.company
      BY <1>0, <2>1 DEF Own, TaskRows
    <2>4. queue[k].id \in IdsOf(queue) /\ queue # <<>>
      BY <2>1 DEF IdsOf
    <2> QED
      BY <2>2, <2>3, <2>4 DEF TaskRows, Own
  <1> QED
    BY <1>2, <1>3
-----------------------------------------------------------------------------
(* The invariant of the queue of Candidate Detail.                         *)

Targets == [browser : {"yes", "no"}, required : {"yes", "no"}]

\* The company's page was seen, by every crawl so far, and with it its homepage.
RowSeen(row) ==
  \E c \in Companies : /\ row.company = NormName(Site[c].name) /\ row.home \in {"", Site[c].home}
                       /\ c \in unseen \/ row.home = Site[c].home

CrawlInv ==
  /\ listing \in Seq(Listing) /\ coming \in Seq(Listing) /\ targets \in Seq(Targets)
  /\ pages \in Seq(Seq(Listing)) /\ cards \in Seq(CardRows)
  /\ cpc = "reading" => targets # <<>>
  /\ cpc = "publish" => queue # <<>>
  /\ \A x \in ToSet(cards) :
       x.co \in unseen \/ (x.home = Site[x.co].home /\ x.region = Site[x.co].region)
  /\ \A x, y \in ToSet(cards) : TwoTasks(x, y) => NormName(x.name) \in split

QueueInv ==
  /\ queue \in Seq(TaskRows) /\ IdsApart(queue)
  /\ \A k \in DOMAIN queue : Own(queue[k]) /\ RowSeen(queue[k])
  /\ OneTaskEach

\* A candidate taken from the queue is a copy of a row that stays.
Leased(t) ==
  /\ t.id \in IdsOf(queue) /\ t.id \in Whos \X Homes \X Reps /\ Own(t)
  /\ t.company \in Whos /\ t.home \in Homes /\ t.rep \in Reps /\ RowSeen(t)

EnrichInv ==
  /\ epc \in {"idle", "lookup", "settle", "publish"}
  /\ epc = "settle" => ~byTab
  /\ epc # "idle" /\ ~byTab =>
       /\ queue # <<>> /\ \E n \in Nat : DOMAIN taken = 1..n
       /\ \A k \in DOMAIN taken : Leased(taken[k])
  /\ epc \in {"settle", "publish"} =>
       /\ DOMAIN answers = DOMAIN taken
       /\ \A k \in DOMAIN taken :
            answers[k].status \in Lookups \union {"error"} /\ taken[k].company \in known

DetailInv == CrawlInv /\ QueueInv /\ EnrichInv

LEMMA RowSeenStays ==
  ASSUME NEW row, RowSeen(row), unseen \subseteq unseen'
  PROVE  RowSeen(row)'
  BY DEF RowSeen

\* What a step leaves alone.
LEMMA CrawlSame ==
  ASSUME CrawlInv, UNCHANGED <<crawl, past>>, listing' \in Seq(Listing), coming' \in Seq(Listing),
         queue # <<>> => queue' # <<>>
  PROVE  CrawlInv'
  BY DEF CrawlInv, crawl, past, TwoTasks, SameCompany, TaskOf

LEMMA QueueSame ==
  ASSUME QueueInv, UNCHANGED queue, unseen \subseteq unseen', split \subseteq split'
  PROVE  QueueInv'
  <1>1. \A k \in DOMAIN queue : RowSeen(queue[k])'
    BY RowSeenStays DEF QueueInv, RowSeen
  <1>2. OneTaskEach'
    BY DEF QueueInv, OneTaskEach
  <1> QED
    BY <1>1, <1>2 DEF QueueInv, IdsApart, Own

LEMMA EnrichSame ==
  ASSUME EnrichInv, UNCHANGED enrich, unseen \subseteq unseen', known \subseteq known',
         IdsOf(queue) \subseteq IdsOf(queue'), queue # <<>> => queue' # <<>>
  PROVE  EnrichInv'
  <1>1. ASSUME NEW k \in DOMAIN taken, Leased(taken[k]) PROVE Leased(taken[k])'
    <2>1. RowSeen(taken[k])'
      BY <1>1, RowSeenStays DEF Leased, RowSeen, enrich
    <2> QED
      BY <1>1, <2>1 DEF Leased, Own, IdsOf, enrich
  <1>2. UNCHANGED <<epc, taken, byTab, answers>>
    BY DEF enrich
  <1> QED
    BY <1>1, <1>2 DEF EnrichInv

LEMMA CrawlForgotten ==
  ASSUME CrawlInv, ForgetCrawl, UNCHANGED <<listing, coming, past>>
  PROVE  CrawlInv'
  <1>1. \A S : <<>> \in Seq(S)
    OBVIOUS
  <1>2. ToSet(<<>>) = {}
    BY DEF ToSet
  <1>3. cards' = <<>> /\ pages' = <<>> /\ targets' = <<>> /\ cpc' = "idle"
    BY DEF ForgetCrawl
  <1>4. ToSet(cards)' = {}
    BY <1>2, <1>3
  <1> QED
    BY <1>1, <1>3, <1>4 DEF CrawlInv

LEMMA EnrichForgotten ==
  ASSUME ForgetEnrich
  PROVE  EnrichInv'
  <1>1. epc' = "idle"
    BY DEF ForgetEnrich
  <1> QED
    BY <1>1 DEF EnrichInv

LEMMA DetailStarts == DetailInit => DetailInv
  <1> SUFFICES ASSUME DetailInit PROVE DetailInv
    OBVIOUS
  <1>1. \A S : <<>> \in Seq(S)
    OBVIOUS
  <1>2. ToSet(<<>>) = {} /\ DOMAIN <<>> = {} /\ DOMAIN <<>> = 1..0
    BY DEF ToSet
  <1>3. Listed \in Seq(Listing) /\ Coming \in Seq(Listing)
    BY DetailAssumption DEF DetailAssumption, Listing
  <1>4. CrawlInv
    BY <1>1, <1>2, <1>3 DEF DetailInit, CrawlInv
  <1>5. QueueInv
    BY <1>1, <1>2 DEF DetailInit, QueueInv, IdsApart, OneTaskEach
  <1>6. EnrichInv
    BY <1>2 DEF DetailInit, EnrichInv
  <1> QED
    BY <1>4, <1>5, <1>6 DEF DetailInv
-----------------------------------------------------------------------------
(* The steps of the crawl.                                                 *)

LEMMA TailOf ==
  ASSUME NEW S, NEW s \in Seq(S), s # <<>>
  PROVE  Tail(s) \in Seq(S) /\ Head(s) \in S
  OBVIOUS

LEMMA BeginCrawlStep == DetailInv /\ BeginCrawl => DetailInv'
  <1> SUFFICES ASSUME DetailInv, BeginCrawl PROVE DetailInv'
    OBVIOUS
  <1>1. targets' \in Seq(Targets) /\ cpc' = "target"
    BY DetailAssumption DEF BeginCrawl, DetailAssumption, Targets
  <1>2. UNCHANGED <<listing, coming, queue, known, pages, cards, enrich, past>>
    BY DEF BeginCrawl
  <1>3. CrawlInv'
    BY <1>1, <1>2 DEF DetailInv, CrawlInv, past, TwoTasks, SameCompany, TaskOf
  <1>4. QueueInv' /\ EnrichInv'
    BY <1>2, QueueSame, EnrichSame DEF DetailInv, past
  <1> QED
    BY <1>3, <1>4 DEF DetailInv

\* Cards that are taken, with their pages or without.
LEMMA CardsTaken ==
  ASSUME DetailInv, targets # <<>>, NEW found \in Seq(Listing), TakeCards(found),
         UNCHANGED <<listing, coming, queue, known, enrich>>
  PROVE  DetailInv'
  <1>1. PICK fetched \in SUBSET DOMAIN found :
          /\ cards' = cards \o [k \in DOMAIN found |->
                       Enriched(found[k], Site[found[k].co], k \in fetched, Target.browser)]
          /\ unseen' = unseen \union {found[k].co : k \in DOMAIN found \ fetched}
    BY DEF TakeCards
  <1> DEFINE more == [k \in DOMAIN found |->
                       Enriched(found[k], Site[found[k].co], k \in fetched, Target.browser)]
             Met(x) == x.co \in unseen' \/ (x.home = Site[x.co].home /\ x.region = Site[x.co].region)
  <1>2. DOMAIN found = 1..Len(found) /\ Len(found) \in Nat /\ \A k \in DOMAIN found : found[k] \in Listing
    BY ListFacts
  <1>3. Target.browser \in {"yes", "no"}
    <2>1. Target \in Targets
      BY TailOf DEF DetailInv, CrawlInv, Target
    <2> QED
      BY <2>1 DEF Targets
  <1>4. ASSUME NEW k \in DOMAIN found PROVE more[k] \in CardRows /\ Met(more[k])
    <2>1. found[k] \in Listing /\ (k \in fetched) \in BOOLEAN
      BY <1>2
    <2>2. more[k] = Enriched(found[k], Site[found[k].co], k \in fetched, Target.browser)
      OBVIOUS
    <2>3. /\ more[k] \in CardRows /\ more[k].co = found[k].co
          /\ k \in fetched => more[k].home = Site[found[k].co].home /\ more[k].region = Site[found[k].co].region
      BY <1>3, <2>1, <2>2, CardOf
    <2>4. k \notin fetched => found[k].co \in unseen'
      BY <1>1
    <2> HIDE DEF more
    <2> QED
      BY <2>3, <2>4
  <1>5. more \in Seq(CardRows)
    <2>1. more = [k \in 1..Len(found) |-> more[k]]
      BY <1>2
    <2> HIDE DEF more
    <2> QED
      BY <1>2, <1>4, <2>1, MakeList
  <1>6. \A x \in ToSet(more) : Met(x)
    <2>1. \A x \in ToSet(more) : \E k \in DOMAIN found : x = more[k]
      BY DEF ToSet
    <2> HIDE DEF more, Met
    <2> QED
      BY <1>4, <2>1
  <1>7. cards' = cards \o more
    BY <1>1
  <1> HIDE DEF more
  <1>8. cards \in Seq(CardRows)
    BY DEF DetailInv, CrawlInv
  <1>9. cards' \in Seq(CardRows) /\ ToSet(cards') = ToSet(cards) \union ToSet(more)
    BY <1>5, <1>7, <1>8, ToSetOfConcat
  <1>10. unseen \subseteq unseen'
    BY <1>1
  <1>11. \A x \in ToSet(cards) : Met(x)
    BY <1>10 DEF DetailInv, CrawlInv
  <1>12. split' = split \union {NormName(p.name) : p \in {p \in ToSet(cards') : \E q \in ToSet(cards') : TwoTasks(p, q)}}
    BY DEF TakeCards
  <1>13. \A x, y \in ToSet(cards') : TwoTasks(x, y) => NormName(x.name) \in split'
    BY <1>12
  <1>14. targets' \in Seq(Targets) /\ pages' = <<>> /\ cpc' = "target"
    BY TailOf DEF TakeCards, DetailInv, CrawlInv
  <1>15. \A x \in ToSet(cards') : Met(x)
    BY <1>6, <1>9, <1>11
  <1>16. CrawlInv'
    <2>1. listing' \in Seq(Listing) /\ coming' \in Seq(Listing) /\ pages' \in Seq(Seq(Listing))
      BY <1>14 DEF DetailInv, CrawlInv
    <2>2. ToSet(cards)' = ToSet(cards') /\ \A x, y : TwoTasks(x, y)' = TwoTasks(x, y)
      BY DEF TwoTasks
    <2> QED
      BY <1>9, <1>13, <1>14, <1>15, <2>1, <2>2 DEF CrawlInv
  <1>17. QueueInv' /\ EnrichInv'
    BY <1>10, <1>12, QueueSame, EnrichSame DEF DetailInv
  <1> QED
    BY <1>16, <1>17 DEF DetailInv

LEMMA ReadPlainStep == DetailInv /\ ReadPlain => DetailInv'
  <1> SUFFICES ASSUME DetailInv, ReadPlain PROVE DetailInv'
    OBVIOUS
  <1> DEFINE found == Take(Take(listing, PageSize), MaxCards)
  <1>1. PageSize \in Nat /\ MaxCards \in Nat /\ listing \in Seq(Listing)
    BY DetailAssumption DEF DetailAssumption, DetailInv, CrawlInv
  <1>2. found \in Seq(Listing)
    BY <1>1, TakeOf
  <1>3. TakeCards(found) /\ targets # <<>> /\ UNCHANGED <<listing, coming, queue, known, enrich>>
    BY DEF ReadPlain
  <1> HIDE DEF found
  <1> QED
    BY <1>2, <1>3, CardsTaken

LEMMA OpenBrowserStep == DetailInv /\ OpenBrowser => DetailInv'
  <1> SUFFICES ASSUME DetailInv, OpenBrowser PROVE DetailInv'
    OBVIOUS
  <1>1. UNCHANGED <<listing, coming, queue, known, enrich, past>> /\ targets # <<>>
    BY DEF OpenBrowser
  <1>3. CrawlInv'
    <2>1. CASE ForgetCrawl
      BY <1>1, <2>1, CrawlForgotten DEF DetailInv
    <2>2. CASE ~ForgetCrawl
      <3>1. cpc' = "reading" /\ UNCHANGED <<targets, pages, cards>>
        BY <2>2 DEF OpenBrowser
      <3> QED
        BY <1>1, <3>1 DEF DetailInv, CrawlInv, past, TwoTasks, SameCompany, TaskOf
    <2> QED
      BY <2>1, <2>2
  <1>4. QueueInv' /\ EnrichInv'
    BY <1>1, QueueSame, EnrichSame DEF DetailInv, past
  <1> QED
    BY <1>3, <1>4 DEF DetailInv

LEMMA ChallengeStep == DetailInv /\ Challenge => DetailInv'
  <1> SUFFICES ASSUME DetailInv, Challenge PROVE DetailInv'
    OBVIOUS
  <1>1. /\ UNCHANGED <<listing, coming, queue, known, cpc, pages, cards, enrich, past>>
        /\ targets # <<>> /\ cpc = "target" /\ targets' = Tail(targets)
    BY DEF Challenge
  <1>2. targets' \in Seq(Targets)
    BY <1>1, TailOf DEF DetailInv, CrawlInv
  <1>3. CrawlInv'
    BY <1>1, <1>2 DEF DetailInv, CrawlInv, past, TwoTasks, SameCompany, TaskOf
  <1>4. QueueInv' /\ EnrichInv'
    BY <1>1, QueueSame, EnrichSame DEF DetailInv, past
  <1> QED
    BY <1>3, <1>4 DEF DetailInv

LEMMA PartOf ==
  ASSUME NEW S, NEW s \in Seq(S), NEW m \in Nat, m > 0, NEW n \in Int, n <= Len(s)
  PROVE  SubSeq(s, m, n) \in Seq(S)
  OBVIOUS

LEMMA Sizes == PageSize \in Nat /\ MaxPages \in Nat /\ MaxCards \in Nat /\ MaxBatch \in Nat
  BY DetailAssumption DEF DetailAssumption

LEMMA PageOf ==
  ASSUME listing \in Seq(Listing), NEW k \in Nat, k > 0
  PROVE  Page(k) \in Seq(Listing)
  <1> DEFINE m == (k - 1) * PageSize + 1
             n == Least(k * PageSize, Len(listing))
  <1>1. PageSize \in Nat /\ Len(listing) \in Nat
    BY Sizes
  <1>2. (k - 1) * PageSize \in Nat /\ k * PageSize \in Nat
    BY <1>1
  <1>3. m \in Nat /\ m > 0
    BY <1>2
  <1>4. n \in Int /\ n <= Len(listing)
    BY <1>1, <1>2 DEF Least
  <1>5. Page(k) = SubSeq(listing, m, n)
    BY DEF Page
  <1> HIDE DEF m, n
  <1> QED
    BY <1>3, <1>4, <1>5, PartOf

LEMMA ReadPageStep == DetailInv /\ ReadPage => DetailInv'
  <1> SUFFICES ASSUME DetailInv, ReadPage PROVE DetailInv'
    OBVIOUS
  <1>1. PICK k \in 1..(Len(pages) + 1) :
          LET read == Append(pages, Page(k))
          IN  \/ TakeCards(FromPages(read, MaxCards))
              \/ pages' = read /\ UNCHANGED <<cpc, targets, cards, past>>
    BY DEF ReadPage
  <1>2. /\ UNCHANGED <<listing, coming, queue, known, enrich>> /\ cpc = "reading"
    BY DEF ReadPage
  <1>3. pages \in Seq(Seq(Listing)) /\ listing \in Seq(Listing) /\ targets # <<>>
    BY <1>2 DEF DetailInv, CrawlInv
  <1> DEFINE read == Append(pages, Page(k))
  <1>4. read \in Seq(Seq(Listing))
    <2>1. k \in Nat /\ k > 0
      BY <1>3
    <2> QED
      BY <1>3, <2>1, PageOf
  <1>5. FromPages(read, MaxCards) \in Seq(Listing)
    <2>1. MaxCards \in Nat
      BY DetailAssumption DEF DetailAssumption
    <2> QED
      BY <1>4, <2>1, FromPagesCards
  <1>6. TakeCards(FromPages(read, MaxCards)) \/ (pages' = read /\ UNCHANGED <<cpc, targets, cards, past>>)
    BY <1>1
  <1> HIDE DEF read
  <1>7. CASE TakeCards(FromPages(read, MaxCards))
    BY <1>2, <1>3, <1>5, <1>7, CardsTaken
  <1>8. CASE pages' = read /\ UNCHANGED <<cpc, targets, cards, past>>
    <2>1. CrawlInv'
      BY <1>2, <1>4, <1>8 DEF DetailInv, CrawlInv, past, TwoTasks, SameCompany, TaskOf
    <2>2. QueueInv' /\ EnrichInv'
      BY <1>2, <1>8, QueueSame, EnrichSame DEF DetailInv, past
    <2> QED
      BY <2>1, <2>2 DEF DetailInv
  <1> QED
    BY <1>6, <1>7, <1>8

LEMMA PublishCardsStep == DetailInv /\ PublishCards => DetailInv'
  <1> SUFFICES ASSUME DetailInv, PublishCards PROVE DetailInv'
    OBVIOUS
  <1>1. ForgetCrawl /\ UNCHANGED <<listing, coming, queue, known, enrich, past>>
    BY DEF PublishCards
  <1> QED
    BY <1>1, CrawlForgotten, QueueSame, EnrichSame DEF DetailInv, past
\* What is queued are tasks of cards, each under the id of the row found.
LEMMA Queued2 ==
  ASSUME DetailInv, QueueCards
  PROVE  \E tasks \in Seq(TaskRows) :
           /\ queue' = WithTasks(queue, tasks)
           /\ \A i \in DOMAIN tasks : \E x \in ToSet(cards) : tasks[i] = Renamed(TaskOf(x))
           /\ \A x \in ToSet(cards) : Skipped(TaskOf(x)) \/ tasks # <<>>
  <1> DEFINE all  == [k \in DOMAIN cards |-> TaskOf(cards[k])]
             kept == {t \in {TaskOf(card) : card \in ToSet(cards)} : ~Skipped(t)}
             new  == Sheet!Only(all, kept)
             tasks == [k \in DOMAIN new |-> Renamed(new[k])]
  <1>1. queue' = WithTasks(queue, tasks)
    BY DEF QueueCards
  <1>2. cards \in Seq(CardRows) /\ queue \in Seq(TaskRows) /\ \A k \in DOMAIN queue : Own(queue[k])
    BY DEF DetailInv, CrawlInv, QueueInv
  <1>3. DOMAIN cards = 1..Len(cards) /\ Len(cards) \in Nat /\ \A k \in DOMAIN cards : cards[k] \in CardRows
    BY <1>2, ListFacts
  <1>4. \A x \in ToSet(cards) : x \in CardRows
    BY <1>2, ToSetOfList
  <1>5. all \in Seq(TaskRows) /\ ToSet(all) = {TaskOf(card) : card \in ToSet(cards)}
    <2>1. \A k \in 1..Len(cards) : all[k] \in TaskRows
      BY <1>3, TaskOfCard
    <2>2. all = [k \in 1..Len(cards) |-> all[k]]
      BY <1>3
    <2>3. ToSet(all) = {TaskOf(cards[k]) : k \in DOMAIN cards} /\ ToSet(cards) = {cards[k] : k \in DOMAIN cards}
      BY DEF ToSet
    <2> HIDE DEF all
    <2>4. all \in Seq(TaskRows)
      BY <1>3, <2>1, <2>2, MakeList
    <2> QED
      BY <2>3, <2>4
  <1> HIDE DEF all
  <1>6. new \in Seq(TaskRows) /\ ToSet(new) = kept
    <2>1. new \in Seq(TaskRows \intersect kept) /\ ToSet(new) = ToSet(all) \intersect kept
      BY <1>5, KeptIsOnly
    <2>2. kept \subseteq ToSet(all)
      BY <1>5
    <2> HIDE DEF new, kept
    <2>3. new \in Seq(TaskRows)
      <3>1. \A r \in TaskRows \intersect kept : r \in TaskRows
        OBVIOUS
      <3> QED
        BY <2>1
    <2> QED
      BY <2>1, <2>2, <2>3
  <1>7. \A t \in kept : \E x \in ToSet(cards) : t = TaskOf(x)
    OBVIOUS
  <1>8. \A x \in ToSet(cards) : Skipped(TaskOf(x)) \/ TaskOf(x) \in kept
    OBVIOUS
  <1> HIDE DEF new, kept
  <1>9. DOMAIN new = 1..Len(new) /\ Len(new) \in Nat /\ \A k \in DOMAIN new : new[k] \in kept /\ new[k] \in TaskRows
    <2>1. \A k \in DOMAIN new : new[k] \in ToSet(new)
      BY DEF ToSet
    <2> QED
      BY <1>6, <2>1, ListFacts
  <1>10. ASSUME NEW k \in DOMAIN new
         PROVE  /\ Renamed(new[k]) \in TaskRows
                /\ \E x \in ToSet(cards) : Renamed(new[k]) = Renamed(TaskOf(x))
    <2>1. PICK x \in ToSet(cards) : new[k] = TaskOf(x)
      BY <1>7, <1>9
    <2>2. TaskOf(x) \in TaskRows /\ Own(TaskOf(x))
      BY <1>4, TaskOfCard
    <2>3. Renamed(TaskOf(x)) \in TaskRows
      BY <1>2, <2>2, RenamedTask
    <2> QED
      BY <2>1, <2>3
  <1>11. tasks \in Seq(TaskRows) /\ DOMAIN tasks = DOMAIN new
    <2>1. tasks = [k \in 1..Len(new) |-> tasks[k]] /\ \A k \in 1..Len(new) : tasks[k] \in TaskRows
      BY <1>9, <1>10
    <2>2. DOMAIN tasks = DOMAIN new
      OBVIOUS
    <2> HIDE DEF tasks
    <2> QED
      BY <1>9, <2>1, <2>2, MakeList
  <1>12. \A i \in DOMAIN tasks : \E x \in ToSet(cards) : tasks[i] = Renamed(TaskOf(x))
    BY <1>10
  <1>13. kept # {} => tasks # <<>>
    <2>1. kept # {} => DOMAIN new # {}
      BY <1>6 DEF ToSet
    <2> HIDE DEF tasks
    <2> QED
      BY <1>11, <2>1
  <1> HIDE DEF tasks
  <1> QED
    BY <1>1, <1>8, <1>11, <1>12, <1>13

LEMMA QueueCardsStep == DetailInv /\ QueueCards => DetailInv'
  <1> SUFFICES ASSUME DetailInv, QueueCards PROVE DetailInv'
    OBVIOUS
  <1>1. PICK tasks \in Seq(TaskRows) :
           /\ queue' = WithTasks(queue, tasks)
           /\ \A i \in DOMAIN tasks : \E x \in ToSet(cards) : tasks[i] = Renamed(TaskOf(x))
           /\ \A x \in ToSet(cards) : Skipped(TaskOf(x)) \/ tasks # <<>>
    BY Queued2
  <1>2. UNCHANGED <<listing, coming, known, tab, enrich, past>>
    BY DEF QueueCards
  <1>3. /\ queue \in Seq(TaskRows) /\ IdsApart(queue) /\ cards \in Seq(CardRows)
        /\ \A k \in DOMAIN queue : Own(queue[k]) /\ RowSeen(queue[k])
    BY DEF DetailInv, CrawlInv, QueueInv
  <1> DEFINE r == queue'
  <1>4. /\ r \in Seq(TaskRows) /\ IdsApart(r) /\ DOMAIN queue \subseteq DOMAIN r
        /\ \A k \in DOMAIN queue : r[k].id = queue[k].id
        /\ \A k \in DOMAIN r : \/ k \in DOMAIN queue /\ r[k] = queue[k]
                               \/ \E i \in DOMAIN tasks : r[k] = tasks[i]
        /\ \A i \in DOMAIN tasks : tasks[i].id \in IdsOf(r)
    BY <1>1, <1>3, WithTasksOf
  <1> HIDE DEF r
  \* Of a card.
  <1>5. ASSUME NEW x \in ToSet(cards)
        PROVE  LET t == Renamed(TaskOf(x))
               IN  /\ t \in TaskRows /\ Own(t) /\ RowSeen(t) /\ t.company = NormName(x.name)
                   /\ t.id \in IdsOf(queue) \/ (t = TaskOf(x) /\ \A k \in DOMAIN queue : queue[k].company # t.company)
                   /\ Skipped(TaskOf(x)) => queue # <<>>
    <2> DEFINE t == Renamed(TaskOf(x))
               s == TaskOf(x)
    <2>1. x \in CardRows
      BY <1>3, ToSetOfList
    <2>2. /\ s \in TaskRows /\ Own(s) /\ s.company = NormName(Site[x.co].name)
          /\ s.home = x.home /\ x.name = Site[x.co].name
      BY <2>1, TaskOfCard
    <2>3. /\ t \in TaskRows /\ Own(t) /\ t.company = s.company /\ t.home = s.home
          /\ \/ t.id \in IdsOf(queue)
             \/ t = s /\ \A k \in DOMAIN queue : queue[k].company # s.company
          /\ Skipped(s) => queue # <<>>
      <3>1. t = Renamed(s)
        OBVIOUS
      <3> HIDE DEF s, t
      <3> QED
        BY <1>3, <2>2, <3>1, RenamedTask
    <2>4. x.co \in Companies /\ x.home \in {"", Site[x.co].home} /\ (x.co \in unseen \/ x.home = Site[x.co].home)
      BY <2>1, CardFields DEF DetailInv, CrawlInv
    <2> HIDE DEF t, s
    <2>5. RowSeen(t)
      BY <2>2, <2>3, <2>4 DEF RowSeen
    <2> QED
      BY <2>2, <2>3, <2>5 DEF t, s
  <1>6. ASSUME NEW k \in DOMAIN r PROVE Own(r[k]) /\ RowSeen(r[k])
    BY <1>1, <1>3, <1>4, <1>5
  \* A row that is new is of a card whose company has no row yet.
  <1>7. ASSUME NEW k \in DOMAIN r, k \notin DOMAIN queue
        PROVE  \E x \in ToSet(cards) : /\ r[k] = TaskOf(x) /\ r[k].company = NormName(x.name)
                                       /\ \A j \in DOMAIN queue : queue[j].company # r[k].company
    <2>1. PICK i \in DOMAIN tasks : r[k] = tasks[i]
      BY <1>4, <1>7
    <2>2. PICK x \in ToSet(cards) : tasks[i] = Renamed(TaskOf(x))
      BY <1>1
    <2>3. r[k].id \notin IdsOf(queue)
      <3>1. \A j \in DOMAIN queue : r[j].id # r[k].id
        BY <1>4, <1>7 DEF IdsApart
      <3> QED
        BY <1>4, <3>1 DEF IdsOf
    <2> QED
      BY <1>5, <2>1, <2>2, <2>3
  <1>8. ASSUME NEW j \in DOMAIN r, NEW k \in DOMAIN r, j # k, r[j].company = r[k].company
        PROVE  r[j].company \in split
    <2>1. \A i \in DOMAIN queue : r[i].company = queue[i].company
      BY <1>3, <1>4, <1>6 DEF Own
    <2>2. CASE j \in DOMAIN queue /\ k \in DOMAIN queue
      BY <1>8, <2>1, <2>2 DEF DetailInv, QueueInv, OneTaskEach
    <2>3. CASE j \in DOMAIN queue /\ k \notin DOMAIN queue
      BY <1>7, <1>8, <2>1, <2>3
    <2>4. CASE j \notin DOMAIN queue /\ k \in DOMAIN queue
      BY <1>7, <1>8, <2>1, <2>4
    <2>5. CASE j \notin DOMAIN queue /\ k \notin DOMAIN queue
      <3>1. PICK x \in ToSet(cards) : r[j] = TaskOf(x) /\ r[j].company = NormName(x.name)
        BY <1>7, <2>5
      <3>2. PICK y \in ToSet(cards) : r[k] = TaskOf(y) /\ r[k].company = NormName(y.name)
        BY <1>7, <2>5
      <3>3. r[j].id # r[k].id
        BY <1>4, <1>8 DEF IdsApart
      <3>4. TwoTasks(x, y)
        BY <1>8, <3>1, <3>2, <3>3 DEF TwoTasks, SameCompany
      <3> QED
        BY <3>1, <3>4 DEF DetailInv, CrawlInv
    <2> QED
      BY <2>2, <2>3, <2>4, <2>5
  <1>9. QueueInv'
    <2>1. OneTaskEach'
      BY <1>2, <1>8 DEF OneTaskEach, past, r
    <2>2. UNCHANGED unseen
      BY <1>2 DEF past
    <2>3. \A k \in DOMAIN queue' : Own(queue[k])' /\ RowSeen(queue[k])'
      BY <1>6, <2>2 DEF Own, RowSeen, r
    <2>4. queue' \in Seq(TaskRows) /\ IdsApart(queue)'
      BY <1>4 DEF r, IdsApart
    <2> QED
      BY <2>1, <2>3, <2>4 DEF QueueInv
  <1>10. IdsOf(queue) \subseteq IdsOf(r) /\ (queue # <<>> => r # <<>>)
    <2>1. IdsOf(queue) \subseteq IdsOf(r)
      BY <1>4 DEF IdsOf
    <2>2. queue # <<>> => DOMAIN queue # {}
      BY <1>3
    <2>3. r = <<>> => DOMAIN r = {}
      OBVIOUS
    <2> QED
      BY <1>4, <2>1, <2>2, <2>3
  <1>11. EnrichInv'
    BY <1>2, <1>10, EnrichSame DEF DetailInv, past, r
  <1>12. cards # <<>> => r # <<>>
    <2> SUFFICES ASSUME cards # <<>> PROVE r # <<>>
      OBVIOUS
    <2>1. cards[1] \in ToSet(cards)
      BY <1>3 DEF ToSet
    <2>2. CASE Skipped(TaskOf(cards[1]))
      BY <1>5, <1>10, <2>1, <2>2
    <2>3. CASE tasks # <<>>
      <3>1. PICK i \in DOMAIN tasks : TRUE
        <4>1. DOMAIN tasks # {}
          BY <1>1, <2>3
        <4> QED
          BY <4>1
      <3>2. tasks[i].id \in IdsOf(r)
        BY <1>4
      <3>3. r = <<>> => IdsOf(r) = {}
        BY DEF IdsOf
      <3> QED
        BY <3>2, <3>3
    <2> QED
      BY <1>1, <2>1, <2>2, <2>3
  <1>13. CrawlInv'
    <2>1. CASE cards = <<>>
      BY <1>2, <2>1, CrawlForgotten DEF DetailInv, QueueCards
    <2>2. CASE cards # <<>>
      <3>1. cpc' = "publish" /\ UNCHANGED <<targets, pages, cards>>
        BY <2>2 DEF QueueCards
      <3> QED
        BY <1>2, <1>12, <2>2, <3>1 DEF DetailInv, CrawlInv, past, TwoTasks, SameCompany, TaskOf, r
    <2> QED
      BY <2>1, <2>2
  <1> QED
    BY <1>9, <1>11, <1>13 DEF DetailInv
-----------------------------------------------------------------------------
(* The steps of the enrichment, and of the rest of the world.              *)

\* Rows whose status or age changes stay the rows they were.
LEMMA RowsStay ==
  ASSUME QueueInv, UNCHANGED past, NEW r, queue' = r, DOMAIN r = DOMAIN queue,
         r = [k \in DOMAIN queue |-> r[k]],
         \A k \in DOMAIN queue : /\ r[k] \in TaskRows /\ r[k].id = queue[k].id
                                 /\ r[k].company = queue[k].company /\ r[k].home = queue[k].home
  PROVE  QueueInv' /\ IdsOf(queue') = IdsOf(queue) /\ (queue # <<>> => queue' # <<>>)
  <1>1. queue \in Seq(TaskRows) /\ DOMAIN queue = 1..Len(queue) /\ Len(queue) \in Nat
    BY ListFacts DEF QueueInv
  <1>2. r \in Seq(TaskRows)
    BY <1>1, MakeList
  <1>3. IdsApart(r) /\ IdsOf(r) = IdsOf(queue)
    BY DEF QueueInv, IdsApart, IdsOf
  <1>4. ASSUME NEW k \in DOMAIN queue PROVE Own(r[k]) /\ RowSeen(r[k])
    <2>1. Own(queue[k]) /\ RowSeen(queue[k])
      BY DEF QueueInv
    <2>2. r[k].id = queue[k].id /\ r[k].company = queue[k].company /\ r[k].home = queue[k].home
      OBVIOUS
    <2> QED
      BY <2>1, <2>2 DEF Own, RowSeen
  <1>5. UNCHANGED <<unseen, split>>
    BY DEF past
  <1>6. OneTaskEach'
    BY <1>5 DEF QueueInv, OneTaskEach
  <1>7. \A k \in DOMAIN queue' : Own(queue[k])' /\ RowSeen(queue[k])'
    BY <1>4, <1>5, ZenonT(60) DEF Own, RowSeen
  <1>8. queue' \in Seq(TaskRows) /\ IdsApart(queue)'
    BY <1>2, <1>3 DEF IdsApart
  <1>9. queue # <<>> => queue' # <<>>
    <2>1. queue # <<>> => DOMAIN queue # {}
      BY <1>1
    <2>2. r = <<>> => DOMAIN r = {}
      OBVIOUS
    <2> QED
      BY <2>1, <2>2
  <1> QED
    BY <1>3, <1>6, <1>7, <1>8, <1>9 DEF QueueInv

LEMMA TakeFromQueueStep == DetailInv /\ TakeFromQueue => DetailInv'
  <1> SUFFICES ASSUME DetailInv, TakeFromQueue PROVE DetailInv'
    OBVIOUS
  <1>0. PICK n \in 1..MaxBatch : \E due \in [1..n -> {k \in DOMAIN queue : Leasable(k)}] :
          /\ Begin([j \in 1..n |-> FromTask(queue[due[j]])], FALSE)
          /\ queue' = [k \in DOMAIN queue |-> IF \E j \in 1..n : due[j] = k
                         THEN [queue[k] EXCEPT !.status = "running"] ELSE queue[k]]
    BY DEF TakeFromQueue
  <1>1. PICK due \in [1..n -> {k \in DOMAIN queue : Leasable(k)}] :
          /\ Begin([j \in 1..n |-> FromTask(queue[due[j]])], FALSE)
          /\ queue' = [k \in DOMAIN queue |-> IF \E j \in 1..n : due[j] = k
                         THEN [queue[k] EXCEPT !.status = "running"] ELSE queue[k]]
    BY <1>0
  <1>2. UNCHANGED <<listing, coming, known, crawl, past>>
    BY DEF TakeFromQueue
  <1>3. queue \in Seq(TaskRows) /\ \A k \in DOMAIN queue : queue[k] \in TaskRows
    BY ListFacts DEF DetailInv, QueueInv
  <1> DEFINE r == queue'
  <1>4. /\ DOMAIN r = DOMAIN queue /\ r = [k \in DOMAIN queue |-> r[k]]
        /\ \A k \in DOMAIN queue : r[k] = [queue[k] EXCEPT !.status = "running"] \/ r[k] = queue[k]
    BY <1>1
  <1>5. \A k \in DOMAIN queue :
          [queue[k] EXCEPT !.status = "running"] \in TaskRows
            /\ [queue[k] EXCEPT !.status = "running"].id = queue[k].id
            /\ [queue[k] EXCEPT !.status = "running"].company = queue[k].company
            /\ [queue[k] EXCEPT !.status = "running"].home = queue[k].home
    BY <1>3 DEF TaskRows
  <1>6. \A k \in DOMAIN queue : /\ r[k] \in TaskRows /\ r[k].id = queue[k].id
                                /\ r[k].company = queue[k].company /\ r[k].home = queue[k].home
    BY <1>3, <1>4, <1>5
  <1>7. queue' = r
    OBVIOUS
  <1> HIDE DEF r
  <1>8. QueueInv' /\ IdsOf(queue') = IdsOf(queue) /\ (queue # <<>> => queue' # <<>>)
    BY <1>2, <1>4, <1>6, <1>7, RowsStay DEF DetailInv
  <1>9. CrawlInv'
    BY <1>2, <1>8, CrawlSame DEF DetailInv, CrawlInv
  <1>10. EnrichInv'
    <2>1. /\ taken' = [j \in 1..n |-> FromTask(queue[due[j]])] /\ byTab' = FALSE
          /\ epc' = "lookup"
      BY <1>1 DEF Begin
    <2>2. n \in Nat /\ DOMAIN taken' = 1..n
      <3>1. MaxBatch \in Nat
        BY Sizes
      <3> QED
        BY <2>1, <3>1
    <2>3. UNCHANGED unseen
      BY <1>2 DEF past
    <2>4. ASSUME NEW j \in 1..n PROVE Leased(taken[j])'
      <3> DEFINE k == due[j]
                 t == FromTask(queue[k])
      <3>1. k \in DOMAIN queue
        BY <1>1
      <3>2. taken'[j] = t
        BY <2>1
      <3> HIDE DEF k
      <3>3. /\ t.id = queue[k].id /\ t.company = queue[k].company /\ t.home = queue[k].home
            /\ t.rep = queue[k].rep
        BY DEF FromTask
      <3>4. queue[k] \in TaskRows /\ Own(queue[k]) /\ RowSeen(queue[k]) /\ queue[k].id \in IdsOf(queue)
        BY <1>3, <3>1 DEF DetailInv, QueueInv, IdsOf
      <3> HIDE DEF t
      <3>5. /\ t.id \in IdsOf(queue) /\ t.id \in Whos \X Homes \X Reps /\ t.id[1] = t.company
            /\ t.company \in Whos /\ t.home \in Homes /\ t.rep \in Reps /\ RowSeen(t)
        BY <3>3, <3>4 DEF TaskRows, Own, RowSeen
      <3> QED
        BY <1>8, <2>3, <3>2, <3>5 DEF Leased, Own, RowSeen
    <2>5. queue' # <<>>
      <3>1. 1 \in 1..n
        BY <1>0, <2>2
      <3>2. due[1] \in DOMAIN queue
        BY <1>1, <3>1
      <3> QED
        BY <1>8, <3>2
    <2> QED
      BY <2>1, <2>2, <2>4, <2>5 DEF EnrichInv
  <1> QED
    BY <1>8, <1>9, <1>10 DEF DetailInv

LEMMA TakeFromTabStep == ASSUME NEW names, DetailInv, TakeFromTab(names) PROVE DetailInv'
  <1>1. UNCHANGED <<listing, coming, queue, known, tab, crawl, past>>
    BY DEF TakeFromTab
  <1>2. CrawlInv' /\ QueueInv'
    BY <1>1, CrawlSame, QueueSame DEF DetailInv, CrawlInv, past
  <1>3. byTab' = TRUE /\ epc' = "lookup"
    BY DEF TakeFromTab, Begin
  <1>4. EnrichInv'
    BY <1>3 DEF EnrichInv
  <1> QED
    BY <1>2, <1>4 DEF DetailInv

LEMMA ChosenStatus ==
  ASSUME NEW company, NEW candidate, NEW results
  PROVE  ChooseResult(company, candidate, results).status \in Lookups
  BY DEF ChooseResult, Lookups

LEMMA LookUpStep == DetailInv /\ LookUp => DetailInv'
  <1> SUFFICES ASSUME DetailInv, LookUp PROVE DetailInv'
    OBVIOUS
  <1>1. UNCHANGED <<listing, coming, queue, crawl, taken, byTab, past>> /\ epc = "lookup"
    BY DEF LookUp
  <1>2. CrawlInv' /\ QueueInv'
    BY <1>1, CrawlSame, QueueSame DEF DetailInv, CrawlInv, past
  <1>3. PICK errors \in SUBSET DOMAIN taken :
          answers' = [k \in DOMAIN taken |->
            IF k \in errors THEN Failed
            ELSE ChooseResult(taken[k].company, taken[k], Search[NormName(taken[k].company)])]
    BY DEF LookUp
  <1>4. ASSUME NEW k \in DOMAIN taken PROVE answers'[k].status \in Lookups \union {"error"}
    BY <1>3, ChosenStatus DEF Failed
  <1>5. DOMAIN answers' = DOMAIN taken
    BY <1>3
  <1>6. known' = known \union {taken[k].company : k \in DOMAIN taken}
        /\ epc' = IF byTab THEN "publish" ELSE "settle"
    BY DEF LookUp
  <1>7. UNCHANGED unseen
    BY <1>1 DEF past
  <1>8. \A k \in DOMAIN taken : Leased(taken[k]) => Leased(taken[k])'
    BY <1>1, <1>7 DEF Leased, IdsOf, Own, RowSeen
  <1>9. EnrichInv'
    BY <1>1, <1>4, <1>5, <1>6, <1>8 DEF DetailInv, EnrichInv
  <1> QED
    BY <1>2, <1>9 DEF DetailInv

LEMMA SettleTasksStep == DetailInv /\ SettleTasks => DetailInv'
  <1> SUFFICES ASSUME DetailInv, SettleTasks PROVE DetailInv'
    OBVIOUS
  <1>1. PICK spent \in BOOLEAN :
           queue' = WithTasks(queue, [k \in DOMAIN taken |->
             [id |-> taken[k].id, company |-> taken[k].company, home |-> taken[k].home,
              rep |-> taken[k].rep, fresh |-> answers[k].status # "error",
              status |-> IF answers[k].status # "error" THEN answers[k].status
                         ELSE IF spent THEN "failed" ELSE "retry"]])
    BY DEF SettleTasks
  <1> DEFINE tasks == [k \in DOMAIN taken |->
             [id |-> taken[k].id, company |-> taken[k].company, home |-> taken[k].home,
              rep |-> taken[k].rep, fresh |-> answers[k].status # "error",
              status |-> IF answers[k].status # "error" THEN answers[k].status
                         ELSE IF spent THEN "failed" ELSE "retry"]]
  <1>2. /\ UNCHANGED <<listing, coming, known, crawl, taken, byTab, answers, past>>
        /\ epc = "settle" /\ epc' = "publish"
    BY DEF SettleTasks
  <1>3. /\ queue \in Seq(TaskRows) /\ IdsApart(queue) /\ queue # <<>> /\ ~byTab
        /\ \A k \in DOMAIN queue : Own(queue[k]) /\ RowSeen(queue[k])
        /\ \A k \in DOMAIN taken : Leased(taken[k]) /\ answers[k].status \in Lookups \union {"error"}
    BY <1>2 DEF DetailInv, QueueInv, EnrichInv
  <1>4. PICK n \in Nat : DOMAIN taken = 1..n
    BY <1>2, <1>3 DEF DetailInv, EnrichInv
  <1>5. ASSUME NEW k \in DOMAIN taken
        PROVE  /\ tasks[k] \in TaskRows /\ Own(tasks[k]) /\ RowSeen(tasks[k])
               /\ tasks[k].id = taken[k].id
    <2> DEFINE status2 == IF answers[k].status # "error" THEN answers[k].status
                          ELSE IF spent THEN "failed" ELSE "retry"
    <2>1. status2 \in {"pending", "retry", "running", "failed"} \union Lookups
      BY <1>3
    <2>2. tasks[k] = [id |-> taken[k].id, company |-> taken[k].company, home |-> taken[k].home,
                      rep |-> taken[k].rep, fresh |-> answers[k].status # "error", status |-> status2]
      OBVIOUS
    <2> HIDE DEF status2, tasks
    <2>3. /\ taken[k].id \in Whos \X Homes \X Reps /\ taken[k].company \in Whos
          /\ taken[k].home \in Homes /\ taken[k].rep \in Reps
      BY <1>3 DEF Leased
    <2>4. tasks[k] \in TaskRows
      BY <2>1, <2>2, <2>3 DEF TaskRows
    <2>5. Own(taken[k]) /\ RowSeen(taken[k])
      BY <1>3 DEF Leased
    <2>6. tasks[k].id = taken[k].id /\ tasks[k].company = taken[k].company /\ tasks[k].home = taken[k].home
      BY <2>2
    <2>7. Own(tasks[k]) /\ RowSeen(tasks[k])
      BY <2>5, <2>6 DEF Own, RowSeen
    <2> QED
      BY <2>4, <2>6, <2>7
  <1>6. tasks \in Seq(TaskRows) /\ DOMAIN tasks = DOMAIN taken
    <2>1. tasks = [k \in 1..n |-> tasks[k]] /\ \A k \in 1..n : tasks[k] \in TaskRows
      BY <1>4, <1>5
    <2>2. DOMAIN tasks = DOMAIN taken
      OBVIOUS
    <2> HIDE DEF tasks
    <2> QED
      BY <1>4, <2>1, <2>2, MakeList
  <1>7. queue' = WithTasks(queue, tasks)
    BY <1>1
  <1> HIDE DEF tasks
  <1> DEFINE r == WithTasks(queue, tasks)
  <1>8. /\ r \in Seq(TaskRows) /\ IdsApart(r) /\ DOMAIN queue \subseteq DOMAIN r
        /\ \A k \in DOMAIN queue : r[k].id = queue[k].id
        /\ \A k \in DOMAIN r : \/ k \in DOMAIN queue /\ r[k] = queue[k]
                               \/ \E i \in DOMAIN tasks : r[k] = tasks[i]
    BY <1>3, <1>6, WithTasksOf
  <1> HIDE DEF r
  <1>9. \A k \in DOMAIN r : Own(r[k]) /\ RowSeen(r[k])
    BY <1>3, <1>5, <1>6, <1>8
  \* No row is new: those of the tasks are still there.
  <1>10. ASSUME NEW k \in DOMAIN r PROVE k \in DOMAIN queue /\ r[k].company = queue[k].company
    <2>1. k \in DOMAIN queue
      <3> SUFFICES ASSUME k \notin DOMAIN queue PROVE FALSE
        OBVIOUS
      <3>1. PICK i \in DOMAIN tasks : r[k] = tasks[i]
        BY <1>8
      <3>2. r[k].id \in IdsOf(queue)
        BY <1>3, <1>5, <1>6, <3>1 DEF Leased
      <3>3. PICK j \in DOMAIN queue : queue[j].id = r[k].id
        BY <3>2 DEF IdsOf
      <3> QED
        BY <1>8, <3>3 DEF IdsApart
    <2> QED
      BY <1>3, <1>8, <1>9, <2>1 DEF Own
  <1>11. UNCHANGED <<unseen, split>>
    BY <1>2 DEF past
  <1>12. QueueInv'
    <2>1. OneTaskEach'
      BY <1>7, <1>10, <1>11 DEF OneTaskEach, DetailInv, QueueInv, r
    <2>2. \A k \in DOMAIN queue' : Own(queue[k])' /\ RowSeen(queue[k])'
      BY <1>7, <1>9, <1>11 DEF Own, RowSeen, r
    <2>3. queue' \in Seq(TaskRows) /\ IdsApart(queue)'
      BY <1>7, <1>8 DEF IdsApart, r
    <2> QED
      BY <2>1, <2>2, <2>3 DEF QueueInv
  <1>13. IdsOf(queue) \subseteq IdsOf(queue') /\ queue' # <<>>
    <2>1. IdsOf(queue) \subseteq IdsOf(r)
      BY <1>8 DEF IdsOf
    <2>2. queue # <<>> => DOMAIN queue # {}
      BY <1>3
    <2>3. r = <<>> => DOMAIN r = {}
      OBVIOUS
    <2> QED
      BY <1>3, <1>7, <1>8, <2>1, <2>2, <2>3 DEF r
  <1>14. CrawlInv'
    BY <1>2, <1>13, CrawlSame DEF DetailInv, CrawlInv
  <1>15. EnrichInv'
    <2>1. \A k \in DOMAIN taken : Leased(taken[k])'
      BY <1>2, <1>3, <1>11, <1>13 DEF Leased, Own, RowSeen
    <2>2. DOMAIN answers = DOMAIN taken /\ \A k \in DOMAIN taken : taken[k].company \in known
      BY <1>2 DEF DetailInv, EnrichInv
    <2> QED
      BY <1>2, <1>3, <1>4, <1>13, <2>1, <2>2 DEF EnrichInv
  <1> QED
    BY <1>12, <1>14, <1>15 DEF DetailInv

LEMMA PublishAnswersStep == DetailInv /\ PublishAnswers => DetailInv'
  <1> SUFFICES ASSUME DetailInv, PublishAnswers PROVE DetailInv'
    OBVIOUS
  <1>1. ForgetEnrich /\ UNCHANGED <<listing, coming, queue, known, crawl, past>>
    BY DEF PublishAnswers
  <1> QED
    BY <1>1, CrawlSame, QueueSame, EnrichForgotten DEF DetailInv, CrawlInv, past

LEMMA NewsStep == DetailInv /\ News => DetailInv'
  <1> SUFFICES ASSUME DetailInv, News PROVE DetailInv'
    OBVIOUS
  <1>1. /\ UNCHANGED <<queue, known, crawl, enrich, past>> /\ coming # <<>>
        /\ listing' = <<Head(coming)>> \o listing /\ coming' = Tail(coming)
    BY DEF News
  <1>2. coming \in Seq(Listing) /\ listing \in Seq(Listing)
    BY DEF DetailInv, CrawlInv
  <1>3. coming' \in Seq(Listing) /\ Head(coming) \in Listing
    BY <1>1, <1>2, TailOf
  <1>4. <<Head(coming)>> \in Seq(Listing)
    BY <1>3
  <1>5. listing' \in Seq(Listing)
    BY <1>1, <1>2, <1>4
  <1> QED
    BY <1>1, <1>3, <1>5, CrawlSame, QueueSame, EnrichSame DEF DetailInv, past

LEMMA AgeTaskStep == DetailInv /\ AgeTask => DetailInv'
  <1> SUFFICES ASSUME DetailInv, AgeTask PROVE DetailInv'
    OBVIOUS
  <1>1. PICK i \in DOMAIN queue : queue' = [queue EXCEPT ![i].fresh = FALSE]
    BY DEF AgeTask
  <1>2. UNCHANGED <<listing, coming, known, tab, crawl, enrich, past>>
    BY DEF AgeTask
  <1>3. queue \in Seq(TaskRows) /\ \A k \in DOMAIN queue : queue[k] \in TaskRows
    BY ListFacts DEF DetailInv, QueueInv
  <1> DEFINE r == queue'
  <1>4. /\ DOMAIN r = DOMAIN queue /\ r = [k \in DOMAIN queue |-> r[k]]
        /\ \A k \in DOMAIN queue : r[k] = [queue[k] EXCEPT !.fresh = FALSE] \/ r[k] = queue[k]
    BY <1>1, <1>3
  <1>5. \A k \in DOMAIN queue :
          [queue[k] EXCEPT !.fresh = FALSE] \in TaskRows
            /\ [queue[k] EXCEPT !.fresh = FALSE].id = queue[k].id
            /\ [queue[k] EXCEPT !.fresh = FALSE].company = queue[k].company
            /\ [queue[k] EXCEPT !.fresh = FALSE].home = queue[k].home
    BY <1>3 DEF TaskRows
  <1>6. \A k \in DOMAIN queue : /\ r[k] \in TaskRows /\ r[k].id = queue[k].id
                                /\ r[k].company = queue[k].company /\ r[k].home = queue[k].home
    BY <1>3, <1>4, <1>5
  <1>7. queue' = r
    OBVIOUS
  <1> HIDE DEF r
  <1>8. QueueInv' /\ IdsOf(queue') = IdsOf(queue) /\ (queue # <<>> => queue' # <<>>)
    BY <1>2, <1>4, <1>6, <1>7, RowsStay DEF DetailInv
  <1> QED
    BY <1>2, <1>8, CrawlSame, EnrichSame DEF DetailInv, CrawlInv, past

LEMMA DieStep == DetailInv /\ Die => DetailInv'
  <1> SUFFICES ASSUME DetailInv, Die PROVE DetailInv'
    OBVIOUS
  <1>1. UNCHANGED <<listing, coming, queue, known, past>>
    BY DEF Die
  <1>2. CASE ForgetCrawl /\ UNCHANGED enrich
    BY <1>1, <1>2, CrawlForgotten, QueueSame, EnrichSame DEF DetailInv, past
  <1>3. CASE ForgetEnrich /\ UNCHANGED crawl
    BY <1>1, <1>3, CrawlSame, QueueSame, EnrichForgotten DEF DetailInv, CrawlInv, past
  <1> QED
    BY <1>2, <1>3 DEF Die

LEMMA DetailStep == DetailInv /\ [DetailNext]_detail => DetailInv'
  <1> SUFFICES ASSUME DetailInv, [DetailNext]_detail PROVE DetailInv'
    OBVIOUS
  <1>1. CASE UNCHANGED detail
    BY <1>1, CrawlSame, QueueSame, EnrichSame DEF DetailInv, CrawlInv, detail, past
  <1>2. CASE CrawlStep
    BY <1>2, BeginCrawlStep, ReadPlainStep, OpenBrowserStep, ChallengeStep, ReadPageStep,
       QueueCardsStep, PublishCardsStep DEF CrawlStep
  <1>3. CASE EnrichStep
    BY <1>3, TakeFromQueueStep, TakeFromTabStep, LookUpStep, SettleTasksStep, PublishAnswersStep
       DEF EnrichStep
  <1>4. CASE AgeRow
    <2>1. UNCHANGED <<listing, coming, queue, known, crawl, enrich, past>>
      BY <1>4 DEF AgeRow
    <2> QED
      BY <2>1, CrawlSame, QueueSame, EnrichSame DEF DetailInv, CrawlInv, past
  <1> QED
    BY <1>1, <1>2, <1>3, <1>4, NewsStep, AgeTaskStep, DieStep DEF DetailNext

LEMMA DetailInvHolds == DetailSpec => []DetailInv
  BY DetailStarts, DetailStep, PTL DEF DetailSpec

\* For any companies, pages, queues, faults and interleavings: a name has two
\* rows in the queue only if one crawl took cards of it that make two tasks.
THEOREM QueuedOnce == DetailSpec => []OneTaskEach
  <1>1. DetailInv => OneTaskEach
    BY DEF DetailInv, QueueInv
  <1> QED
    BY <1>1, DetailInvHolds, PTL
-----------------------------------------------------------------------------
(* Whose a row of the tab is, and an upsert of such rows.                  *)

\* A company without homepage counts as one for each name it is written under.
Homeless(name) == \E c \in Companies : SameCompany(Site[c].name, name) /\ Site[c].home = ""
Person(name) == IF Homeless(name) THEN name ELSE NormName(name)
Owner(home) ==
  CHOOSE i : \/ \E c \in Companies : Site[c].home = home /\ i = Person(Site[c].name)
             \/ \E k \in DOMAIN Kept : Kept[k].home = home /\ i = Person(Kept[k].company)

Persons(list) == {Person(list[k].company) : k \in DOMAIN list}
\* Those of whom some row tells a round.
Roundless(row) == row.round = ""
RoundOf(row) == IF Roundless(row) THEN {} ELSE {Person(row.company)}
Rounded(list) == UNION {RoundOf(list[k]) : k \in DOMAIN list}
Once(list, except) ==
  \A j, k \in DOMAIN list :
    j # k /\ Person(list[j].company) = Person(list[k].company) => Person(list[j].company) \in except

KeySet(row) == {<<f, row[f]>> : f \in {f \in {"company", "home"} : row[f] # ""}}
OwnerOf(key) == IF key[1] = "company" THEN Person(key[2]) ELSE Owner(key[2])

\* Rows G of a tab that rows X may be written to: but for the persons in except,
\* rows of a person have a key in common, and what is merged is fit for the tab.
\* A row that is not itself fit for it finds its person's there.
Fitting(V, G, X, except, old) ==
  /\ G \subseteq [Fields -> V] /\ X \subseteq [Fields -> V]
  /\ \A w \in G \union X :
       w.company # "" /\ (w.home # "" => Owner(w.home) = Person(w.company))
  /\ \A w, v \in G \union X :
       Person(w.company) = Person(v.company) /\ Person(w.company) \notin except =>
         KeySet(w) \intersect KeySet(v) # {}
  /\ \A x \in X : x \in G \/ (Person(x.company) \notin except /\ Person(x.company) \in old)
  /\ \A w, v \in G :
       Person(w.company) = Person(v.company) /\ Person(w.company) \in except =>
         Sheet!MergeDuplicate(w, v) \in G
  /\ \A w \in G, x \in X :
       Person(w.company) = Person(x.company) => Sheet!MergeExisting(w, x) \in G
  /\ \A x, y \in X : x.company = y.company => Sheet!MergeGenerated(x, y) \in X

\* The index points to rows of the key's owner and, but for some persons, from
\* every key of a row to that row.
TableFits(t, G, except) ==
  /\ t.rows \in Seq(G)
  /\ \A key \in DOMAIN t.index :
       t.index[key] \in DOMAIN t.rows /\ Person(t.rows[t.index[key]].company) = OwnerOf(key)
  /\ \A j \in DOMAIN t.rows : \A key \in KeySet(t.rows[j]) :
       /\ key \in DOMAIN t.index
       /\ Person(t.rows[j].company) \notin except => t.index[key] = j

LEMMA OneOrTwo ==
  ASSUME NEW x, NEW y
  PROVE  /\ <<x>> \in Seq({x, y}) /\ DOMAIN <<x>> = 1..1 /\ <<x>>[1] = x
         /\ DOMAIN <<x, y>> = 1..2 /\ <<x, y>>[1] = x /\ <<x, y>>[2] = y
         /\ ToSet(<<x, y>>) = {x, y}
         /\ Append(<<x>>, y) = <<x, y>>
  <1> DEFINE S == {x, y}
             a == Append(<<x>>, y)
             b == <<x, y>>
  <1>1. <<x>> \in Seq(S) /\ Len(<<x>>) = 1 /\ DOMAIN <<x>> = 1..1 /\ <<x>>[1] = x
    OBVIOUS
  <1>2. a \in Seq(S) /\ Len(a) = 2 /\ a[1] = x /\ a[2] = y
    BY <1>1
  <1>3. b \in Seq(S) /\ Len(b) = 2 /\ DOMAIN b = 1..2 /\ b[1] = x /\ b[2] = y
    OBVIOUS
  <1> HIDE DEF a, b, S
  <1>4. a = [k \in 1..2 |-> a[k]] /\ b = [k \in 1..2 |-> b[k]]
    BY <1>2, <1>3
  <1>5. \A k \in 1..2 : a[k] = b[k]
    BY <1>2, <1>3
  <1>6. a = b
    BY <1>4, <1>5
  <1>7. ToSet(b) = {x, y}
    BY <1>3 DEF ToSet
  <1> QED
    BY <1>1, <1>3, <1>6, <1>7 DEF a, b, S

LEMMA FilledFields ==
  ASSUME NEW K, "company" \in K
  PROVE  Sheet!Only(<<"company", "home">>, K)
           = IF "home" \in K THEN <<"company", "home">> ELSE <<"company">>
  <1> DEFINE F == <<"company", "home">>
             filled == Sheet!Only(F, K)
             g == CHOOSE f : f = [n \in 0..2 |-> KeptUpTo(F, K, f, n)]
  <1>1. Len(F) = 2 /\ F[1] = "company" /\ F[2] = "home"
    OBVIOUS
  <1> HIDE DEF F
  <1>2. filled = g[2]
    BY <1>1 DEF Sheet!Only, KeptUpTo
  <1>3. g = [n \in 0..2 |-> KeptUpTo(F, K, g, n)]
    <2>1. 2 \in Nat
      OBVIOUS
    <2> QED
      BY <2>1, KeptExists DEF KeptBy
  <1> HIDE DEF g
  <1>4. g[0] = <<>>
    BY <1>3 DEF KeptUpTo
  <1>5. g[1] = <<"company">>
    <2>1. g[1] = KeptUpTo(F, K, g, 1)
      BY <1>3
    <2>2. g[1] = Append(g[0], "company")
      BY <1>1, <2>1 DEF KeptUpTo
    <2> QED
      BY <1>4, <2>2
  <1>6. g[2] = IF "home" \in K THEN Append(g[1], "home") ELSE g[1]
    <2>1. g[2] = KeptUpTo(F, K, g, 2)
      BY <1>3
    <2> QED
      BY <1>1, <2>1 DEF KeptUpTo
  <1>7. Append(<<"company">>, "home") = <<"company", "home">>
    BY OneOrTwo
  <1>8. filled = IF "home" \in K THEN <<"company", "home">> ELSE <<"company">>
    BY <1>2, <1>5, <1>6, <1>7
  <1> QED
    BY <1>8 DEF F

HasName(w) == w.company # ""

LEMMA KeysOfRow ==
  ASSUME NEW V, NEW w \in [Fields -> V], HasName(w)
  PROVE  /\ Sheet!Keys(w) \in Seq(KeySet(w)) /\ ToSet(Sheet!Keys(w)) = KeySet(w)
         /\ Sheet!Keys(w) # <<>> /\ Sheet!Keys(w)[1] = <<"company", w.company>>
  <1> DEFINE F == <<"company", "home">>
             K == {f \in ToSet(F) : ~Sheet!IsBlank(w[f])}
             filled == Sheet!Only(F, K)
             keys == Sheet!Keys(w)
  <1>1. ToSet(F) = {"company", "home"}
    BY OneOrTwo
  <1>2. /\ "company" \in K /\ ("home" \in K <=> w.home # "")
        /\ K = {f \in {"company", "home"} : w[f] # ""}
    BY <1>1 DEF HasName, Sheet!IsBlank
  <1>3. keys = [k \in DOMAIN filled |-> <<filled[k], w[filled[k]]>>]
    BY DEF Sheet!Keys, Sheet!ToSet, ToSet
  <1> HIDE DEF K
  <1>4. filled = IF w.home # "" THEN <<"company", "home">> ELSE <<"company">>
    BY <1>2, FilledFields
  <1> HIDE DEF filled, keys
  <1>5. KeySet(w) = {<<f, w[f]>> : f \in K}
    BY <1>2 DEF KeySet
  <1>16. PICK n \in Nat : (n = 1 \/ n = 2) /\ (n = 2 <=> "home" \in K)
    <2>1. CASE "home" \in K
      BY <2>1
    <2>2. CASE "home" \notin K
      BY <2>2
    <2> QED
      BY <2>1, <2>2
  <1>17. \A f \in K : f \in {"company", "home"}
    BY <1>2
  <1>6. /\ DOMAIN filled = 1..n /\ filled[1] = "company"
        /\ n = 2 => filled[2] = "home"
    BY <1>2, <1>4, <1>16, OneOrTwo, ZenonT(60)
  <1> HIDE DEF K
  <1>8. /\ DOMAIN keys = 1..n /\ keys = [k \in 1..n |-> keys[k]]
        /\ \A k \in 1..n : keys[k] = <<filled[k], w[filled[k]]>>
    BY <1>3, <1>6
  <1>9. \A k \in 1..n : filled[k] \in K
    <2>1. \A k \in 1..n : k = 1 \/ (k = 2 /\ n = 2)
      BY <1>16
    <2> QED
      BY <1>2, <1>6, <1>16, <2>1
  <1>10. \A f \in K : \E k \in 1..n : f = filled[k]
    <2>1. 1 \in 1..n /\ (n = 2 => 2 \in 1..n)
      BY <1>16
    <2> QED
      BY <1>6, <1>16, <1>17, <2>1
  <1>11. \A k \in 1..n : keys[k] \in KeySet(w)
    BY <1>5, <1>8, <1>9
  <1>12. \A key \in KeySet(w) : \E k \in 1..n : key = keys[k]
    BY <1>5, <1>8, <1>10, SMTT(60)
  <1>13. ToSet(keys) = KeySet(w)
    BY <1>8, <1>11, <1>12 DEF ToSet
  <1>14. keys \in Seq(KeySet(w)) /\ Len(keys) = n
    BY <1>8, <1>11, MakeList
  <1>15. keys # <<>> /\ keys[1] = <<"company", w.company>>
    <2>1. 1 \in 1..n
      BY <1>16
    <2>2. Len(keys) # 0
      BY <1>14, <1>16
    <2>3. Len(<<>>) = 0
      OBVIOUS
    <2> QED
      BY <1>6, <1>8, <2>1, <2>2, <2>3
  <1> QED
    BY <1>13, <1>14, <1>15 DEF keys

\* The keys of a row are its person's.
LEMMA KeysAreOwn ==
  ASSUME NEW w, w.home # "" => Owner(w.home) = Person(w.company)
  PROVE  \A key \in KeySet(w) : OwnerOf(key) = Person(w.company)
  <1> SUFFICES ASSUME NEW key \in KeySet(w) PROVE OwnerOf(key) = Person(w.company)
    OBVIOUS
  <1>1. CASE key = <<"company", w.company>>
    <2>1. key[1] = "company" /\ key[2] = w.company
      BY <1>1
    <2> QED
      BY <2>1 DEF OwnerOf
  <1>2. CASE w.home # "" /\ key = <<"home", w.home>>
    <2>1. key[1] = "home" /\ key[2] = w.home
      BY <1>2
    <2> QED
      BY <1>2, <2>1 DEF OwnerOf
  <1> QED
    BY <1>1, <1>2 DEF KeySet

LEMMA TableOnce ==
  ASSUME NEW V, NEW G, NEW X, NEW except, NEW old, Fitting(V, G, X, except, old),
         NEW t, TableFits(t, G, except)
  PROVE  Once(t.rows, except)
  <1> SUFFICES ASSUME NEW j \in DOMAIN t.rows, NEW k \in DOMAIN t.rows,
                      Person(t.rows[j].company) = Person(t.rows[k].company),
                      Person(t.rows[j].company) \notin except
               PROVE  j = k
    BY DEF Once
  <1>1. t.rows[j] \in G /\ t.rows[k] \in G
    BY ListFacts DEF TableFits
  <1>2. PICK key \in KeySet(t.rows[j]) : key \in KeySet(t.rows[k])
    BY <1>1 DEF Fitting
  <1>3. t.index[key] = j /\ t.index[key] = k
    BY <1>2 DEF TableFits
  <1> QED
    BY <1>3

\* A row goes over another one of its person, or after the others.
Goes(w, t, k, except) ==
  \/ k \in DOMAIN t.rows /\ Person(t.rows[k].company) = Person(w.company)
  \/ /\ k = Len(t.rows) + 1
     /\ Person(w.company) \in Persons(t.rows) => Person(w.company) \in except

LEMMA PutFits ==
  ASSUME NEW V, NEW G, NEW X, NEW except, NEW old, Fitting(V, G, X, except, old),
         NEW t, TableFits(t, G, except), NEW w \in G, NEW k \in Nat,
         Goes(w, t, k, except)
  PROVE  LET r == Sheet!Put(t, k, w, KeySet(w))
         IN  TableFits(r, G, except) /\ Persons(r.rows) = Persons(t.rows) \union {Person(w.company)}
  <1> DEFINE r == Sheet!Put(t, k, w, KeySet(w))
             L == Len(t.rows)
  <1>1. /\ t.rows \in Seq(G) /\ DOMAIN t.rows = 1..L /\ L \in Nat
        /\ \A j \in DOMAIN t.rows : t.rows[j] \in G
    BY ListFacts DEF TableFits
  <1>2. /\ r.rows = IF k > L THEN Append(t.rows, w) ELSE [t.rows EXCEPT ![k] = w]
        /\ r.index = [key \in KeySet(w) \union DOMAIN t.index |->
                        IF key \in KeySet(w) THEN k ELSE t.index[key]]
    BY DEF Sheet!Put
  <1> HIDE DEF r
  <1>10. k \in DOMAIN t.rows \/ k = L + 1
    BY DEF Goes
  <1>3. /\ r.rows \in Seq(G) /\ DOMAIN r.rows = DOMAIN t.rows \union {k} /\ r.rows[k] = w
        /\ \A j \in DOMAIN t.rows \ {k} : r.rows[j] = t.rows[j]
    <2>1. CASE k \in DOMAIN t.rows
      <3>1. r.rows = [t.rows EXCEPT ![k] = w] /\ ~(k > L)
        BY <1>1, <1>2, <2>1
      <3> QED
        BY <1>1, <2>1, <3>1
    <2>2. CASE k = L + 1
      <3>1. r.rows = Append(t.rows, w)
        BY <1>1, <1>2, <2>2
      <3> QED
        BY <1>1, <2>2, <3>1
    <2> QED
      BY <1>10, <2>1, <2>2
  <1>4. \A key \in KeySet(w) : OwnerOf(key) = Person(w.company)
    BY KeysAreOwn DEF Fitting
  <1>5. \A j \in DOMAIN t.rows \ {k} :
          Person(t.rows[j].company) = Person(w.company) => Person(w.company) \in except
    <2>1. CASE k \in DOMAIN t.rows
      <3>1. Person(t.rows[k].company) = Person(w.company)
        BY <1>1, <2>1 DEF Goes
      <3>2. Once(t.rows, except)
        BY TableOnce
      <3> QED
        BY <2>1, <3>1, <3>2 DEF Once
    <2>2. CASE k \notin DOMAIN t.rows
      <3>1. Person(w.company) \in Persons(t.rows) => Person(w.company) \in except
        BY <2>2 DEF Goes
      <3> QED
        BY <3>1 DEF Persons
    <2> QED
      BY <2>1, <2>2
  <1>6. ASSUME NEW key \in DOMAIN r.index
        PROVE  r.index[key] \in DOMAIN r.rows /\ Person(r.rows[r.index[key]].company) = OwnerOf(key)
    <2>1. CASE key \in KeySet(w)
      <3>1. r.index[key] = k
        BY <1>2, <2>1
      <3> QED
        BY <1>3, <1>4, <2>1, <3>1
    <2>2. CASE key \notin KeySet(w)
      <3>1. key \in DOMAIN t.index /\ r.index[key] = t.index[key]
        BY <1>2, <1>6, <2>2
      <3>2. t.index[key] \in DOMAIN t.rows /\ Person(t.rows[t.index[key]].company) = OwnerOf(key)
        BY <3>1 DEF TableFits
      <3>3. t.index[key] = k => Person(w.company) = OwnerOf(key)
        BY <1>1, <3>2 DEF Goes
      <3> QED
        BY <1>3, <3>1, <3>2, <3>3
    <2> QED
      BY <2>1, <2>2
  <1>7. ASSUME NEW j \in DOMAIN r.rows, NEW key \in KeySet(r.rows[j])
        PROVE  /\ key \in DOMAIN r.index
               /\ Person(r.rows[j].company) \notin except => r.index[key] = j
    <2>1. CASE j = k
      <3>1. key \in KeySet(w)
        BY <1>3, <1>7, <2>1
      <3> QED
        BY <1>2, <2>1, <3>1
    <2>2. CASE j # k
      <3>1. j \in DOMAIN t.rows /\ r.rows[j] = t.rows[j]
        BY <1>3, <2>2
      <3>2. key \in DOMAIN t.index /\ (Person(t.rows[j].company) \notin except => t.index[key] = j)
        BY <1>7, <3>1 DEF TableFits
      <3>3. key \in KeySet(w) => Person(t.rows[j].company) = Person(w.company)
        <4>1. OwnerOf(key) = Person(t.rows[j].company)
          <5>1. t.rows[j] \in G
            BY <1>1, <3>1
          <5> QED
            BY <1>7, <3>1, <5>1, KeysAreOwn DEF Fitting
        <4> QED
          BY <1>4, <4>1
      <3>4. key \in DOMAIN r.index /\ (key \notin KeySet(w) => r.index[key] = t.index[key])
        BY <1>2, <3>2
      <3> QED
        BY <1>5, <2>2, <3>1, <3>2, <3>3, <3>4
    <2> QED
      BY <2>1, <2>2
  <1>8. TableFits(r, G, except)
    BY <1>3, <1>6, <1>7 DEF TableFits
  <1>9. Persons(r.rows) = Persons(t.rows) \union {Person(w.company)}
    <2>1. \A j \in DOMAIN r.rows : j = k \/ (j \in DOMAIN t.rows /\ r.rows[j] = t.rows[j])
      BY <1>3
    <2>2. ASSUME NEW j \in DOMAIN t.rows PROVE Person(t.rows[j].company) \in Persons(r.rows)
      <3>1. Person(r.rows[j].company) = Person(t.rows[j].company) /\ j \in DOMAIN r.rows
        <4>1. CASE j = k
          <5>1. Person(t.rows[k].company) = Person(w.company)
            BY <1>1, <2>2, <4>1 DEF Goes
          <5> QED
            BY <1>3, <4>1, <5>1
        <4>2. CASE j # k
          BY <1>3, <2>2, <4>2
        <4> QED
          BY <4>1, <4>2
      <3> QED
        BY <3>1 DEF Persons
    <2>3. Person(w.company) \in Persons(r.rows)
      BY <1>3 DEF Persons
    <2> QED
      BY <1>3, <2>1, <2>2, <2>3 DEF Persons
  <1> QED
    BY <1>8, <1>9 DEF r

\* The first key that agrees leads to the row of the person.
LEMMA MatchOf ==
  ASSUME NEW V, NEW G, NEW X, NEW except, NEW old, Fitting(V, G, X, except, old),
         NEW t, TableFits(t, G, except), NEW w \in G \union X
  PROVE  LET found == Sheet!Matches(t, w)
             k == t.index[found[1]]
         IN  /\ found = <<>> =>
                  \A j \in DOMAIN t.rows :
                    Person(t.rows[j].company) = Person(w.company) => Person(w.company) \in except
             /\ found # <<>> =>
                  k \in DOMAIN t.rows /\ Person(t.rows[k].company) = Person(w.company)
  <1> DEFINE found == Sheet!Matches(t, w)
  <1>1. /\ w \in [Fields -> V] /\ w.company # ""
        /\ w.home # "" => Owner(w.home) = Person(w.company)
    BY DEF Fitting
  <1>2. Sheet!Keys(w) \in Seq(KeySet(w)) /\ ToSet(Sheet!Keys(w)) = KeySet(w)
    BY <1>1, KeysOfRow DEF HasName
  <1>3. /\ found \in Seq(KeySet(w) \intersect DOMAIN t.index)
        /\ ToSet(found) = KeySet(w) \intersect DOMAIN t.index
    BY <1>2, KeptIsOnly DEF Sheet!Matches
  <1> HIDE DEF found
  <1>4. CASE found = <<>>
    <2>1. KeySet(w) \intersect DOMAIN t.index = {}
      BY <1>3, <1>4 DEF ToSet
    <2>2. ASSUME NEW j \in DOMAIN t.rows, Person(t.rows[j].company) = Person(w.company),
                 Person(w.company) \notin except
          PROVE  FALSE
      <3>1. t.rows[j] \in G
        BY ListFacts DEF TableFits
      <3>2. KeySet(t.rows[j]) \intersect KeySet(w) # {}
        BY <2>2, <3>1 DEF Fitting
      <3>3. KeySet(t.rows[j]) \subseteq DOMAIN t.index
        BY DEF TableFits
      <3> QED
        BY <2>1, <3>2, <3>3
    <2> QED
      BY <1>4, <2>2 DEF found
  <1>5. CASE found # <<>>
    <2>1. found[1] \in KeySet(w) \intersect DOMAIN t.index
      <3>1. 1 \in 1..Len(found)
        BY <1>3, <1>5
      <3> QED
        BY <1>3, <3>1
    <2>2. OwnerOf(found[1]) = Person(w.company)
      BY <1>1, <2>1, KeysAreOwn
    <2> QED
      BY <1>5, <2>1, <2>2 DEF TableFits, found
  <1> QED
    BY <1>4, <1>5


\* What is merged is its person's.
LEMMA MergedPerson ==
  ASSUME NEW V, NEW w \in [Fields -> V], NEW v \in [Fields -> V],
         w.company # "", v.company # "", Person(w.company) = Person(v.company)
  PROVE  /\ Sheet!MergeExisting(w, v).company = v.company
         /\ Sheet!MergeDuplicate(w, v).company = w.company
         /\ Sheet!MergeGenerated(w, v).company = v.company
  <1>1. "company" \in Fields /\ DOMAIN w = Fields
    BY DEF Fields
  <1> QED
    BY <1>1 DEF Sheet!MergeExisting, Sheet!MergeDuplicate, Sheet!MergeGenerated, Sheet!IsBlank

LEMMA MergedRound ==
  ASSUME NEW V, NEW w \in [Fields -> V], NEW v \in [Fields -> V],
         NEW r \in {Sheet!MergeExisting(w, v), Sheet!MergeDuplicate(w, v), Sheet!MergeGenerated(w, v)}
  PROVE  /\ r.round \in {w.round, v.round} /\ (Roundless(r) => Roundless(w) /\ Roundless(v))
         /\ r.company \in {w.company, v.company}
  <1>1. "round" \in Fields /\ "company" \in Fields /\ DOMAIN w = Fields
    BY DEF Fields
  <1>2. CASE r = Sheet!MergeExisting(w, v)
    BY <1>1, <1>2 DEF Roundless, Sheet!MergeExisting, Sheet!IsBlank
  <1>3. CASE r = Sheet!MergeDuplicate(w, v)
    BY <1>1, <1>3 DEF Roundless, Sheet!MergeDuplicate, Sheet!IsBlank
  <1>4. CASE r = Sheet!MergeGenerated(w, v)
    BY <1>1, <1>4 DEF Roundless, Sheet!MergeGenerated, Sheet!IsBlank
  <1> QED
    BY <1>2, <1>3, <1>4

LEMMA MergedRounds ==
  ASSUME NEW V, NEW w \in [Fields -> V], NEW v \in [Fields -> V],
         NEW r \in {Sheet!MergeExisting(w, v), Sheet!MergeDuplicate(w, v), Sheet!MergeGenerated(w, v)},
         Person(r.company) = Person(w.company), Person(r.company) = Person(v.company)
  PROVE  RoundOf(w) \subseteq RoundOf(r) /\ RoundOf(v) \subseteq RoundOf(r)
  <1>1. Roundless(r) => Roundless(w) /\ Roundless(v)
    BY MergedRound
  <1> QED
    BY <1>1 DEF RoundOf

LEMMA PutRounds ==
  ASSUME NEW G, NEW t, t.rows \in Seq(G), NEW w \in G, NEW k \in Nat, NEW keys,
         \/ k \in DOMAIN t.rows /\ RoundOf(t.rows[k]) \subseteq RoundOf(w)
         \/ k = Len(t.rows) + 1
  PROVE  Rounded(t.rows) \union RoundOf(w) \subseteq Rounded(Sheet!Put(t, k, w, keys).rows)
  <1> DEFINE r == Sheet!Put(t, k, w, keys)
             L == Len(t.rows)
             s == t.rows
  <1>1. s \in Seq(G) /\ DOMAIN s = 1..L /\ L \in Nat
    BY ListFacts
  <1>2. r.rows = IF k > L THEN Append(s, w) ELSE [s EXCEPT ![k] = w]
    BY DEF Sheet!Put
  <1> HIDE DEF r
  <1>3. /\ DOMAIN r.rows = DOMAIN s \union {k} /\ r.rows[k] = w
        /\ \A j \in DOMAIN s \ {k} : r.rows[j] = s[j]
    <2>1. CASE k \in DOMAIN s
      <3>1. r.rows = [s EXCEPT ![k] = w] /\ ~(k > L)
        BY <1>1, <1>2, <2>1
      <3> QED
        BY <1>1, <2>1, <3>1
    <2>2. CASE k = L + 1
      <3>1. r.rows = Append(s, w)
        BY <1>1, <1>2, <2>2
      <3> QED
        BY <1>1, <2>2, <3>1
    <2> QED
      BY <2>1, <2>2
  <1>4. RoundOf(w) \subseteq Rounded(r.rows)
    BY <1>3 DEF Rounded
  <1>5. ASSUME NEW j \in DOMAIN s PROVE RoundOf(s[j]) \subseteq Rounded(r.rows)
    <2>1. CASE j = k
      <3>1. RoundOf(s[k]) \subseteq RoundOf(w)
        BY <1>1, <2>1
      <3> QED
        BY <1>4, <2>1, <3>1
    <2>2. CASE j # k
      <3>1. j \in DOMAIN r.rows /\ r.rows[j] = s[j]
        BY <1>3, <2>2
      <3> QED
        BY <3>1 DEF Rounded
    <2> QED
      BY <2>1, <2>2
  <1>6. Rounded(s) \subseteq Rounded(r.rows)
    BY <1>5 DEF Rounded
  <1> QED
    BY <1>4, <1>6 DEF r

\* A row to be placed in a table: one of the tab, before which there is none of its
\* person, or one that is written to it.
Follows(w, t, from, G, X, except, old) ==
  \/ /\ from = "sheet" /\ w \in G
     /\ Person(w.company) \in Persons(t.rows) => Person(w.company) \in except
  \/ from = "incoming" /\ w \in X /\ old \subseteq Persons(t.rows)

LEMMA PlaceFits ==
  ASSUME NEW V, NEW G, NEW X, NEW except, NEW old, Fitting(V, G, X, except, old),
         NEW t, TableFits(t, G, except), NEW w, NEW from, Follows(w, t, from, G, X, except, old)
  PROVE  LET r == Sheet!Place(t, w, from)
         IN  /\ TableFits(r, G, except) /\ Persons(r.rows) = Persons(t.rows) \union {Person(w.company)}
             /\ Rounded(t.rows) \union RoundOf(w) \subseteq Rounded(r.rows)
  <1> DEFINE found == Sheet!Matches(t, w)
             k == IF found = <<>> THEN Len(t.rows) + 1 ELSE t.index[found[1]]
             new == IF found = <<>> THEN w
                    ELSE IF from = "incoming" THEN Sheet!MergeExisting(t.rows[k], w)
                    ELSE Sheet!MergeDuplicate(t.rows[k], w)
  <1>1. Sheet!Place(t, w, from) = Sheet!Put(t, k, new, Sheet!ToSet(Sheet!Keys(new)))
    BY DEF Sheet!Place
  <1>2. w \in G \union X /\ "sheet" # "incoming" /\ (from = "incoming" => w \in X) /\ (from # "incoming" => w \in G)
    BY DEF Follows
  <1>3. t.rows \in Seq(G) /\ DOMAIN t.rows = 1..Len(t.rows) /\ Len(t.rows) \in Nat
        /\ \A j \in DOMAIN t.rows : t.rows[j] \in G
    BY ListFacts DEF TableFits
  <1>4. /\ found = <<>> =>
             \A j \in DOMAIN t.rows :
               Person(t.rows[j].company) = Person(w.company) => Person(w.company) \in except
        /\ found # <<>> =>
             /\ t.index[found[1]] \in DOMAIN t.rows
             /\ Person(t.rows[t.index[found[1]]].company) = Person(w.company)
    BY <1>2, MatchOf
  <1> HIDE DEF found
  <1>5. /\ new \in G /\ Person(new.company) = Person(w.company) /\ k \in Nat
        /\ RoundOf(w) \subseteq RoundOf(new)
        /\ \/ /\ k \in DOMAIN t.rows /\ Person(t.rows[k].company) = Person(w.company)
              /\ RoundOf(t.rows[k]) \subseteq RoundOf(new)
           \/ /\ k = Len(t.rows) + 1
              /\ Person(w.company) \in Persons(t.rows) => Person(w.company) \in except
    <2>1. CASE found = <<>>
      <3>1. k = Len(t.rows) + 1 /\ new = w
        BY <2>1
      <3>2. Person(w.company) \in Persons(t.rows) => Person(w.company) \in except
        BY <1>4, <2>1 DEF Persons
      <3>3. w \in G
        BY <1>2, <3>2 DEF Fitting, Follows
      <3> QED
        BY <1>3, <3>1, <3>2, <3>3
    <2>2. CASE found # <<>>
      <3>1. k = t.index[found[1]]
        BY <2>2
      <3>2. k \in DOMAIN t.rows /\ Person(t.rows[k].company) = Person(w.company)
        BY <1>4, <2>2, <3>1
      <3> DEFINE e == t.rows[k]
      <3>3. e \in G /\ Person(e.company) = Person(w.company) /\ k \in Nat
        BY <1>3, <3>2
      <3>4. new = IF from = "incoming" THEN Sheet!MergeExisting(e, w) ELSE Sheet!MergeDuplicate(e, w)
        BY <2>2
      <3>7. from # "incoming" => Person(w.company) \in except
        BY <3>2 DEF Persons, Follows
      <3> HIDE DEF e, k, new
      <3>5. /\ e \in [Fields -> V] /\ w \in [Fields -> V] /\ e.company # "" /\ w.company # ""
        BY <1>2, <3>3 DEF Fitting
      <3>6. new.company = w.company \/ new.company = e.company
        BY <3>3, <3>4, <3>5, MergedPerson
      <3>8. new \in G
        BY <1>2, <3>3, <3>4, <3>7 DEF Fitting
      <3>10. Person(new.company) = Person(w.company)
        BY <3>3, <3>6
      <3>11. RoundOf(w) \subseteq RoundOf(new) /\ RoundOf(e) \subseteq RoundOf(new)
        <4>1. new \in {Sheet!MergeExisting(e, w), Sheet!MergeDuplicate(e, w), Sheet!MergeGenerated(e, w)}
          BY <3>4
        <4>2. e \in [Fields -> V] /\ w \in [Fields -> V]
          BY <3>5
        <4>3. Person(new.company) = Person(e.company) /\ Person(new.company) = Person(w.company)
          BY <3>3, <3>10
        <4> QED
          BY <4>1, <4>2, <4>3, MergedRounds
      <3>12. RoundOf(t.rows[k]) = RoundOf(e) /\ k \in Nat
        BY <3>3 DEF e
      <3> QED
        BY <3>2, <3>8, <3>10, <3>11, <3>12
    <2> QED
      BY <2>1, <2>2
  <1> HIDE DEF new, k
  <1>6. Sheet!ToSet(Sheet!Keys(new)) = KeySet(new)
    <2>1. new \in [Fields -> V] /\ HasName(new)
      BY <1>5 DEF Fitting, HasName
    <2> QED
      BY <2>1, KeysOfRow DEF Sheet!ToSet, ToSet
  <1> DEFINE r == Sheet!Put(t, k, new, KeySet(new))
  <1>7. Sheet!Place(t, w, from) = r
    BY <1>1, <1>6
  <1>9. Goes(new, t, k, except)
    BY <1>5 DEF Goes
  <1>10. new \in G /\ k \in Nat
    BY <1>5
  <1>8. TableFits(r, G, except) /\ Persons(r.rows) = Persons(t.rows) \union {Person(new.company)}
    <2> HIDE DEF Fitting, TableFits, Persons
    <2> QED
      BY <1>9, <1>10, PutFits
  <1>11. Rounded(t.rows) \union RoundOf(new) \subseteq Rounded(r.rows)
    <2>1. \/ k \in DOMAIN t.rows /\ RoundOf(t.rows[k]) \subseteq RoundOf(new)
          \/ k = Len(t.rows) + 1
      BY <1>5
    <2> QED
      BY <1>3, <1>10, <2>1, PutRounds
  <1> HIDE DEF r
  <1> QED
    BY <1>5, <1>7, <1>8, <1>11

LEMMA NothingFits ==
  ASSUME NEW G, NEW except
  PROVE  TableFits(Sheet!Nothing, G, except) /\ Persons(Sheet!Nothing.rows) = {}
  <1>1. Sheet!Nothing.rows = <<>> /\ Sheet!Nothing.index = <<>>
    BY DEF Sheet!Nothing
  <1>2. <<>> \in Seq(G) /\ DOMAIN <<>> = {}
    OBVIOUS
  <1> QED
    BY <1>1, <1>2 DEF TableFits, Persons

LEMMA SheetPlaced ==
  ASSUME NEW V, NEW G, NEW X, NEW except, NEW old, Fitting(V, G, X, except, old),
         NEW list \in Seq(G), Once(list, except)
  PROVE  LET t == Sheet!Placed(Sheet!Nothing, list, "sheet")
         IN  /\ TableFits(t, G, except) /\ Persons(t.rows) = Persons(list)
             /\ Rounded(list) \subseteq Rounded(t.rows)
  <1> DEFINE L == Len(list)
             from == "sheet"
             start == Sheet!Nothing
             g == CHOOSE f : f = [n \in 0..L |-> PlacedUpTo(start, list, from, f, n)]
             Upto(n) == {Person(list[i].company) : i \in 1..n}
             Good(n) == /\ TableFits(g[n], G, except) /\ Persons(g[n].rows) = Upto(n)
                        /\ \A i \in 1..n : RoundOf(list[i]) \subseteq Rounded(g[n].rows)
             T == {n \in Nat : n <= L => Good(n)}
  <1>0. L \in Nat /\ DOMAIN list = 1..L /\ \A i \in 1..L : list[i] \in G
    BY ListFacts
  <1>1. Sheet!Placed(start, list, from) = g[L]
    BY DEF Sheet!Placed, PlacedUpTo
  <1> HIDE DEF start, from
  <1>2. g = [n \in 0..L |-> PlacedUpTo(start, list, from, g, n)]
    BY <1>0, PlacedExists DEF PlacedBy
  <1> HIDE DEF g
  <1>3. \A n \in 0..L : g[n] = PlacedUpTo(start, list, from, g, n)
    BY <1>2
  <1>4. 0 \in T
    <2>1. g[0] = start
      BY <1>0, <1>3 DEF PlacedUpTo
    <2>2. Upto(0) = {} /\ 1..0 = {}
      OBVIOUS
    <2> QED
      BY <2>1, <2>2, NothingFits DEF start
  <1>5. ASSUME NEW k \in Nat, k \in T PROVE k + 1 \in T
    <2> SUFFICES ASSUME k + 1 <= L PROVE Good(k + 1)
      OBVIOUS
    <2>1. k + 1 \in 0..L /\ k + 1 # 0 /\ k + 1 \in 1..L /\ (k + 1) - 1 = k /\ k <= L
      BY <1>0
    <2>2. Good(k)
      BY <1>5, <2>1
    <2> DEFINE t == g[k]
               w == list[k + 1]
    <2>3. g[k + 1] = Sheet!Place(t, w, from)
      BY <1>3, <2>1 DEF PlacedUpTo
    <2>4. w \in G
      BY <1>0, <2>1
    <2>5. Person(w.company) \in Upto(k) => Person(w.company) \in except
      <3>1. SUFFICES ASSUME NEW i \in 1..k, Person(list[i].company) = Person(w.company)
                     PROVE  Person(w.company) \in except
        OBVIOUS
      <3>2. i \in DOMAIN list /\ k + 1 \in DOMAIN list /\ i # k + 1
        BY <1>0, <2>1, <3>1
      <3> QED
        BY <3>1, <3>2 DEF Once
    <2>6. /\ TableFits(t, G, except) /\ Persons(t.rows) = Upto(k)
          /\ \A i \in 1..k : RoundOf(list[i]) \subseteq Rounded(t.rows)
      BY <2>2
    <2> HIDE DEF t, Upto
    <2>7. LET r == Sheet!Place(t, w, from)
          IN  /\ TableFits(r, G, except) /\ Persons(r.rows) = Persons(t.rows) \union {Person(w.company)}
              /\ Rounded(t.rows) \union RoundOf(w) \subseteq Rounded(r.rows)
      <3>1. Follows(w, t, from, G, X, except, old)
        BY <2>4, <2>5, <2>6 DEF from, Follows
      <3>2. TableFits(t, G, except)
        BY <2>6
      <3> HIDE DEF w
      <3> QED
        BY <3>1, <3>2, PlaceFits
    <2> DEFINE r == Sheet!Place(t, w, from)
    <2>9. \A i \in 1..(k + 1) : RoundOf(list[i]) \subseteq Rounded(r.rows)
      <3>1. \A i \in 1..(k + 1) : i \in 1..k \/ i = k + 1
        BY <2>1
      <3> HIDE DEF r
      <3>2. Rounded(t.rows) \subseteq Rounded(r.rows) /\ RoundOf(list[k + 1]) \subseteq Rounded(r.rows)
        BY <2>7 DEF r
      <3> QED
        BY <2>6, <3>1, <3>2
    <2> HIDE DEF w
    <2>8. Upto(k + 1) = Upto(k) \union {Person(w.company)}
      <3>1. \A i \in 1..(k + 1) : i \in 1..k \/ i = k + 1
        BY <2>1
      <3>2. 1..k \subseteq 1..(k + 1) /\ k + 1 \in 1..(k + 1)
        BY <2>1
      <3> QED
        BY <3>1, <3>2 DEF Upto, w
    <2> QED
      BY <2>3, <2>6, <2>7, <2>8, <2>9
  <1>6. Nat \subseteq T
    <2> HIDE DEF T
    <2> QED
      BY <1>4, <1>5, Induction
  <1>7. Good(L)
    <2> HIDE DEF Good
    <2> QED
      BY <1>0, <1>6
  <1>8. Upto(L) = Persons(list)
    BY <1>0 DEF Persons
  <1>9. Rounded(list) \subseteq Rounded(g[L].rows)
    BY <1>0, <1>7 DEF Rounded
  <1> QED
    BY <1>1, <1>7, <1>8, <1>9 DEF start, from

LEMMA IncomingPlaced ==
  ASSUME NEW V, NEW G, NEW X, NEW except, NEW old, Fitting(V, G, X, except, old),
         NEW start, TableFits(start, G, except), old \subseteq Persons(start.rows),
         NEW list \in Seq(X)
  PROVE  LET t == Sheet!Placed(start, list, "incoming")
         IN  /\ TableFits(t, G, except) /\ old \subseteq Persons(t.rows)
             /\ Rounded(start.rows) \subseteq Rounded(t.rows)
  <1> DEFINE L == Len(list)
             from == "incoming"
             g == CHOOSE f : f = [n \in 0..L |-> PlacedUpTo(start, list, from, f, n)]
             Good(n) == /\ TableFits(g[n], G, except) /\ old \subseteq Persons(g[n].rows)
                        /\ Rounded(start.rows) \subseteq Rounded(g[n].rows)
             T == {n \in Nat : n <= L => Good(n)}
  <1>0. L \in Nat /\ DOMAIN list = 1..L /\ \A i \in 1..L : list[i] \in X
    BY ListFacts
  <1>1. Sheet!Placed(start, list, from) = g[L]
    BY DEF Sheet!Placed, PlacedUpTo
  <1> HIDE DEF from
  <1>2. g = [n \in 0..L |-> PlacedUpTo(start, list, from, g, n)]
    BY <1>0, PlacedExists, SMTT(60) DEF PlacedBy
  <1> HIDE DEF g
  <1>3. \A n \in 0..L : g[n] = PlacedUpTo(start, list, from, g, n)
    BY <1>2
  <1>4. 0 \in T
    <2>1. g[0] = start
      BY <1>0, <1>3 DEF PlacedUpTo
    <2> QED
      BY <2>1
  <1>5. ASSUME NEW k \in Nat, k \in T PROVE k + 1 \in T
    <2> SUFFICES ASSUME k + 1 <= L PROVE Good(k + 1)
      OBVIOUS
    <2>1. k + 1 \in 0..L /\ k + 1 # 0 /\ k + 1 \in 1..L /\ (k + 1) - 1 = k /\ k <= L
      BY <1>0
    <2>2. Good(k)
      BY <1>5, <2>1
    <2> DEFINE t == g[k]
               w == list[k + 1]
    <2>3. g[k + 1] = Sheet!Place(t, w, from)
      BY <1>3, <2>1 DEF PlacedUpTo
    <2>4. w \in X
      BY <1>0, <2>1
    <2>6. TableFits(t, G, except) /\ old \subseteq Persons(t.rows) /\ Rounded(start.rows) \subseteq Rounded(t.rows)
      BY <2>2
    <2> HIDE DEF t, w
    <2>7. LET r == Sheet!Place(t, w, from)
          IN  /\ TableFits(r, G, except) /\ Persons(r.rows) = Persons(t.rows) \union {Person(w.company)}
              /\ Rounded(t.rows) \union RoundOf(w) \subseteq Rounded(r.rows)
      <3>1. TableFits(t, G, except) /\ Follows(w, t, from, G, X, except, old)
        BY <2>4, <2>6 DEF from, Follows
      <3> QED
        BY <3>1, PlaceFits
    <2> QED
      BY <2>3, <2>6, <2>7
  <1>6. Nat \subseteq T
    <2> HIDE DEF T
    <2> QED
      BY <1>4, <1>5, Induction
  <1>7. Good(L)
    <2> HIDE DEF Good
    <2> QED
      BY <1>0, <1>6
  <1> QED
    BY <1>1, <1>7 DEF from


\* A table of rows to be written has one row for each name it was given.
NamesFit(t, X) ==
  /\ t.rows \in Seq(X)
  /\ \A key \in DOMAIN t.index :
       t.index[key] \in DOMAIN t.rows /\ key = <<"company", t.rows[t.index[key]].company>>

LEMMA MergeFits ==
  ASSUME NEW V, NEW G, NEW X, NEW except, NEW old, Fitting(V, G, X, except, old),
         NEW t, NamesFit(t, X), NEW w \in X
  PROVE  NamesFit(Sheet!Merge(t, w), X)
  <1> DEFINE key == Sheet!Keys(w)[1]
             k == IF key \in DOMAIN t.index THEN t.index[key] ELSE Len(t.rows) + 1
             new == IF key \in DOMAIN t.index THEN Sheet!MergeGenerated(t.rows[k], w) ELSE w
             r == Sheet!Put(t, k, new, {key})
             L == Len(t.rows)
  <1>1. Sheet!Merge(t, w) = r
    BY DEF Sheet!Merge
  <1>2. w \in [Fields -> V] /\ HasName(w)
    BY DEF Fitting, HasName
  <1>3. key = <<"company", w.company>>
    BY <1>2, KeysOfRow
  <1>4. t.rows \in Seq(X) /\ DOMAIN t.rows = 1..L /\ L \in Nat /\ \A j \in DOMAIN t.rows : t.rows[j] \in X
    BY ListFacts DEF NamesFit
  <1>5. /\ new \in X /\ new.company = w.company /\ k \in Nat
        /\ \/ k \in DOMAIN t.rows /\ t.rows[k].company = w.company
           \/ k = L + 1
    <2>1. CASE key \in DOMAIN t.index
      <3>1. k = t.index[key] /\ new = Sheet!MergeGenerated(t.rows[k], w)
        BY <2>1
      <3>2. k \in DOMAIN t.rows /\ key = <<"company", t.rows[k].company>>
        BY <2>1, <3>1 DEF NamesFit
      <3> DEFINE e == t.rows[k]
      <3>3. e \in X /\ e.company = w.company /\ k \in Nat
        BY <1>3, <1>4, <3>2
      <3>4. new = Sheet!MergeGenerated(e, w)
        BY <3>1
      <3> HIDE DEF e, k, new, key
      <3>5. new \in X
        BY <3>3, <3>4 DEF Fitting
      <3>6. e \in [Fields -> V] /\ e.company # "" /\ w.company # ""
        BY <1>2, <3>3 DEF Fitting, HasName
      <3>7. new.company = w.company
        BY <1>2, <3>3, <3>4, <3>6, MergedPerson
      <3>8. t.rows[k].company = w.company
        BY <3>3 DEF e
      <3> QED
        BY <3>2, <3>3, <3>5, <3>7, <3>8
    <2>2. CASE key \notin DOMAIN t.index
      <3>1. k = L + 1 /\ new = w
        BY <2>2
      <3> QED
        BY <1>4, <3>1
    <2> QED
      BY <2>1, <2>2
  <1>6. /\ r.rows = IF k > L THEN Append(t.rows, new) ELSE [t.rows EXCEPT ![k] = new]
        /\ r.index = [x \in {key} \union DOMAIN t.index |-> IF x \in {key} THEN k ELSE t.index[x]]
    BY DEF Sheet!Put
  <1> HIDE DEF r, new, k, key
  <1>7. /\ r.rows \in Seq(X) /\ DOMAIN r.rows = DOMAIN t.rows \union {k} /\ r.rows[k] = new
        /\ \A j \in DOMAIN t.rows \ {k} : r.rows[j] = t.rows[j]
    <2>1. CASE k \in DOMAIN t.rows
      <3>1. r.rows = [t.rows EXCEPT ![k] = new] /\ ~(k > L)
        BY <1>4, <1>6, <2>1
      <3> QED
        BY <1>4, <1>5, <2>1, <3>1
    <2>2. CASE k = L + 1
      <3>1. r.rows = Append(t.rows, new)
        BY <1>4, <1>6, <2>2
      <3> QED
        BY <1>4, <1>5, <2>2, <3>1
    <2> QED
      BY <1>5, <2>1, <2>2
  <1>8. ASSUME NEW x \in DOMAIN r.index
        PROVE  r.index[x] \in DOMAIN r.rows /\ x = <<"company", r.rows[r.index[x]].company>>
    <2>1. CASE x = key
      <3>1. r.index[x] = k
        BY <1>6, <2>1
      <3> QED
        BY <1>3, <1>5, <1>7, <2>1, <3>1
    <2>2. CASE x # key
      <3>1. x \in DOMAIN t.index /\ r.index[x] = t.index[x]
        BY <1>6, <1>8, <2>2
      <3>2. t.index[x] \in DOMAIN t.rows /\ x = <<"company", t.rows[t.index[x]].company>>
        BY <3>1 DEF NamesFit
      <3>3. t.index[x] # k
        <4>1. SUFFICES ASSUME t.index[x] = k PROVE FALSE
          OBVIOUS
        <4>2. k \in DOMAIN t.rows /\ x = <<"company", t.rows[k].company>>
          BY <3>2, <4>1
        <4>3. t.rows[k].company = w.company
          BY <1>4, <1>5, <4>2
        <4> QED
          BY <1>3, <2>2, <4>2, <4>3
      <3> QED
        BY <1>7, <3>1, <3>2, <3>3
    <2> QED
      BY <2>1, <2>2
  <1>9. NamesFit(r, X)
    BY <1>7, <1>8 DEF NamesFit
  <1> QED
    BY <1>1, <1>9

LEMMA DedupeFits ==
  ASSUME NEW V, NEW G, NEW X, NEW except, NEW old, Fitting(V, G, X, except, old),
         NEW list \in Seq(X)
  PROVE  Sheet!Dedupe(list) \in Seq(X)
  <1> DEFINE L == Len(list)
             keyless == {row \in Sheet!ToSet(list) : Sheet!Keys(row) = <<>>}
             g == CHOOSE f : f = [n \in 0..L |-> DedupeUpTo(list, keyless, f, n)]
             Good(n) == NamesFit(g[n], X)
             T == {n \in Nat : n <= L => Good(n)}
  <1>0. L \in Nat /\ DOMAIN list = 1..L /\ \A i \in 1..L : list[i] \in X
    BY ListFacts
  <1>1. Sheet!Dedupe(list) = g[L].rows \o Sheet!Only(list, keyless)
    BY DEF Sheet!Dedupe, DedupeUpTo
  <1>2. keyless = {}
    <2>1. ASSUME NEW w \in X PROVE Sheet!Keys(w) # <<>>
      <3>1. w \in [Fields -> V] /\ HasName(w)
        BY DEF Fitting, HasName
      <3> QED
        BY <3>1, KeysOfRow
    <2>2. Sheet!ToSet(list) \subseteq X
      BY <1>0 DEF Sheet!ToSet
    <2> QED
      BY <2>1, <2>2
  <1> HIDE DEF keyless
  <1>3. g = [n \in 0..L |-> DedupeUpTo(list, keyless, g, n)]
    BY <1>0, DedupeExists DEF DedupeBy
  <1> HIDE DEF g
  <1>4. \A n \in 0..L : g[n] = DedupeUpTo(list, keyless, g, n)
    BY <1>3
  <1>5. 0 \in T
    <2>1. g[0] = Sheet!Nothing
      BY <1>0, <1>4 DEF DedupeUpTo
    <2>2. Sheet!Nothing.rows = <<>> /\ Sheet!Nothing.index = <<>>
      BY DEF Sheet!Nothing
    <2>3. <<>> \in Seq(X) /\ DOMAIN <<>> = {}
      OBVIOUS
    <2> QED
      BY <2>1, <2>2, <2>3 DEF NamesFit
  <1>6. ASSUME NEW k \in Nat, k \in T PROVE k + 1 \in T
    <2> SUFFICES ASSUME k + 1 <= L PROVE Good(k + 1)
      OBVIOUS
    <2>1. k + 1 \in 0..L /\ k + 1 # 0 /\ k + 1 \in 1..L /\ (k + 1) - 1 = k /\ k <= L
      BY <1>0
    <2>2. Good(k)
      BY <1>6, <2>1
    <2>3. g[k + 1] = Sheet!Merge(g[k], list[k + 1])
      BY <1>2, <1>4, <2>1 DEF DedupeUpTo
    <2>4. list[k + 1] \in X
      BY <1>0, <2>1
    <2> QED
      BY <2>2, <2>3, <2>4, MergeFits
  <1>7. Nat \subseteq T
    <2> HIDE DEF T
    <2> QED
      BY <1>5, <1>6, Induction
  <1>8. Good(L)
    <2> HIDE DEF Good
    <2> QED
      BY <1>0, <1>7
  <1>9. Sheet!Only(list, keyless) \in Seq(X)
    <2>1. Sheet!Only(list, {}) \in Seq(X \intersect {})
      BY KeptIsOnly
    <2>2. X \intersect {} \subseteq X
      OBVIOUS
    <2> DEFINE s == Sheet!Only(list, {})
    <2>3. DOMAIN s = 1..Len(s) /\ Len(s) \in Nat /\ s = [i \in 1..Len(s) |-> s[i]] /\ \A i \in 1..Len(s) : s[i] \in X
      <3> HIDE DEF s
      <3>1. s \in Seq(X \intersect {})
        BY <2>1 DEF s
      <3> QED
        BY <3>1
    <2> HIDE DEF s
    <2>4. s \in Seq(X)
      BY <2>3, MakeList
    <2> QED
      BY <1>2, <2>4 DEF s
  <1> QED
    BY <1>1, <1>8, <1>9 DEF NamesFit

\* An upsert of rows that fit leaves rows that fit, one for each person.
LEMMA UpsertFits ==
  ASSUME NEW V, NEW G, NEW X, NEW except, NEW s \in Seq(G), Once(s, except),
         Fitting(V, G, X, except, Persons(s)), NEW list \in Seq(X)
  PROVE  LET r == Sheet!Upsert(s, list)
         IN  /\ r \in Seq(G) /\ Once(r, except) /\ Persons(s) \subseteq Persons(r)
             /\ Rounded(s) \subseteq Rounded(r)
  <1> DEFINE old == Persons(s)
             first == Sheet!Placed(Sheet!Nothing, s, "sheet")
             more == Sheet!Dedupe(list)
             t == Sheet!Placed(first, more, "incoming")
  <1>0. Fitting(V, G, X, except, old)
    OBVIOUS
  <1>1. TableFits(first, G, except) /\ Persons(first.rows) = old /\ Rounded(s) \subseteq Rounded(first.rows)
    <2> HIDE DEF Fitting, TableFits
    <2> QED
      BY <1>0, SheetPlaced
  <1>2. more \in Seq(X)
    BY <1>0, DedupeFits
  <1>3. Sheet!Upsert(s, list) = IF list = <<>> THEN s ELSE t.rows
    BY DEF Sheet!Upsert
  <1> HIDE DEF first, more, old
  <1>4. TableFits(t, G, except) /\ old \subseteq Persons(t.rows) /\ Rounded(first.rows) \subseteq Rounded(t.rows)
    BY <1>0, <1>1, <1>2, IncomingPlaced
  <1>5. Once(t.rows, except) /\ t.rows \in Seq(G)
    BY <1>0, <1>4, TableOnce DEF TableFits
  <1> HIDE DEF t
  <1>6. old = Persons(s)
    BY DEF old
  <1> QED
    BY <1>1, <1>3, <1>4, <1>5, <1>6
-----------------------------------------------------------------------------
(* Rows of persons that can be told apart.                                 *)

\* What may be written under a name and a homepage: they are of one person, of
\* a company its own, and of a company not on THE VC those the tab began with.
Whose(name, home, q, u) ==
  /\ name # "" /\ (home # "" => Owner(home) = Person(name))
  /\ \A c \in Companies : SameCompany(Site[c].name, name) =>
       /\ home \in {"", Site[c].home} /\ name \in {Site[c].name, NormName(Site[c].name)}
       /\ NormName(Site[c].name) = Site[c].name \/ c \in u \/ home = Site[c].home
  /\ q = <<>> \/ (\A c \in Companies : ~SameCompany(Site[c].name, name)) =>
       \E k \in DOMAIN Kept : name = Kept[k].company

Named(w, q, u) ==
  /\ Whose(w.company, w.home, q, u)
  /\ \A c \in Companies : SameCompany(Site[c].name, w.company) => CellsOf(c, w)

\* Why a row may have lost its mark.
Excuse(name, u, n) ==
  (\E c \in u : SameCompany(Site[c].name, name)) \/ (\E m \in n : SameCompany(m, name))
OfKept(name, region) ==
  \E k \in DOMAIN Kept : name = Kept[k].company /\ region = Kept[k].region
Marked(w, q, u, n) ==
  /\ q = <<>> => /\ OfKept(w.company, w.region) /\ w.collected # ""
                 /\ w.region \in P1Areas => w.p1 = "Y"
  /\ w.region \in P1Areas /\ w.p1 # "Y" => Excuse(w.company, u, n)

\* A row of the tab, the persons that may have two, and a row written to it.
Good(w, q, u, n) == Named(w, q, u) /\ Marked(w, q, u, n)
Twofold(q, u) ==
  IF q = <<>> THEN {}
  ELSE {NormName(Site[c].name) :
          c \in {c \in Companies : c \in u /\ NormName(Site[c].name) # Site[c].name}}
Told(x, u, n) ==
  \/ Excuse(x.company, u, n)
  \/ /\ x.region \in P1Areas => x.p1 = "Y"
     /\ \E c \in Companies : SameCompany(Site[c].name, x.company) /\ x.region = Site[c].region
Incoming(x, q, u, n, old) ==
  /\ Named(x, q, u) /\ x.p1 \in {"Y", "N"} /\ Told(x, u, n)
  /\ q = <<>> => /\ x.region = "" /\ Person(x.company) \in old
                 /\ \E k \in DOMAIN Kept : /\ x.company = Kept[k].company
                                           /\ Kept[k].region \in P1Areas => x.p1 = "Y"

LEMMA NormTwice == ASSUME NEW name PROVE NormName(NormName(name)) = NormName(name)
  BY DetailAssumption DEF DetailAssumption, NormName

LEMMA PersonName ==
  ASSUME NEW name
  PROVE  /\ NormName(Person(name)) = NormName(name)
         /\ ~Homeless(name) => Person(name) = NormName(name)
         /\ Homeless(name) => Person(name) = name
  BY NormTwice DEF Person

LEMMA HomelessSame ==
  ASSUME NEW m, NEW name, NormName(m) = NormName(name)
  PROVE  Homeless(m) <=> Homeless(name)
  BY DEF Homeless, SameCompany

LEMMA PersonSame ==
  ASSUME NEW m, NEW name, Person(m) = Person(name)
  PROVE  NormName(m) = NormName(name)
  BY PersonName

LEMMA NotHomeless ==
  ASSUME Apart, NEW c \in Companies, Site[c].home # "", NEW name, SameCompany(Site[c].name, name)
  PROVE  ~Homeless(name) /\ Person(name) = NormName(name) /\ Person(name) = NormName(Site[c].name)
  <1>1. ~Homeless(name)
    BY DEF Homeless, Apart, SameCompany
  <1> QED
    BY <1>1, PersonName DEF SameCompany

LEMMA KeptIsApart ==
  ASSUME NEW k \in DOMAIN Kept
  PROVE  /\ KeptRow(k)
         /\ Kept[k].company # "" /\ (Kept[k].region \in P1Areas => Kept[k].p1 = "Y")
         /\ \A j \in DOMAIN Kept : SameCompany(Kept[j].company, Kept[k].company) => j = k
         /\ \A j \in DOMAIN Kept : Kept[j].home = Kept[k].home /\ Kept[k].home # "" => j = k
         /\ \A c \in Companies :
              /\ Kept[k].home = Site[c].home /\ Kept[k].home # "" =>
                   SameCompany(Kept[k].company, Site[c].name)
              /\ SameCompany(Kept[k].company, Site[c].name) =>
                   /\ Kept[k].company \in {Site[c].name, NormName(Site[c].name)} /\ CellsOf(c, Kept[k])
                   /\ NormName(Site[c].name) = Site[c].name \/ Kept[k].home = Site[c].home
  <1>1. KeptRow(k)
    BY DetailAssumption DEF DetailAssumption
  <1>2. /\ Kept[k].company # "" /\ (Kept[k].region \in P1Areas => Kept[k].p1 = "Y")
        /\ \A j \in DOMAIN Kept \ {k} : /\ ~SameCompany(Kept[j].company, Kept[k].company)
                                        /\ Kept[j].home = Kept[k].home => Kept[k].home = ""
        /\ \A c \in Companies :
              /\ Kept[k].home = Site[c].home /\ Kept[k].home # "" =>
                   SameCompany(Kept[k].company, Site[c].name)
              /\ SameCompany(Kept[k].company, Site[c].name) =>
                   /\ Kept[k].company \in {Site[c].name, NormName(Site[c].name)} /\ CellsOf(c, Kept[k])
                   /\ NormName(Site[c].name) = Site[c].name \/ Kept[k].home = Site[c].home
    BY <1>1 DEF KeptRow
  <1> QED
    BY <1>1, <1>2

\* The owner of a homepage is the person of the company, or of the row, that has it.
LEMMA OwnerOfSite ==
  ASSUME Apart, NEW c \in Companies, Site[c].home # ""
  PROVE  Owner(Site[c].home) = NormName(Site[c].name)
  <1> DEFINE h == Site[c].home
             Is(i) == \/ \E d \in Companies : Site[d].home = h /\ i = Person(Site[d].name)
                      \/ \E k \in DOMAIN Kept : Kept[k].home = h /\ i = Person(Kept[k].company)
  <1>1. Person(Site[c].name) = NormName(Site[c].name)
    BY NotHomeless DEF SameCompany
  <1>2. \A d \in Companies : Site[d].home = h => d = c
    BY DEF Apart
  <1>3. ASSUME NEW k \in DOMAIN Kept, Kept[k].home = h
        PROVE  Person(Kept[k].company) = NormName(Site[c].name)
    <2>1. SameCompany(Kept[k].company, Site[c].name)
      BY <1>3, KeptIsApart
    <2> QED
      BY <2>1, NotHomeless DEF SameCompany
  <1>4. \A i : Is(i) <=> i = NormName(Site[c].name)
    BY <1>1, <1>2, <1>3
  <1>5. Owner(h) = CHOOSE i : Is(i)
    BY DEF Owner
  <1> HIDE DEF Is, h
  <1>6. Owner(h) = NormName(Site[c].name)
    BY <1>4, <1>5
  <1> QED
    BY <1>6 DEF h

LEMMA OwnerOfKept ==
  ASSUME Apart, NEW k \in DOMAIN Kept, Kept[k].home # ""
  PROVE  Owner(Kept[k].home) = Person(Kept[k].company)
  <1> DEFINE h == Kept[k].home
             p == Person(Kept[k].company)
             Is(i) == \/ \E d \in Companies : Site[d].home = h /\ i = Person(Site[d].name)
                      \/ \E j \in DOMAIN Kept : Kept[j].home = h /\ i = Person(Kept[j].company)
  <1>1. ASSUME NEW d \in Companies, Site[d].home = h PROVE Person(Site[d].name) = p
    <2>1. SameCompany(Kept[k].company, Site[d].name) /\ Site[d].home # ""
      BY <1>1, KeptIsApart
    <2>2. Person(Site[d].name) = NormName(Site[d].name) /\ p = NormName(Site[d].name)
      BY <2>1, NotHomeless DEF SameCompany
    <2> QED
      BY <2>2
  <1>2. \A j \in DOMAIN Kept : Kept[j].home = h => j = k
    BY KeptIsApart
  <1>3. \A i : Is(i) <=> i = p
    BY <1>1, <1>2
  <1>4. Owner(h) = CHOOSE i : Is(i)
    BY DEF Owner
  <1> HIDE DEF Is, h, p
  <1>5. Owner(h) = p
    BY <1>3, <1>4
  <1> QED
    BY <1>5 DEF h, p

\* The cells of r are those of v, or where v has none those of w.
Over(r, w, v) == \A f \in Fields : r[f] = IF v[f] = "" THEN w[f] ELSE v[f]

LEMMA MergedOver ==
  ASSUME NEW V, NEW w \in [Fields -> V], NEW v \in [Fields -> V]
  PROVE  /\ Sheet!MergeExisting(w, v) \in [Fields -> V] /\ Over(Sheet!MergeExisting(w, v), w, v)
         /\ Sheet!MergeDuplicate(w, v) \in [Fields -> V] /\ Over(Sheet!MergeDuplicate(w, v), v, w)
         /\ Sheet!MergeGenerated(w, v) \in [Fields -> V] /\ Over(Sheet!MergeGenerated(w, v), w, v)
  <1>1. DOMAIN w = Fields /\ DOMAIN v = Fields
    OBVIOUS
  <1> QED
    BY <1>1 DEF Over, Sheet!MergeExisting, Sheet!MergeDuplicate, Sheet!MergeGenerated, Sheet!IsBlank

LEMMA OverCells ==
  ASSUME NEW r, NEW w, NEW v, Over(r, w, v)
  PROVE  /\ r.company \in {w.company, v.company} /\ (v.company # "" => r.company = v.company)
         /\ r.home \in {w.home, v.home}
         /\ r.region \in {w.region, v.region} /\ (v.region # "" => r.region = v.region)
         /\ v.region = "" => r.region = w.region
         /\ r.p1 \in {w.p1, v.p1} /\ (v.p1 # "" => r.p1 = v.p1)
         /\ r.investor \in {w.investor, v.investor}
         /\ r.kvic \in {w.kvic, v.kvic} /\ r.figure \in {w.figure, v.figure}
  <1>1. /\ "company" \in Fields /\ "home" \in Fields /\ "region" \in Fields /\ "p1" \in Fields
        /\ "investor" \in Fields /\ "kvic" \in Fields /\ "figure" \in Fields
    BY DEF Fields
  <1> DEFINE Is(x, y, z) == /\ x \in {y, z} /\ (z # "" => x = z)
                            /\ z = "" => x = y
  <1>2. \A f \in Fields : Is(r[f], w[f], v[f])
    BY DEF Over
  <1> HIDE DEF Is
  <1>3. /\ Is(r.company, w.company, v.company) /\ Is(r.home, w.home, v.home)
        /\ Is(r.region, w.region, v.region) /\ Is(r.p1, w.p1, v.p1)
        /\ Is(r.investor, w.investor, v.investor) /\ Is(r.kvic, w.kvic, v.kvic)
        /\ Is(r.figure, w.figure, v.figure)
    BY <1>1, <1>2
  <1> QED
    BY <1>3 DEF Is

LEMMA CompanyOver ==
  ASSUME NEW r, NEW w, NEW v, Over(r, w, v), v.company # ""
  PROVE  r.company = v.company
  BY OverCells, ZenonT(60)

LEMMA MarkOver ==
  ASSUME NEW r, NEW w, NEW v, Over(r, w, v), v.p1 # ""
  PROVE  r.p1 = v.p1
  BY OverCells, ZenonT(60)

LEMMA RegionOver ==
  ASSUME NEW r, NEW w, NEW v, Over(r, w, v)
  PROVE  /\ v.region # "" => r.region = v.region
         /\ v.region = "" => r.region = w.region
  <1> DEFINE Is(x, y, z) == (z # "" => x = z) /\ (z = "" => x = y)
  <1>1. \A f \in Fields : Is(r[f], w[f], v[f])
    BY DEF Over
  <1>2. "region" \in Fields
    BY DEF Fields
  <1> HIDE DEF Is
  <1>3. Is(r.region, w.region, v.region)
    BY <1>1, <1>2
  <1> QED
    BY <1>3 DEF Is

LEMMA CollectedOver ==
  ASSUME NEW r, NEW w, NEW v, Over(r, w, v), w.collected # ""
  PROVE  r.collected # ""
  <1> DEFINE Is(x, y, z) == (z # "" => x = z) /\ (z = "" => x = y)
  <1>1. \A f \in Fields : Is(r[f], w[f], v[f])
    BY DEF Over
  <1>2. "collected" \in Fields
    BY DEF Fields
  <1> HIDE DEF Is
  <1>3. Is(r.collected, w.collected, v.collected)
    BY <1>1, <1>2
  <1> QED
    BY <1>3 DEF Is

\* What is merged of two rows of a person is a row of that person.
LEMMA NamedOver ==
  ASSUME NEW q, NEW u, NEW r, NEW w, NEW v, Over(r, w, v), Named(w, q, u), Named(v, q, u),
         Person(w.company) = Person(v.company)
  PROVE  Named(r, q, u) /\ r.company = v.company
  <1>1. v.company # "" /\ NormName(w.company) = NormName(v.company)
    BY PersonSame DEF Named, Whose
  <1>2. r.company = v.company
    BY <1>1, OverCells, ZenonT(60)
  <1>3. r.home \in {w.home, v.home}
    BY OverCells
  <1>4. r.home # "" => Owner(r.home) = Person(r.company)
    BY <1>2, <1>3 DEF Named, Whose
  <1>5. ASSUME NEW c \in Companies, SameCompany(Site[c].name, r.company)
        PROVE  /\ r.home \in {"", Site[c].home}
               /\ r.company \in {Site[c].name, NormName(Site[c].name)}
               /\ NormName(Site[c].name) = Site[c].name \/ c \in u \/ r.home = Site[c].home
               /\ CellsOf(c, r)
    <2>1. SameCompany(Site[c].name, w.company) /\ SameCompany(Site[c].name, v.company)
      BY <1>1, <1>2, <1>5 DEF SameCompany
    <2>2. CellsOf(c, w) /\ CellsOf(c, v)
      BY <2>1 DEF Named
    <2>3. /\ r.region \in {w.region, v.region} /\ r.investor \in {w.investor, v.investor}
          /\ r.kvic \in {w.kvic, v.kvic} /\ r.figure \in {w.figure, v.figure}
      BY OverCells
    <2>4. CellsOf(c, r)
      BY <1>3, <2>2, <2>3 DEF CellsOf
    <2>5. /\ w.home \in {"", Site[c].home} /\ v.home \in {"", Site[c].home}
          /\ v.company \in {Site[c].name, NormName(Site[c].name)}
          /\ NormName(Site[c].name) = Site[c].name \/ c \in u \/ w.home = Site[c].home
          /\ NormName(Site[c].name) = Site[c].name \/ c \in u \/ v.home = Site[c].home
      BY <2>1 DEF Named, Whose
    <2> QED
      BY <1>2, <1>3, <2>4, <2>5
  <1>6. q = <<>> \/ (\A c \in Companies : ~SameCompany(Site[c].name, r.company)) =>
          \E k \in DOMAIN Kept : r.company = Kept[k].company
    BY <1>2 DEF Named, Whose
  <1> QED
    BY <1>1, <1>2, <1>4, <1>5, <1>6 DEF Named, Whose

LEMMA ExcuseSame ==
  ASSUME NEW u, NEW n, NEW a, NEW b, NormName(a) = NormName(b), Excuse(a, u, n)
  PROVE  Excuse(b, u, n)
  BY DEF Excuse, SameCompany

\* Persons of whom there may be two rows are of companies that a crawl did not see.
LEMMA TwofoldExcuse ==
  ASSUME NEW q, NEW u, NEW n, NEW name, Person(name) \in Twofold(q, u)
  PROVE  /\ q # <<>> /\ Excuse(name, u, n)
         /\ \E c \in Companies : /\ c \in u /\ SameCompany(Site[c].name, name)
                                 /\ NormName(Site[c].name) # Site[c].name
  <1>1. q # <<>>
    BY DEF Twofold
  <1>2. PICK c \in Companies : c \in u /\ NormName(Site[c].name) # Site[c].name
                               /\ Person(name) = NormName(Site[c].name)
    BY DEF Twofold
  <1>3. SameCompany(Site[c].name, name)
    BY <1>2, NormTwice, PersonName DEF SameCompany
  <1> QED
    BY <1>1, <1>2, <1>3 DEF Excuse

\* One of the first rows has a name.
LEMMA KeptOnce ==
  ASSUME NEW j \in DOMAIN Kept, NEW k \in DOMAIN Kept,
         NormName(Kept[j].company) = NormName(Kept[k].company)
  PROVE  j = k
  BY KeptIsApart DEF SameCompany

\* Rows of a person of whom there is one have a key in common.
LEMMA CommonKey ==
  ASSUME Apart, NEW q, NEW u, NEW w, NEW v, Named(w, q, u), Named(v, q, u),
         Person(w.company) = Person(v.company), Person(w.company) \notin Twofold(q, u)
  PROVE  KeySet(w) \intersect KeySet(v) # {}
  <1>0. w.company # "" /\ v.company # "" /\ NormName(w.company) = NormName(v.company)
    BY PersonSame DEF Named, Whose
  <1>1. CASE w.company = v.company
    <2>1. <<"company", w.company>> \in KeySet(w) /\ <<"company", w.company>> \in KeySet(v)
      BY <1>0, <1>1 DEF KeySet
    <2> QED
      BY <2>1
  <1>2. CASE w.company # v.company
    <2>1. ~(\E j, k \in DOMAIN Kept : w.company = Kept[j].company /\ v.company = Kept[k].company)
      BY <1>0, <1>2, KeptOnce
    <2>2. q # <<>>
      BY <2>1 DEF Named, Whose
    <2>3. PICK c \in Companies : SameCompany(Site[c].name, w.company)
      <3>1. (\A c \in Companies : ~SameCompany(Site[c].name, w.company)) =>
              (\A c \in Companies : ~SameCompany(Site[c].name, v.company))
        BY <1>0 DEF SameCompany
      <3> QED
        BY <2>1, <3>1 DEF Named, Whose
    <2>4. SameCompany(Site[c].name, v.company)
      BY <1>0, <2>3 DEF SameCompany
    <2>5. /\ w.company \in {Site[c].name, NormName(Site[c].name)}
          /\ v.company \in {Site[c].name, NormName(Site[c].name)}
          /\ NormName(Site[c].name) = Site[c].name \/ c \in u
               \/ (w.home = Site[c].home /\ v.home = Site[c].home)
      BY <2>3, <2>4 DEF Named, Whose
    <2>6. ~Homeless(w.company) /\ ~Homeless(v.company)
      BY <1>0, <1>2, HomelessSame, PersonName
    <2>7. Site[c].home # ""
      BY <2>3, <2>6 DEF Homeless
    <2>8. Person(w.company) = NormName(Site[c].name)
      BY <2>3, <2>7, NotHomeless
    <2>9. c \notin u
      BY <1>2, <2>2, <2>5, <2>8 DEF Twofold
    <2>10. w.home = Site[c].home /\ v.home = Site[c].home
      BY <1>2, <2>5, <2>9
    <2>11. <<"home", Site[c].home>> \in KeySet(w) /\ <<"home", Site[c].home>> \in KeySet(v)
      BY <2>7, <2>10 DEF KeySet
    <2> QED
      BY <2>11
  <1> QED
    BY <1>1, <1>2

\* Rows of a person that has two may be merged.
LEMMA GoodOver ==
  ASSUME NEW q, NEW u, NEW n, NEW r, NEW w, NEW v, Over(r, w, v), Good(w, q, u, n), Good(v, q, u, n),
         Person(w.company) = Person(v.company), Person(v.company) \in Twofold(q, u)
  PROVE  Good(r, q, u, n)
  <1>1. Named(r, q, u) /\ r.company = v.company
    BY NamedOver DEF Good
  <1>2. q # <<>> /\ Excuse(r.company, u, n)
    BY <1>1, TwofoldExcuse
  <1> QED
    BY <1>1, <1>2 DEF Good, Marked

\* What is written over a row of the tab leaves one.
LEMMA GoodWritten ==
  ASSUME NEW q, NEW u, NEW n, NEW old, NEW r, NEW w, NEW x, Over(r, w, x),
         Good(w, q, u, n), Incoming(x, q, u, n, old), Person(w.company) = Person(x.company)
  PROVE  Good(r, q, u, n)
  <1>1. Named(r, q, u) /\ r.company = x.company /\ NormName(w.company) = NormName(x.company)
    <2>1. Named(w, q, u) /\ Named(x, q, u)
      BY DEF Good, Incoming
    <2> QED
      BY <2>1, NamedOver, PersonSame
  <1>2. r.p1 = x.p1
    <2>1. x.p1 # ""
      BY DEF Incoming
    <2> QED
      BY <2>1, MarkOver
  <1>3. CASE q = <<>>
    <2>1. PICK k \in DOMAIN Kept : x.company = Kept[k].company /\ (Kept[k].region \in P1Areas => x.p1 = "Y")
      BY <1>3 DEF Incoming
    <2>2. PICK j \in DOMAIN Kept : w.company = Kept[j].company /\ w.region = Kept[j].region
      BY <1>3 DEF Good, Marked, OfKept
    <2>3. j = k
      BY <1>1, <2>1, <2>2, KeptOnce
    <2>4. r.region = w.region
      <3>1. x.region = ""
        BY <1>3 DEF Incoming
      <3> QED
        BY <3>1, RegionOver
    <2>5. OfKept(r.company, r.region) /\ (r.region \in P1Areas => r.p1 = "Y")
      BY <1>1, <1>2, <2>1, <2>2, <2>3, <2>4 DEF OfKept
    <2>6. r.collected # ""
      <3>1. w.collected # ""
        BY <1>3 DEF Good, Marked
      <3> QED
        BY <3>1, CollectedOver
    <2> QED
      BY <1>1, <2>5, <2>6 DEF Good, Marked
  <1>4. CASE q # <<>>
    <2>1. CASE Excuse(x.company, u, n)
      BY <1>1, <1>4, <2>1 DEF Good, Marked
    <2>2. CASE ~Excuse(x.company, u, n)
      <3>1. PICK c \in Companies : /\ SameCompany(Site[c].name, x.company) /\ x.region = Site[c].region
                                   /\ x.region \in P1Areas => x.p1 = "Y"
        BY <2>2 DEF Incoming, Told
      <3>2. SameCompany(Site[c].name, w.company)
        BY <1>1, <3>1 DEF SameCompany
      <3>3. w.region \in {"", Site[c].region}
        BY <3>2 DEF Good, Named, CellsOf
      <3>4. r.region = x.region
        <4>1. x.region # "" \/ w.region = x.region
          BY <3>1, <3>3
        <4> QED
          BY <4>1, RegionOver, ZenonT(60)
      <3> QED
        BY <1>1, <1>2, <1>4, <3>1, <3>4 DEF Good, Marked
    <2> QED
      BY <2>1, <2>2
  <1> QED
    BY <1>3, <1>4

\* Rows to be written under one name may be merged.
LEMMA WrittenOver ==
  ASSUME NEW q, NEW u, NEW n, NEW old, NEW r, NEW x, NEW y, Over(r, x, y),
         Incoming(x, q, u, n, old), Incoming(y, q, u, n, old), x.company = y.company
  PROVE  Incoming(r, q, u, n, old)
  <1>1. Named(r, q, u) /\ r.company = y.company
    <2>1. Named(x, q, u) /\ Named(y, q, u) /\ Person(x.company) = Person(y.company)
      BY DEF Incoming
    <2> QED
      BY <2>1, NamedOver
  <1>2. r.p1 = y.p1 /\ r.p1 \in {"Y", "N"}
    <2>1. y.p1 # "" /\ y.p1 \in {"Y", "N"}
      BY DEF Incoming
    <2> QED
      BY <2>1, MarkOver
  <1>3. Told(r, u, n)
    <2>1. CASE Excuse(y.company, u, n)
      BY <1>1, <2>1 DEF Told
    <2>2. CASE ~Excuse(y.company, u, n)
      <3>1. PICK c \in Companies : /\ SameCompany(Site[c].name, y.company) /\ y.region = Site[c].region
                                   /\ y.region \in P1Areas => y.p1 = "Y"
        BY <2>2 DEF Incoming, Told
      <3>2. SameCompany(Site[c].name, x.company)
        BY <3>1
      <3>3. x.region \in {"", Site[c].region}
        BY <3>2 DEF Incoming, Named, CellsOf
      <3>4. r.region = y.region
        <4>1. y.region # "" \/ x.region = y.region
          BY <3>1, <3>3
        <4> QED
          BY <4>1, RegionOver, ZenonT(60)
      <3> QED
        BY <1>1, <1>2, <3>1, <3>4 DEF Told
    <2> QED
      BY <2>1, <2>2
  <1>4. q = <<>> => r.region = ""
    <2>1. q = <<>> => x.region = "" /\ y.region = ""
      BY DEF Incoming
    <2> QED
      BY <2>1, RegionOver
  <1>5. q = <<>> => /\ Person(r.company) \in old
                    /\ \E k \in DOMAIN Kept : /\ r.company = Kept[k].company
                                              /\ Kept[k].region \in P1Areas => r.p1 = "Y"
    BY <1>1, <1>2 DEF Incoming
  <1> QED
    BY <1>1, <1>2, <1>3, <1>4, <1>5 DEF Incoming

\* A row that is written may stand for itself, or its person's is there.
LEMMA WrittenStands ==
  ASSUME NEW q, NEW u, NEW n, NEW old, NEW x, Incoming(x, q, u, n, old)
  PROVE  Good(x, q, u, n) \/ (Person(x.company) \notin Twofold(q, u) /\ Person(x.company) \in old)
  <1>1. CASE q = <<>>
    BY <1>1 DEF Incoming, Twofold
  <1>2. CASE q # <<>>
    BY <1>2 DEF Incoming, Told, Good, Marked
  <1> QED
    BY <1>1, <1>2

LEMMA RowsAreFit ==
  ASSUME Apart, NEW V, NEW q, NEW u, NEW n, NEW old
  PROVE  Fitting(V, {w \in [Fields -> V] : Good(w, q, u, n)},
                 {x \in [Fields -> V] : Incoming(x, q, u, n, old)}, Twofold(q, u), old)
  <1> DEFINE G == {w \in [Fields -> V] : Good(w, q, u, n)}
             X == {x \in [Fields -> V] : Incoming(x, q, u, n, old)}
             T == Twofold(q, u)
  <1>1. G \subseteq [Fields -> V] /\ X \subseteq [Fields -> V]
    OBVIOUS
  <1>2. \A w \in G : w \in [Fields -> V] /\ Good(w, q, u, n)
    OBVIOUS
  <1>3. \A x \in X : x \in [Fields -> V] /\ Incoming(x, q, u, n, old)
    OBVIOUS
  <1>4. \A w \in [Fields -> V] : Good(w, q, u, n) => w \in G
    OBVIOUS
  <1>5. \A x \in [Fields -> V] : Incoming(x, q, u, n, old) => x \in X
    OBVIOUS
  <1> HIDE DEF G, X, T
  <1>6. \A w \in G \union X : Named(w, q, u)
    BY <1>2, <1>3 DEF Good, Incoming
  <1>7. \A w \in G \union X : w.company # "" /\ (w.home # "" => Owner(w.home) = Person(w.company))
    BY <1>6 DEF Named, Whose
  <1>8. \A w, v \in G \union X :
          Person(w.company) = Person(v.company) /\ Person(w.company) \notin T =>
            KeySet(w) \intersect KeySet(v) # {}
    BY <1>6, CommonKey DEF T
  <1>9. \A x \in X : x \in G \/ (Person(x.company) \notin T /\ Person(x.company) \in old)
    BY <1>3, <1>4, WrittenStands DEF T
  <1>10. ASSUME NEW w \in G, NEW v \in G, Person(w.company) = Person(v.company), Person(w.company) \in T
         PROVE  Sheet!MergeDuplicate(w, v) \in G
    <2>1. Sheet!MergeDuplicate(w, v) \in [Fields -> V] /\ Over(Sheet!MergeDuplicate(w, v), v, w)
      BY <1>2, MergedOver
    <2>2. Good(Sheet!MergeDuplicate(w, v), q, u, n)
      BY <1>2, <1>10, <2>1, GoodOver DEF T
    <2> QED
      BY <1>4, <2>1, <2>2
  <1>11. ASSUME NEW w \in G, NEW x \in X, Person(w.company) = Person(x.company)
         PROVE  Sheet!MergeExisting(w, x) \in G
    <2>1. Sheet!MergeExisting(w, x) \in [Fields -> V] /\ Over(Sheet!MergeExisting(w, x), w, x)
      BY <1>2, <1>3, MergedOver
    <2>2. Good(Sheet!MergeExisting(w, x), q, u, n)
      BY <1>2, <1>3, <1>11, <2>1, GoodWritten
    <2> QED
      BY <1>4, <2>1, <2>2
  <1>12. ASSUME NEW x \in X, NEW y \in X, x.company = y.company
         PROVE  Sheet!MergeGenerated(x, y) \in X
    <2>1. Sheet!MergeGenerated(x, y) \in [Fields -> V] /\ Over(Sheet!MergeGenerated(x, y), x, y)
      BY <1>3, MergedOver
    <2>2. Incoming(Sheet!MergeGenerated(x, y), q, u, n, old)
      BY <1>3, <1>12, <2>1, WrittenOver
    <2> QED
      BY <1>5, <2>1, <2>2
  <1>13. Fitting(V, G, X, T, old)
    BY <1>1, <1>7, <1>8, <1>9, <1>10, <1>11, <1>12 DEF Fitting
  <1> QED
    BY <1>13 DEF G, X, T
-----------------------------------------------------------------------------
(* The rows of the tab, as the jobs write them.                            *)

TabInv ==
  /\ \E V : tab \in Seq([Fields -> V])
  /\ \A k \in DOMAIN tab : Good(tab[k], queue, unseen, known)
  /\ Once(tab, Twofold(queue, unseen))

\* What the enrichment has taken, and what it was told about that.
TakenInv ==
  /\ epc # "idle" =>
       /\ \E n \in Nat : DOMAIN taken = 1..n
       /\ \A k \in DOMAIN taken :
            /\ Whose(taken[k].company, taken[k].home, queue, unseen)
            /\ queue = <<>> => /\ OfKept(taken[k].company, taken[k].region)
                               /\ Person(taken[k].company) \in Persons(tab)
  /\ epc \in {"settle", "publish"} =>
       \A k \in DOMAIN taken : \A c \in Companies :
         SameCompany(Site[c].name, taken[k].company) => answers[k].figure \in Figures(c)

LEMMA Grown ==
  ASSUME NEW q, NEW u, NEW n, NEW q2, NEW u2, NEW n2,
         q # <<>> => q2 # <<>>, u \subseteq u2, n \subseteq n2
  PROVE  /\ \A name, home : Whose(name, home, q, u) => Whose(name, home, q2, u2)
         /\ \A w : Good(w, q, u, n) => Good(w, q2, u2, n2)
         /\ Twofold(q, u) \subseteq Twofold(q2, u2)
  <1>1. \A name, home : Whose(name, home, q, u) => Whose(name, home, q2, u2)
    BY DEF Whose
  <1>2. \A name : Excuse(name, u, n) => Excuse(name, u2, n2)
    BY DEF Excuse
  <1>3. ASSUME NEW w, Good(w, q, u, n) PROVE Good(w, q2, u2, n2)
    <2>1. Named(w, q2, u2)
      BY <1>1, <1>3 DEF Good, Named
    <2>2. Marked(w, q2, u2, n2)
      BY <1>2, <1>3 DEF Good, Marked
    <2> QED
      BY <2>1, <2>2 DEF Good
  <1>4. Twofold(q, u) \subseteq Twofold(q2, u2)
    BY DEF Twofold
  <1> QED
    BY <1>1, <1>3, <1>4

LEMMA TabStays ==
  ASSUME TabInv, UNCHANGED tab, queue # <<>> => queue' # <<>>, unseen \subseteq unseen', known \subseteq known'
  PROVE  TabInv'
  <1>1. PICK V : tab \in Seq([Fields -> V])
    BY DEF TabInv
  <1>2. \A k \in DOMAIN tab : Good(tab[k], queue', unseen', known')
    <2>1. \A w : Good(w, queue, unseen, known) => Good(w, queue', unseen', known')
      BY Grown
    <2> QED
      BY <2>1 DEF TabInv
  <1>3. Once(tab, Twofold(queue', unseen'))
    <2>1. Twofold(queue, unseen) \subseteq Twofold(queue', unseen')
      BY Grown
    <2> QED
      BY <2>1 DEF TabInv, Once
  <1>4. tab' = tab
    OBVIOUS
  <1> QED
    BY <1>1, <1>2, <1>3, <1>4 DEF TabInv

LEMMA TakenStays ==
  ASSUME TakenInv, UNCHANGED enrich, queue # <<>> => queue' # <<>>, unseen \subseteq unseen',
         known \subseteq known', queue' = <<>> => Persons(tab) \subseteq Persons(tab')
  PROVE  TakenInv'
  <1>1. UNCHANGED <<epc, taken, answers>>
    BY DEF enrich
  <1>2. \A name, home : Whose(name, home, queue, unseen) => Whose(name, home, queue', unseen')
    BY Grown
  <1>3. ASSUME epc # "idle", NEW k \in DOMAIN taken
        PROVE  /\ Whose(taken[k].company, taken[k].home, queue', unseen')
               /\ queue' = <<>> => /\ OfKept(taken[k].company, taken[k].region)
                                   /\ Person(taken[k].company) \in Persons(tab')
    BY <1>2, <1>3 DEF TakenInv
  <1> QED
    BY <1>1, <1>3 DEF TakenInv

LEMMA TakenForgotten == ASSUME ForgetEnrich PROVE TakenInv'
  <1>1. epc' = "idle"
    BY DEF ForgetEnrich
  <1> QED
    BY <1>1 DEF TakenInv

Celled(row) == row \in [Fields -> {row[f] : f \in Fields}]
Row(row, company, home, region, rep, p1, rule, round, investor, kvic, collected, sminfo, figure, at) ==
  row = [company |-> company, home |-> home, region |-> region, rep |-> rep, p1 |-> p1, rule |-> rule,
         round |-> round, investor |-> investor, kvic |-> kvic, collected |-> collected,
         sminfo |-> sminfo, figure |-> figure, at |-> at]

LEMMA RowCells ==
  ASSUME NEW row, NEW a1, NEW a2, NEW a3, NEW a4, NEW a5, NEW a6, NEW a7, NEW a8, NEW a9, NEW a10,
         NEW a11, NEW a12, NEW a13, Row(row, a1, a2, a3, a4, a5, a6, a7, a8, a9, a10, a11, a12, a13)
  PROVE  /\ Celled(row)
         /\ row.company = a1 /\ row.home = a2 /\ row.region = a3 /\ row.p1 = a5
         /\ row.investor = a8 /\ row.kvic = a9 /\ row.figure = a12
  BY DEF Fields, Row, Celled

\* An upsert starts from the rows of the tab or, once something is queued, from none.
LEMMA BaseFits ==
  ASSUME TabInv
  PROVE  /\ \E V : Base \in Seq([Fields -> V])
         /\ \A k \in DOMAIN Base : /\ Good(Base[k], queue, unseen, known)
                                  /\ \E j \in DOMAIN tab : tab[j] = Base[k]
         /\ Once(Base, Twofold(queue, unseen))
         /\ Base = tab \/ (Legacy /\ queue # <<>>)
  <1>1. Base = tab \/ (Base = <<>> /\ Legacy)
    BY DEF Base
  <1>2. queue = <<>> => ~Legacy
    BY DEF TabInv, Good, Marked, Legacy
  <1>3. CASE Base = tab
    BY <1>3 DEF TabInv
  <1>4. CASE Base = <<>>
    <2>1. DOMAIN <<>> = {} /\ <<>> \in Seq([Fields -> {}])
      OBVIOUS
    <2>2. Once(<<>>, Twofold(queue, unseen))
      BY <2>1 DEF Once
    <2> HIDE DEF Base
    <2> QED
      BY <1>1, <1>2, <1>4, <2>1, <2>2, Zenon DEF TabInv
  <1> QED
    BY <1>1, <1>3, <1>4

\* The rows that the tab may have and that may be written to it, of some values.
TabRows(W) == {w \in [Fields -> W] : Good(w, queue, unseen, known)}
NewRows(W) == {x \in [Fields -> W] : Incoming(x, queue, unseen, known, Persons(Base))}

LEMMA WrittenRows ==
  ASSUME Apart, TabInv, NEW m \in Nat, NEW list, list = [k \in 1..m |-> list[k]],
         \A k \in 1..m : /\ Celled(list[k])
                         /\ Incoming(list[k], queue, unseen, known, Persons(Base))
  PROVE  \E W : /\ Fitting(W, TabRows(W), NewRows(W), Twofold(queue, unseen), Persons(Base))
                /\ Base \in Seq(TabRows(W)) /\ list \in Seq(NewRows(W))
  <1>1. PICK V : Base \in Seq([Fields -> V])
    BY BaseFits
  <1> DEFINE W == V \union UNION {{list[k][f] : f \in Fields} : k \in 1..m}
             G == {w \in [Fields -> W] : Good(w, queue, unseen, known)}
             X == {x \in [Fields -> W] : Incoming(x, queue, unseen, known, Persons(Base))}
             T == Twofold(queue, unseen)
  <1>2. /\ DOMAIN Base = 1..Len(Base) /\ Len(Base) \in Nat
        /\ \A k \in DOMAIN Base : Base[k] \in [Fields -> V]
        /\ Base = [k \in 1..Len(Base) |-> Base[k]]
    BY <1>1
  <1>3. \A k \in 1..Len(Base) : Base[k] \in G
    <2> TAKE k \in 1..Len(Base)
    <2>1. Base[k] \in [Fields -> V] /\ Good(Base[k], queue, unseen, known)
      BY <1>2, BaseFits
    <2>2. V \subseteq W
      OBVIOUS
    <2> HIDE DEF W
    <2>3. Base[k] \in [Fields -> W]
      BY <2>1, <2>2
    <2> QED
      BY <2>1, <2>3
  <1>4. \A k \in 1..m : list[k] \in X
    <2> TAKE k \in 1..m
    <2> DEFINE C == {list[k][f] : f \in Fields}
    <2>1. list[k] \in [Fields -> C] /\ Incoming(list[k], queue, unseen, known, Persons(Base))
      BY DEF Celled
    <2>2. C \subseteq W
      OBVIOUS
    <2> HIDE DEF W, C
    <2>3. list[k] \in [Fields -> W]
      BY <2>1, <2>2
    <2> QED
      BY <2>1, <2>3
  <1>5. Fitting(W, G, X, T, Persons(Base))
    BY RowsAreFit
  <1> HIDE DEF W
  <1>6. \A w \in G : w \in [Fields -> W] /\ Good(w, queue, unseen, known)
    OBVIOUS
  <1> HIDE DEF G, X
  <1>7. Base \in Seq(G)
    BY <1>2, <1>3, MakeList
  <1>8. list \in Seq(X)
    BY <1>4, MakeList
  <1> QED
    BY <1>5, <1>7, <1>8 DEF G, X, TabRows, NewRows

\* Rows written to a tab that fits leave it one.
LEMMA WrittenTab ==
  ASSUME Apart, TabInv, NEW m \in Nat, NEW list, list = [k \in 1..m |-> list[k]],
         \A k \in 1..m : /\ Celled(list[k])
                         /\ Incoming(list[k], queue, unseen, known, Persons(Base)),
         tab' = Sheet!Upsert(Base, list), UNCHANGED <<queue, unseen, known>>
  PROVE  TabInv' /\ Persons(Base) \subseteq Persons(tab') /\ Rounded(Base) \subseteq Rounded(tab')
  <1>1. PICK W : /\ Fitting(W, TabRows(W), NewRows(W), Twofold(queue, unseen), Persons(Base))
                 /\ Base \in Seq(TabRows(W)) /\ list \in Seq(NewRows(W))
    BY WrittenRows
  <1> DEFINE G == TabRows(W)
             X == NewRows(W)
             T == Twofold(queue, unseen)
  <1>6. \A w \in G : w \in [Fields -> W] /\ Good(w, queue, unseen, known)
    BY DEF TabRows
  <1> HIDE DEF G, X
  <1>9. Once(Base, T)
    BY BaseFits
  <1> DEFINE r == Sheet!Upsert(Base, list)
  <1>10. /\ r \in Seq(G) /\ Once(r, T) /\ Persons(Base) \subseteq Persons(r)
         /\ Rounded(Base) \subseteq Rounded(r)
    <2>1. Fitting(W, G, X, T, Persons(Base)) /\ Base \in Seq(G) /\ list \in Seq(X)
      BY <1>1 DEF G, X
    <2> HIDE DEF T
    <2> QED
      BY <1>9, <2>1, UpsertFits
  <1>11. tab' = r
    OBVIOUS
  <1> HIDE DEF r
  <1>12. /\ DOMAIN r = 1..Len(r) /\ Len(r) \in Nat /\ r = [k \in 1..Len(r) |-> r[k]]
         /\ \A k \in 1..Len(r) : r[k] \in G
    BY <1>10
  <1>13. r \in Seq([Fields -> W])
    <2>1. \A k \in 1..Len(r) : r[k] \in [Fields -> W]
      BY <1>6, <1>12
    <2> QED
      BY <1>12, <2>1, MakeList
  <1>14. \A k \in DOMAIN r : Good(r[k], queue, unseen, known)
    BY <1>6, <1>12
  <1>15. TabInv'
    BY <1>10, <1>11, <1>13, <1>14 DEF TabInv
  <1> QED
    BY <1>10, <1>11, <1>15

LEMMA NamesAreFilled ==
  ASSUME NEW c \in Companies
  PROVE  Site[c].name # "" /\ NormName(Site[c].name) # "" /\ "" \in Figures(c)
  BY DetailAssumption DEF DetailAssumption, Figures

\* A company under one of its names, with its homepage unless that was not seen.
Shown(c, name, home, u) ==
  /\ name \in {Site[c].name, NormName(Site[c].name)}
  /\ home \in {"", Site[c].home} /\ (c \in u \/ home = Site[c].home)

LEMMA WhoseSite ==
  ASSUME Apart, NEW q, NEW u, NEW c \in Companies, NEW name, NEW home, Shown(c, name, home, u), q # <<>>
  PROVE  Whose(name, home, q, u) /\ SameCompany(Site[c].name, name)
         /\ \A d \in Companies : SameCompany(Site[d].name, name) => d = c
  <1>1. name # "" /\ SameCompany(Site[c].name, name)
    BY NamesAreFilled, NormTwice DEF Shown, SameCompany
  <1>2. home # "" => Owner(home) = Person(name)
    <2> SUFFICES ASSUME home # "" PROVE Owner(home) = Person(name)
      OBVIOUS
    <2>1. home = Site[c].home /\ Site[c].home # ""
      BY DEF Shown
    <2> QED
      BY <1>1, <2>1, OwnerOfSite, NotHomeless
  <1>3. \A d \in Companies : SameCompany(Site[d].name, name) => d = c
    BY <1>1 DEF Apart, SameCompany
  <1> QED
    BY <1>1, <1>2, <1>3 DEF Shown, Whose

LEMMA MarkOf ==
  ASSUME NEW places
  PROVE  /\ P1(places).p1 \in {"Y", "N"}
         /\ (\E place \in places : place \in P1Areas) => P1(places).p1 = "Y"
  <1>1. (\E place \in places : place \in P1Areas) => places \intersect P1Areas # {}
    OBVIOUS
  <1> QED
    BY <1>1 DEF P1

\* The row of a card, with all that its page tells or of a company not seen.
AllSeen(x, u) == x.co \in u \/ (x.home = Site[x.co].home /\ x.region = Site[x.co].region)

LEMMA CardWritten ==
  ASSUME Apart, NEW x \in CardRows, NEW q, NEW u, NEW n, NEW old, q # <<>>, AllSeen(x, u)
  PROVE  Incoming(DetailRow(x), q, u, n, old) /\ Celled(DetailRow(x))
  <1> DEFINE row == DetailRow(x)
             c == x.co
             name == x.name
             home == x.home
             region == x.region
             rep == x.rep
             round == x.round
             investor == x.investor
             mark == P1({region})
             kvic == KvicContext(investor, Managers)
             p1 == mark.p1
             rule == mark.rule
  <1>1. /\ c \in Companies /\ name = Site[c].name /\ investor = Site[c].investor
        /\ home \in {"", Site[c].home} /\ region \in {"", Site[c].region}
        /\ c \in u \/ (home = Site[c].home /\ region = Site[c].region)
    BY CardFields DEF AllSeen
  <1>2. Row(row, name, home, region, rep, p1, rule, round, investor, kvic, "yes", "", "", "")
    BY DEF DetailRow, Row
  <1>3. p1 \in {"Y", "N"} /\ (region \in P1Areas => p1 = "Y")
    BY MarkOf
  <1>4. kvic \in {"", investor}
    BY DEF KvicContext
  <1> HIDE DEF row, c, name, home, region, rep, round, investor, mark, kvic, p1, rule
  <1>5. /\ Celled(row)
        /\ row.company = name /\ row.home = home /\ row.region = region /\ row.p1 = p1
        /\ row.investor = investor /\ row.kvic = kvic /\ row.figure = ""
    BY <1>2, RowCells
  <1>6. /\ Whose(name, home, q, u) /\ SameCompany(Site[c].name, name)
        /\ \A d \in Companies : SameCompany(Site[d].name, name) => d = c
    <2>1. Shown(c, name, home, u) /\ c \in Companies
      BY <1>1 DEF Shown
    <2> QED
      BY <2>1, WhoseSite
  <1>7. CellsOf(c, row)
    BY <1>1, <1>4, <1>5, NamesAreFilled DEF CellsOf
  <1>8. Named(row, q, u)
    BY <1>5, <1>6, <1>7 DEF Named
  <1>9. Told(row, u, n)
    <2>1. CASE c \in u
      BY <1>5, <1>6, <2>1 DEF Told, Excuse
    <2>2. CASE region = Site[c].region
      BY <1>1, <1>3, <1>5, <1>6, <2>2 DEF Told
    <2> QED
      BY <1>1, <2>1, <2>2
  <1>10. Incoming(row, q, u, n, old)
    BY <1>3, <1>5, <1>8, <1>9 DEF Incoming
  <1> QED
    BY <1>5, <1>10 DEF row

\* m rows of a list that may be written to the tab.
Writable(list, m) ==
  /\ list = [k \in 1..m |-> list[k]]
  /\ \A k \in 1..m : Celled(list[k]) /\ Incoming(list[k], queue, unseen, known, Persons(Base))

LEMMA CardsToWrite ==
  ASSUME Apart, DetailInv, PublishCards
  PROVE  \E m \in Nat : \E list :
           /\ Writable(list, m) /\ tab' = Sheet!Upsert(Base, list)
           /\ DOMAIN cards = 1..m /\ \A k \in 1..m : cards[k] \in CardRows /\ list[k] = DetailRow(cards[k])
  <1> DEFINE list == [k \in DOMAIN cards |-> DetailRow(cards[k])]
  <1>1. /\ tab' = Sheet!Upsert(Base, list) /\ UNCHANGED <<queue, known, enrich, past>> /\ cpc = "publish"
    BY DEF PublishCards
  <1>2. UNCHANGED unseen
    BY <1>1 DEF past
  <1>3. /\ queue # <<>> /\ DOMAIN cards = 1..Len(cards) /\ Len(cards) \in Nat
        /\ \A k \in DOMAIN cards :
             /\ cards[k] \in CardRows
             /\ AllSeen(cards[k], unseen)
    <2>1. queue # <<>> /\ cards \in Seq(CardRows) /\ \A x \in ToSet(cards) : AllSeen(x, unseen)
      BY <1>1 DEF DetailInv, CrawlInv, AllSeen
    <2>2. /\ DOMAIN cards = 1..Len(cards) /\ Len(cards) \in Nat
          /\ \A k \in DOMAIN cards : cards[k] \in CardRows
      BY <2>1, ListFacts
    <2>3. ToSet(cards) = {cards[k] : k \in DOMAIN cards}
      BY DEF ToSet
    <2> QED
      BY <2>1, <2>2, <2>3
  <1> DEFINE m == Len(cards)
  <1>4. list = [k \in 1..m |-> list[k]]
    BY <1>3
  <1>5. ASSUME NEW k \in 1..m
        PROVE  /\ Celled(list[k])
               /\ Incoming(list[k], queue, unseen, known, Persons(Base))
    <2>1. list[k] = DetailRow(cards[k])
      BY <1>3
    <2> QED
      BY <1>3, <2>1, CardWritten
  <1>7. \A k \in 1..m : list[k] = DetailRow(cards[k])
    BY <1>3
  <1> HIDE DEF list
  <1>6. Writable(list, m)
    BY <1>4, <1>5 DEF Writable
  <1> QED
    BY <1>1, <1>3, <1>6, <1>7

LEMMA PublishCardsFits ==
  ASSUME Apart, DetailInv, TabInv, TakenInv, PublishCards
  PROVE  TabInv' /\ TakenInv'
  <1>1. UNCHANGED <<queue, known, enrich, past>>
    BY DEF PublishCards
  <1>2. UNCHANGED unseen
    BY <1>1 DEF past
  <1>9. PICK m \in Nat : \E list : Writable(list, m) /\ tab' = Sheet!Upsert(Base, list)
    BY CardsToWrite
  <1>3. PICK list : Writable(list, m) /\ tab' = Sheet!Upsert(Base, list)
    BY <1>9
  <1>4. TabInv' /\ Persons(Base) \subseteq Persons(tab')
    BY <1>1, <1>2, <1>3, WrittenTab DEF Writable
  <1>5. queue' = <<>> => Persons(tab) \subseteq Persons(tab')
    BY <1>1, <1>4, BaseFits
  <1>6. TakenInv'
    BY <1>1, <1>2, <1>5, TakenStays
  <1> QED
    BY <1>4, <1>6

LEMMA AnswerCells ==
  ASSUME NEW row, NEW name, NEW home, NEW p1, NEW rule, NEW sminfo, NEW figure, NEW at,
         Row(row, name, home, "", "", p1, rule, "", "", "", "", sminfo, figure, at)
  PROVE  /\ Celled(row)
         /\ row.company = name /\ row.home = home /\ row.region = ""
         /\ row.p1 = p1 /\ row.investor = "" /\ row.kvic = "" /\ row.figure = figure
  BY DEF Fields, Row, Celled

\* The row of an answer.
LEMMA AnswerWritten ==
  ASSUME Apart, DetailInv, TabInv, TakenInv, epc = "publish", NEW k \in DOMAIN taken
  PROVE  Incoming(DetailUpdate(k), queue, unseen, known, Persons(Base))
         /\ Celled(DetailUpdate(k))
  <1> DEFINE row == DetailUpdate(k)
             mark == P1({taken[k].region, answers[k].place})
             name == taken[k].company
             home == taken[k].home
             figure == answers[k].figure
             sminfo == answers[k].status
             at == "fresh"
             p1 == mark.p1
             rule == mark.rule
  <1>1. Row(row, name, home, "", "", p1, rule, "", "", "", "", sminfo, figure, at)
    BY DEF DetailUpdate, Row
  <1>3. p1 \in {"Y", "N"} /\ (taken[k].region \in P1Areas => p1 = "Y")
    BY MarkOf
  <1> HIDE DEF row, mark, name, home, figure, sminfo, p1, rule, at
  <1>2. /\ Celled(row)
        /\ row.company = name /\ row.home = home /\ row.region = ""
        /\ row.p1 = p1 /\ row.investor = "" /\ row.kvic = "" /\ row.figure = figure
    BY <1>1, AnswerCells
  <1>4. /\ row.company = taken[k].company /\ row.home = taken[k].home /\ row.region = ""
        /\ row.p1 = p1 /\ row.investor = "" /\ row.kvic = "" /\ row.figure = answers[k].figure
    BY <1>2 DEF name, home, figure
  <1>5. /\ Whose(taken[k].company, taken[k].home, queue, unseen)
        /\ queue = <<>> => /\ OfKept(taken[k].company, taken[k].region)
                           /\ Person(taken[k].company) \in Persons(tab)
        /\ \A c \in Companies : SameCompany(Site[c].name, taken[k].company) => answers[k].figure \in Figures(c)
    BY DEF TakenInv
  <1>6. taken[k].company \in known
    BY DEF DetailInv, EnrichInv
  <1>7. Named(row, queue, unseen)
    <2>1. ASSUME NEW c \in Companies, SameCompany(Site[c].name, row.company)
          PROVE  CellsOf(c, row)
      <3>1. row.home \in {"", Site[c].home} /\ row.figure \in Figures(c)
        BY <1>4, <1>5, <2>1 DEF Whose
      <3> QED
        BY <1>4, <3>1 DEF CellsOf
    <2> QED
      BY <1>4, <1>5, <2>1 DEF Named
  <1>8. Told(row, unseen, known)
    BY <1>4, <1>6 DEF Told, Excuse, SameCompany
  <1>9. queue = <<>> => \E j \in DOMAIN Kept : /\ row.company = Kept[j].company
                                               /\ Kept[j].region \in P1Areas => row.p1 = "Y"
    BY <1>3, <1>4, <1>5 DEF OfKept
  <1>10. queue = <<>> => Person(taken[k].company) \in Persons(Base)
    BY <1>5, BaseFits
  <1>11. Incoming(row, queue, unseen, known, Persons(Base))
    BY <1>3, <1>4, <1>7, <1>8, <1>9, <1>10 DEF Incoming
  <1> QED
    BY <1>2, <1>11 DEF row

LEMMA AnswersToWrite ==
  ASSUME Apart, DetailInv, TabInv, TakenInv, PublishAnswers
  PROVE  \E m \in Nat : \E list :
           /\ Writable(list, m) /\ tab' = Sheet!Upsert(Base, list)
           /\ \A k \in 1..m : Roundless(list[k])
  <1> DEFINE list == [k \in DOMAIN taken |-> DetailUpdate(k)]
  <1>1. /\ tab' = Sheet!Upsert(Base, list) /\ UNCHANGED <<queue, known, past>> /\ epc = "publish"
        /\ ForgetEnrich
    BY DEF PublishAnswers
  <1>2. UNCHANGED unseen
    BY <1>1 DEF past
  <1>3. PICK m \in Nat : DOMAIN taken = 1..m
    BY <1>1 DEF TakenInv
  <1>4. list = [k \in 1..m |-> list[k]]
    BY <1>3
  <1>5. ASSUME NEW k \in 1..m
        PROVE  /\ Celled(list[k])
               /\ Incoming(list[k], queue, unseen, known, Persons(Base))
    <2>1. list[k] = DetailUpdate(k)
      BY <1>3
    <2> QED
      BY <1>1, <1>3, <2>1, AnswerWritten
  <1>7. \A k \in 1..m : Roundless(list[k])
    <2>1. \A k \in 1..m : list[k] = DetailUpdate(k)
      BY <1>3
    <2>2. \A k : Roundless(DetailUpdate(k))
      BY DEF DetailUpdate, Roundless
    <2> HIDE DEF list
    <2> QED
      BY <2>1, <2>2
  <1> HIDE DEF list
  <1>6. Writable(list, m)
    BY <1>4, <1>5 DEF Writable
  <1> QED
    BY <1>1, <1>6, <1>7

LEMMA PublishAnswersFits ==
  ASSUME Apart, DetailInv, TabInv, TakenInv, PublishAnswers
  PROVE  TabInv' /\ TakenInv'
  <1>1. UNCHANGED <<queue, known, past>> /\ ForgetEnrich
    BY DEF PublishAnswers
  <1>2. UNCHANGED unseen
    BY <1>1 DEF past
  <1>9. PICK m \in Nat : \E list : Writable(list, m) /\ tab' = Sheet!Upsert(Base, list)
    BY AnswersToWrite
  <1>3. PICK list : Writable(list, m) /\ tab' = Sheet!Upsert(Base, list)
    BY <1>9
  <1>4. TabInv'
    BY <1>1, <1>2, <1>3, WrittenTab DEF Writable
  <1> QED
    BY <1>1, <1>4, TakenForgotten

\* SMINFO's figures are a namesake's, or those of its only result.
LEMMA ChosenFigure ==
  ASSUME NEW company, NEW candidate, NEW c \in Companies, SameCompany(Site[c].name, company)
  PROVE  ChooseResult(company, candidate, Search[NormName(company)]).figure \in Figures(c)
  <1> DEFINE results == Search[NormName(company)]
             IsOne(set) == \E k \in set : set = {k}
             exact == {k \in DOMAIN results : NormName(results[k].name) = NormName(company)}
             named == IF exact = {} /\ Len(results) = 1 THEN DOMAIN results ELSE exact
             byRep == {k \in named : candidate.rep # "" /\ results[k].rep = candidate.rep}
             left  == IF byRep = {} THEN named ELSE byRep
             near  == {k \in left : candidate.region # "" /\ results[k].place = candidate.region}
             one   == IF IsOne(named) THEN named ELSE IF IsOne(byRep) THEN byRep ELSE near
             best  == results[CHOOSE k \in one : TRUE]
             answer == ChooseResult(company, candidate, results)
  <1>1. answer = IF results = <<>> THEN [status |-> "not_found", place |-> "", figure |-> ""]
                 ELSE IF ~IsOne(one) THEN [status |-> "ambiguous", place |-> "", figure |-> ""]
                 ELSE [status |-> "matched", place |-> best.place, figure |-> best.figure]
    BY DEF ChooseResult
  <1>2. one \subseteq named
    OBVIOUS
  <1>3. \A k \in named : k \in DOMAIN results /\ (SameCompany(results[k].name, company) \/ Len(results) = 1)
    BY DEF SameCompany
  <1> HIDE DEF named, one
  <1>4. ASSUME IsOne(one) PROVE best.figure \in Figures(c)
    <2>1. PICK k \in one : best = results[k]
      BY <1>4
    <2> HIDE DEF best
    <2>2. k \in DOMAIN results /\ (SameCompany(results[k].name, Site[c].name) \/ Len(results) = 1)
      BY <1>2, <1>3, <2>1 DEF SameCompany
    <2>3. results = Search[NormName(Site[c].name)]
      BY DEF SameCompany
    <2> HIDE DEF results
    <2> DEFINE Fit(r) == SameCompany(r.name, Site[c].name) \/ Len(results) = 1
               all == ToSet(results)
    <2>4. best \in all /\ Fit(best)
      BY <2>1, <2>2 DEF ToSet
    <2> HIDE DEF Fit, all
    <2>5. best.figure \in {r.figure : r \in {r \in all : Fit(r)}}
      BY <2>4
    <2>6. Figures(c) = {""} \union {r.figure : r \in {r \in all : Fit(r)}}
      BY <2>3 DEF Figures, Fit, all
    <2> QED
      BY <2>5, <2>6
  <1>5. answer.figure = "" \/ (IsOne(one) /\ answer.figure = best.figure)
    <2> HIDE DEF best, IsOne, answer
    <2> QED
      BY <1>1
  <1> HIDE DEF best, IsOne, answer
  <1>6. answer.figure \in Figures(c)
    BY <1>4, <1>5, NamesAreFilled
  <1> QED
    BY <1>6 DEF answer, results

LEMMA LookUpFits ==
  ASSUME DetailInv, TabInv, TakenInv, LookUp
  PROVE  TabInv' /\ TakenInv'
  <1>1. /\ UNCHANGED <<queue, tab, taken, past>> /\ known \subseteq known' /\ epc = "lookup"
    BY DEF LookUp
  <1>2. UNCHANGED unseen
    BY <1>1 DEF past
  <1>3. PICK errors \in SUBSET DOMAIN taken :
          answers' = [k \in DOMAIN taken |->
            IF k \in errors THEN Failed
            ELSE ChooseResult(taken[k].company, taken[k], Search[NormName(taken[k].company)])]
    BY DEF LookUp
  <1>4. ASSUME NEW k \in DOMAIN taken, NEW c \in Companies, SameCompany(Site[c].name, taken[k].company)
        PROVE  answers'[k].figure \in Figures(c)
    <2>1. CASE k \in errors
      <3> DEFINE a == answers'[k]
      <3>1. a = Failed
        BY <1>3, <2>1
      <3>2. Failed.figure = ""
        BY DEF Failed
      <3> HIDE DEF a
      <3>3. a.figure \in Figures(c)
        BY <3>1, <3>2, NamesAreFilled
      <3> QED
        BY <3>3 DEF a
    <2>2. CASE k \notin errors
      <3> DEFINE t == taken[k]
                 name == taken[k].company
      <3>1. answers'[k] = ChooseResult(name, t, Search[NormName(name)])
        BY <1>3, <2>2
      <3>2. SameCompany(Site[c].name, name)
        BY <1>4
      <3> HIDE DEF t, name
      <3> QED
        BY <3>1, <3>2, ChosenFigure
    <2> QED
      BY <2>1, <2>2
  <1>5. TabInv'
    BY <1>1, <1>2, TabStays
  <1>6. /\ \E n \in Nat : DOMAIN taken = 1..n
        /\ \A k \in DOMAIN taken :
            /\ Whose(taken[k].company, taken[k].home, queue, unseen)
            /\ queue = <<>> => /\ OfKept(taken[k].company, taken[k].region)
                               /\ Person(taken[k].company) \in Persons(tab)
    BY <1>1 DEF TakenInv
  <1>7. TakenInv'
    BY <1>1, <1>2, <1>4, <1>6 DEF TakenInv
  <1> QED
    BY <1>5, <1>7

LEMMA TakeFromQueueFits ==
  ASSUME Apart, DetailInv', TabInv, TakeFromQueue
  PROVE  TabInv' /\ TakenInv'
  <1>1. UNCHANGED <<tab, known, past>>
    BY DEF TakeFromQueue
  <1>2. PICK n \in 1..MaxBatch : \E due \in [1..n -> {k \in DOMAIN queue : Leasable(k)}] :
          Begin([j \in 1..n |-> FromTask(queue[due[j]])], FALSE)
    BY DEF TakeFromQueue
  <1>3. epc' = "lookup" /\ byTab' = FALSE
    BY <1>2 DEF Begin
  <1>4. /\ queue' # <<>> /\ \E m \in Nat : DOMAIN taken' = 1..m
        /\ \A k \in DOMAIN taken' : Leased(taken[k])'
    BY <1>3 DEF DetailInv, EnrichInv
  <1>5. ASSUME NEW k \in DOMAIN taken' PROVE Whose(taken'[k].company, taken'[k].home, queue', unseen')
    <2>1. RowSeen(taken[k])'
      BY <1>4 DEF Leased
    <2>2. PICK c \in Companies : /\ taken'[k].company = NormName(Site[c].name)
                                 /\ taken'[k].home \in {"", Site[c].home}
                                 /\ c \in unseen' \/ taken'[k].home = Site[c].home
      BY <2>1 DEF RowSeen
    <2> DEFINE name == taken'[k].company
               home == taken'[k].home
               u == unseen'
               q == queue'
    <2>3. Shown(c, name, home, u) /\ q # <<>>
      BY <1>4, <2>2 DEF Shown
    <2> HIDE DEF name, home, u, q
    <2>4. Whose(name, home, q, u)
      BY <2>3, WhoseSite
    <2> QED
      BY <2>4 DEF name, home, u, q
  <1>6. TakenInv'
    BY <1>3, <1>4, <1>5 DEF TakenInv
  <1>7. unseen \subseteq unseen' /\ known \subseteq known'
    BY <1>1 DEF past
  <1>8. TabInv'
    BY <1>1, <1>4, <1>7, TabStays
  <1> QED
    BY <1>6, <1>8

LEMMA TakeFromTabFits ==
  ASSUME TabInv, NEW names, TakeFromTab(names)
  PROVE  TabInv' /\ TakenInv'
  <1> DEFINE wanted == Sheet!Only(tab, {row \in ToSet(tab) : Wanted(row, names)})
             first == Take(wanted, MaxBatch)
  <1>1. /\ UNCHANGED <<queue, tab, known, past>> /\ queue = <<>>
        /\ Begin([k \in DOMAIN first |-> FromRow(first[k])], TRUE)
    BY DEF TakeFromTab
  <1>2. UNCHANGED unseen /\ epc' = "lookup" /\ taken' = [k \in DOMAIN first |-> FromRow(first[k])]
    BY <1>1 DEF Begin, past
  <1> DEFINE R == {tab[i] : i \in DOMAIN tab}
  <1>3. tab \in Seq(R)
    <2>1. PICK V : tab \in Seq([Fields -> V])
      BY DEF TabInv
    <2>2. DOMAIN tab = 1..Len(tab) /\ Len(tab) \in Nat /\ tab = [i \in 1..Len(tab) |-> tab[i]]
      BY <2>1
    <2>3. \A i \in 1..Len(tab) : tab[i] \in R
      BY <2>2
    <2> HIDE DEF R
    <2> QED
      BY <2>2, <2>3, MakeList
  <1>4. wanted \in Seq(R)
    <2> DEFINE kept == {row \in ToSet(tab) : Wanted(row, names)}
    <2>1. Sheet!Only(tab, kept) \in Seq(R \intersect kept)
      <3> HIDE DEF R, kept
      <3> QED
        BY <1>3, KeptIsOnly
    <2> HIDE DEF R, kept
    <2> DEFINE s == Sheet!Only(tab, kept)
    <2>2. DOMAIN s = 1..Len(s) /\ Len(s) \in Nat /\ s = [i \in 1..Len(s) |-> s[i]]
          /\ \A i \in 1..Len(s) : s[i] \in R
      <3> HIDE DEF s
      <3>1. s \in Seq(R \intersect kept)
        BY <2>1 DEF s
      <3> QED
        BY <3>1
    <2>3. wanted = s
      BY DEF kept
    <2> HIDE DEF s, wanted
    <2> QED
      BY <2>2, <2>3, MakeList
  <1> HIDE DEF wanted, R
  <1>5. first \in Seq(R) /\ MaxBatch \in Nat
    BY <1>4, Sizes, TakeOf
  <1> HIDE DEF first
  <1>6. DOMAIN first = 1..Len(first) /\ Len(first) \in Nat /\ \A k \in DOMAIN first : first[k] \in R
    BY <1>5, ListFacts
  <1>7. ASSUME NEW k \in DOMAIN first
        PROVE  /\ Whose(taken'[k].company, taken'[k].home, queue, unseen)
               /\ OfKept(taken'[k].company, taken'[k].region)
               /\ Person(taken'[k].company) \in Persons(tab)
    <2>1. PICK i \in DOMAIN tab : first[k] = tab[i]
      BY <1>6 DEF R
    <2> DEFINE w == tab[i]
               t == taken'[k]
    <2>2. t = FromRow(w)
      BY <1>2, <2>1
    <2>3. Good(w, queue, unseen, known)
      BY DEF TabInv
    <2>4. Person(w.company) \in Persons(tab)
      BY DEF Persons
    <2> HIDE DEF w, t
    <2>5. t.company = w.company /\ t.home = w.home /\ t.region = w.region
      BY <2>2 DEF FromRow
    <2>6. Whose(w.company, w.home, queue, unseen) /\ OfKept(w.company, w.region)
      BY <1>1, <2>3 DEF Good, Named, Marked
    <2> QED
      BY <2>4, <2>5, <2>6 DEF t
  <1>8. DOMAIN taken' = DOMAIN first
    BY <1>2
  <1>9. TakenInv'
    BY <1>1, <1>2, <1>6, <1>7, <1>8 DEF TakenInv
  <1>10. TabInv'
    BY <1>1, <1>2, TabStays
  <1> QED
    BY <1>9, <1>10

\* An answer that grows old changes nothing else of its row.
LEMMA AgedRow ==
  ASSUME NEW V, NEW q, NEW u, NEW n, NEW w \in [Fields -> V], Good(w, q, u, n), "stale" \in V
  PROVE  LET r == [w EXCEPT !.at = "stale"]
         IN  r \in [Fields -> V] /\ Good(r, q, u, n) /\ r.company = w.company
  <1> DEFINE r == [w EXCEPT !.at = "stale"]
  <1>1. r \in [Fields -> V] /\ \A f \in Fields : f # "at" => r[f] = w[f]
    OBVIOUS
  <1> HIDE DEF r
  <1>2. /\ "company" \in Fields /\ "home" \in Fields /\ "region" \in Fields /\ "p1" \in Fields
        /\ "investor" \in Fields /\ "kvic" \in Fields /\ "figure" \in Fields /\ "collected" \in Fields
    BY DEF Fields
  <1>3. /\ r.company = w.company /\ r.home = w.home /\ r.region = w.region /\ r.p1 = w.p1
        /\ r.investor = w.investor /\ r.kvic = w.kvic /\ r.figure = w.figure /\ r.collected = w.collected
    BY <1>1, <1>2
  <1>4. \A c \in Companies : CellsOf(c, w) => CellsOf(c, r)
    BY <1>3 DEF CellsOf
  <1>5. Named(r, q, u)
    BY <1>3, <1>4 DEF Good, Named
  <1>6. Marked(r, q, u, n)
    BY <1>3 DEF Good, Marked
  <1> QED
    BY <1>1, <1>3, <1>5, <1>6 DEF Good, r

LEMMA AgeRowFits ==
  ASSUME TabInv, TakenInv, AgeRow
  PROVE  TabInv' /\ TakenInv'
  <1>1. PICK k \in DOMAIN tab : tab' = [tab EXCEPT ![k].at = "stale"]
    BY DEF AgeRow
  <1>2. UNCHANGED <<queue, known, enrich, past>>
    BY DEF AgeRow
  <1>3. UNCHANGED unseen
    BY <1>2 DEF past
  <1>4. PICK V : tab \in Seq([Fields -> V])
    BY DEF TabInv
  <1> DEFINE W == V \union {"stale"}
             r == tab'
             aged == [tab[k] EXCEPT !.at = "stale"]
  <1>5. /\ DOMAIN tab = 1..Len(tab) /\ Len(tab) \in Nat
        /\ \A i \in DOMAIN tab : tab[i] \in [Fields -> V]
    BY <1>4
  <1>6. "stale" \in W /\ \A i \in DOMAIN tab : tab[i] \in [Fields -> W]
    <2>1. V \subseteq W /\ "stale" \in W
      OBVIOUS
    <2> HIDE DEF W
    <2> QED
      BY <1>5, <2>1
  <1>7. /\ DOMAIN r = DOMAIN tab /\ r = [i \in DOMAIN tab |-> r[i]] /\ r[k] = aged
        /\ \A i \in DOMAIN tab : i # k => r[i] = tab[i]
    BY <1>1, <1>4
  <1> HIDE DEF W
  <1>8. aged \in [Fields -> W] /\ Good(aged, queue, unseen, known) /\ aged.company = tab[k].company
    <2>1. Good(tab[k], queue, unseen, known)
      BY DEF TabInv
    <2> QED
      BY <1>6, <2>1, AgedRow
  <1> HIDE DEF aged
  <1>9. r = tab'
    OBVIOUS
  <1> HIDE DEF r
  <1>10. ASSUME NEW i \in DOMAIN tab
         PROVE  r[i] \in [Fields -> W] /\ Good(r[i], queue, unseen, known) /\ r[i].company = tab[i].company
    <2>1. CASE i = k
      BY <1>7, <1>8, <2>1
    <2>2. CASE i # k
      <3>1. r[i] = tab[i] /\ Good(tab[i], queue, unseen, known)
        BY <1>7, <2>2 DEF TabInv
      <3> QED
        BY <1>6, <3>1
    <2> QED
      BY <2>1, <2>2
  <1>11. r \in Seq([Fields -> W])
    <2>1. r = [i \in 1..Len(tab) |-> r[i]] /\ \A i \in 1..Len(tab) : r[i] \in [Fields -> W]
      BY <1>5, <1>7, <1>10
    <2> QED
      BY <1>5, <2>1, MakeList
  <1>12. Once(r, Twofold(queue, unseen))
    BY <1>7, <1>10 DEF TabInv, Once
  <1>13. Persons(r) = Persons(tab)
    BY <1>7, <1>10 DEF Persons
  <1>14. \A i \in DOMAIN r : Good(r[i], queue, unseen, known)
    BY <1>7, <1>10
  <1>15. TabInv'
    BY <1>2, <1>3, <1>9, <1>11, <1>12, <1>14 DEF TabInv
  <1>16. TakenInv'
    BY <1>2, <1>3, <1>9, <1>13, TakenStays
  <1> QED
    BY <1>15, <1>16

\* A step that writes neither the tab nor what the enrichment holds.
LEMMA FitsStay ==
  ASSUME TabInv, TakenInv, UNCHANGED <<tab, enrich>>, queue # <<>> => queue' # <<>>,
         unseen \subseteq unseen', known \subseteq known'
  PROVE  TabInv' /\ TakenInv'
  BY TabStays, TakenStays

LEMMA FilledDomain ==
  ASSUME NEW S, NEW s \in Seq(S), s # <<>>
  PROVE  DOMAIN s # {}
  <1>1. DOMAIN s = 1..Len(s) /\ Len(s) \in Nat
    BY ListFacts
  <1>2. Len(s) # 0
    OBVIOUS
  <1>3. 1 \in DOMAIN s
    BY <1>1, <1>2
  <1> QED
    BY <1>3

LEMMA QueueStays ==
  ASSUME DetailInv, QueueCards
  PROVE  queue # <<>> => queue' # <<>>
  <1>1. PICK tasks \in Seq(TaskRows) : queue' = WithTasks(queue, tasks)
    BY Queued2
  <1>2. queue \in Seq(TaskRows) /\ IdsApart(queue)
    BY DEF DetailInv, QueueInv
  <1>3. DOMAIN queue \subseteq DOMAIN queue'
    BY <1>1, <1>2, WithTasksOf
  <1>4. queue # <<>> => DOMAIN queue # {}
    BY <1>2, FilledDomain
  <1>5. queue' = <<>> => DOMAIN queue' = {}
    OBVIOUS
  <1> QED
    BY <1>3, <1>4, <1>5

LEMMA CrawlFits ==
  ASSUME Apart, DetailInv, TabInv, TakenInv, CrawlStep
  PROVE  TabInv' /\ TakenInv'
  <1>1. CASE BeginCrawl
    BY <1>1, FitsStay DEF BeginCrawl, past
  <1>2. CASE ReadPlain
    <2>1. unseen \subseteq unseen' /\ UNCHANGED <<queue, known, tab, enrich>>
      BY <1>2 DEF ReadPlain, TakeCards
    <2> QED
      BY <2>1, FitsStay
  <1>3. CASE OpenBrowser
    <2>1. UNCHANGED <<queue, known, tab, enrich, past>>
      BY <1>3 DEF OpenBrowser
    <2> QED
      BY <2>1, FitsStay DEF past
  <1>4. CASE Challenge
    <2>1. UNCHANGED <<queue, known, tab, enrich, past>>
      BY <1>4 DEF Challenge
    <2> QED
      BY <2>1, FitsStay DEF past
  <1>5. CASE ReadPage
    <2>1. UNCHANGED <<queue, known, tab, enrich>>
      BY <1>5 DEF ReadPage
    <2>2. unseen \subseteq unseen'
      BY <1>5 DEF ReadPage, TakeCards, past
    <2> QED
      BY <2>1, <2>2, FitsStay
  <1>6. CASE QueueCards
    <2>1. UNCHANGED <<known, tab, enrich, past>>
      BY <1>6 DEF QueueCards
    <2> QED
      BY <1>6, <2>1, QueueStays, FitsStay DEF past
  <1> QED
    BY <1>1, <1>2, <1>3, <1>4, <1>5, <1>6, PublishCardsFits DEF CrawlStep

LEMMA EnrichFits ==
  ASSUME Apart, DetailInv, DetailInv', TabInv, TakenInv, EnrichStep
  PROVE  TabInv' /\ TakenInv'
  <1>1. CASE SettleTasks
    <2>1. UNCHANGED <<known, tab, taken, byTab, answers, past>> /\ epc = "settle" /\ epc' = "publish"
      BY <1>1 DEF SettleTasks
    <2>2. queue' # <<>>
      BY <2>1 DEF DetailInv, EnrichInv
    <2>3. unseen \subseteq unseen' /\ known \subseteq known'
      BY <2>1 DEF past
    <2>4. TabInv'
      BY <2>1, <2>2, <2>3, TabStays
    <2>5. \A name, home : Whose(name, home, queue, unseen) => Whose(name, home, queue', unseen')
      BY <2>2, <2>3, Grown
    <2>6. /\ \E n \in Nat : DOMAIN taken = 1..n
          /\ \A k \in DOMAIN taken : Whose(taken[k].company, taken[k].home, queue', unseen')
          /\ \A k \in DOMAIN taken : \A c \in Companies :
               SameCompany(Site[c].name, taken[k].company) => answers[k].figure \in Figures(c)
      BY <2>1, <2>5 DEF TakenInv
    <2>7. TakenInv'
      BY <2>1, <2>2, <2>6 DEF TakenInv
    <2> QED
      BY <2>4, <2>7
  <1>2. CASE \E names \in {{}} \union {{row.company} : row \in ToSet(tab)} : TakeFromTab(names)
    BY <1>2, TakeFromTabFits
  <1> QED
    BY <1>1, <1>2, TakeFromQueueFits, LookUpFits, PublishAnswersFits DEF EnrichStep

LEMMA OthersFit ==
  ASSUME DetailInv, TabInv, TakenInv, News \/ AgeRow \/ AgeTask \/ Die
  PROVE  TabInv' /\ TakenInv'
  <1>1. CASE News
    <2>1. UNCHANGED <<queue, known, tab, enrich, past>>
      BY <1>1 DEF News
    <2> QED
      BY <2>1, FitsStay DEF past
  <1>2. CASE AgeTask
    <2>1. UNCHANGED <<known, tab, enrich, past>> /\ \E k \in DOMAIN queue : queue' = [queue EXCEPT ![k].fresh = FALSE]
      BY <1>2 DEF AgeTask
    <2>2. DOMAIN queue' = DOMAIN queue /\ DOMAIN queue # {}
      BY <2>1 DEF DetailInv, QueueInv
    <2>3. queue' # <<>>
      BY <2>2
    <2> QED
      BY <2>1, <2>3, FitsStay DEF past
  <1>3. CASE Die
    <2>1. UNCHANGED <<queue, known, tab, past>>
      BY <1>3 DEF Die
    <2>2. unseen \subseteq unseen'
      BY <2>1 DEF past
    <2>3. CASE UNCHANGED enrich
      BY <2>1, <2>2, <2>3, FitsStay
    <2>4. CASE ForgetEnrich
      BY <2>1, <2>2, <2>4, TabStays, TakenForgotten
    <2> QED
      BY <1>3, <2>3, <2>4 DEF Die
  <1> QED
    BY <1>1, <1>2, <1>3, AgeRowFits

FitInv == Apart => TabInv /\ TakenInv

LEMMA FitsFirst == DetailInit => FitInv
  <1> SUFFICES ASSUME DetailInit, Apart PROVE TabInv /\ TakenInv
    BY DEF FitInv
  <1>1. tab = Kept /\ queue = <<>> /\ known = {} /\ unseen = {} /\ epc = "idle"
    BY DEF DetailInit
  <1>2. Kept \in Seq([Fields -> STRING])
    BY DetailAssumption DEF DetailAssumption
  <1>3. ASSUME NEW k \in DOMAIN Kept PROVE Good(Kept[k], <<>>, {}, {})
    <2> DEFINE w == Kept[k]
    <2>1. /\ w.company # "" /\ (w.region \in P1Areas => w.p1 = "Y")
          /\ \A c \in Companies : SameCompany(w.company, Site[c].name) =>
               /\ w.company \in {Site[c].name, NormName(Site[c].name)} /\ CellsOf(c, w)
               /\ NormName(Site[c].name) = Site[c].name \/ w.home = Site[c].home
      BY KeptIsApart
    <2>2. w.home # "" => Owner(w.home) = Person(w.company)
      BY OwnerOfKept
    <2>3. OfKept(w.company, w.region) /\ \E j \in DOMAIN Kept : w.company = Kept[j].company
      BY DEF OfKept
    <2> HIDE DEF w
    <2>4. \A c \in Companies : SameCompany(Site[c].name, w.company) <=> SameCompany(w.company, Site[c].name)
      BY DEF SameCompany
    <2>5. \A c \in Companies : CellsOf(c, w) => w.home \in {"", Site[c].home}
      BY DEF CellsOf
    <2>6. Named(w, <<>>, {})
      BY <2>1, <2>2, <2>3, <2>4, <2>5 DEF Named, Whose
    <2>7. Marked(w, <<>>, {}, {})
      <3>1. w.collected # ""
        BY KeptIsApart DEF KeptRow, w
      <3> QED
        BY <2>1, <2>3, <3>1 DEF Marked
    <2> QED
      BY <2>6, <2>7 DEF Good, w
  <1>4. Once(Kept, {})
    <2>1. ASSUME NEW j \in DOMAIN Kept, NEW k \in DOMAIN Kept, Person(Kept[j].company) = Person(Kept[k].company)
          PROVE  j = k
      BY <2>1, PersonSame, KeptOnce
    <2> QED
      BY <2>1 DEF Once
  <1>5. Twofold(queue, unseen) = {}
    BY <1>1 DEF Twofold
  <1>6. TabInv
    BY <1>1, <1>2, <1>3, <1>4, <1>5 DEF TabInv
  <1> QED
    BY <1>1, <1>6 DEF TakenInv

LEMMA FitsGo == DetailInv /\ DetailInv' /\ FitInv /\ [DetailNext]_detail => FitInv'
  <1> SUFFICES ASSUME Apart, DetailInv, DetailInv', TabInv, TakenInv, [DetailNext]_detail
               PROVE  TabInv' /\ TakenInv'
    BY DEF FitInv, Apart
  <1>1. CASE UNCHANGED detail
    <2>1. UNCHANGED <<queue, known, tab, enrich, past>>
      BY <1>1 DEF detail
    <2> QED
      BY <2>1, FitsStay DEF past
  <1> QED
    BY <1>1, CrawlFits, EnrichFits, OthersFit DEF DetailNext

\* A row for each company, with its cells and its mark, but for what a crawl
\* did not see and a queue does not tell.
LEMMA FitsMeans == DetailInv /\ FitInv => RowsFitTheirCompanies
  <1> SUFFICES ASSUME DetailInv, Apart, TabInv
               PROVE  OneRowEach /\ CellsAreTheirCompanys /\ MarkFitsRegion
    BY DEF FitInv, RowsFitTheirCompanies, DetailInv, QueueInv
  <1>1. \A row \in ToSet(tab) : Good(row, queue, unseen, known)
    BY DEF TabInv, ToSet
  <1>2. OneRowEach
    <2> SUFFICES ASSUME NEW j \in DOMAIN tab, NEW k \in DOMAIN tab, j # k,
                        SameCompany(tab[j].company, tab[k].company)
                 PROVE  \E c \in Companies : /\ SameCompany(Site[c].name, tab[j].company)
                                             /\ NormName(Site[c].name) # Site[c].name
                                             /\ c \in unseen \/ Site[c].home = ""
      BY DEF OneRowEach
    <2> DEFINE a == tab[j].company
               b == tab[k].company
    <2>1. NormName(a) = NormName(b)
      BY DEF SameCompany
    <2>2. Whose(a, tab[j].home, queue, unseen) /\ Whose(b, tab[k].home, queue, unseen)
      BY DEF TabInv, Good, Named
    <2>3. Person(a) = Person(b) => Person(a) \in Twofold(queue, unseen)
      BY DEF TabInv, Once
    <2> HIDE DEF a, b
    <2>4. CASE Person(a) = Person(b)
      <3>1. PICK c \in Companies : /\ c \in unseen /\ SameCompany(Site[c].name, a)
                                   /\ NormName(Site[c].name) # Site[c].name
        BY <2>3, <2>4, TwofoldExcuse
      <3> QED
        BY <3>1 DEF a
    <2>5. CASE Person(a) # Person(b)
      <3>1. Homeless(a) /\ Homeless(b) /\ a # b
        BY <2>1, <2>5, HomelessSame, PersonName
      <3>2. PICK c \in Companies : SameCompany(Site[c].name, a) /\ Site[c].home = ""
        BY <3>1 DEF Homeless
      <3>3. SameCompany(Site[c].name, b)
        BY <2>1, <3>2 DEF SameCompany
      <3>4. a \in {Site[c].name, NormName(Site[c].name)} /\ b \in {Site[c].name, NormName(Site[c].name)}
        BY <2>2, <3>2, <3>3 DEF Whose
      <3>5. NormName(Site[c].name) # Site[c].name
        BY <3>1, <3>4
      <3> QED
        BY <3>2, <3>5 DEF a
    <2> QED
      BY <2>4, <2>5
  <1>3. CellsAreTheirCompanys
    BY <1>1 DEF CellsAreTheirCompanys, Good, Named
  <1>4. MarkFitsRegion
    BY <1>1 DEF MarkFitsRegion, Good, Marked, Excuse
  <1> QED
    BY <1>2, <1>3, <1>4

\* For any companies, pages, queues, faults and interleavings: a name is queued
\* once and, as long as companies can be told apart, the tab has one row for
\* each, with cells that are its own and a mark that fits its region.
THEOREM RowsFit == DetailSpec => []RowsFitTheirCompanies
  <1>1. DetailInit /\ [][DetailNext]_detail /\ []DetailInv => []FitInv
    BY FitsFirst, FitsGo, PTL
  <1> QED
    BY <1>1, DetailInvHolds, FitsMeans, PTL DEF DetailSpec
-----------------------------------------------------------------------------
(* Rounds, and what an upsert does with them.                              *)

LEMMA PlacesAreNumbers == ASSUME NEW n \in Nat PROVE \A k \in 1..n : k \in Nat
  OBVIOUS

LEMMA ListOfItems == ASSUME NEW S, NEW s \in Seq(S) PROVE s = [k \in 1..Len(s) |-> s[k]]
  OBVIOUS

LEMMA RoundIsNumber ==
  ASSUME NEW r \in {""} \union ToSet(Rounds)
  PROVE  RoundNo(r) \in Nat
  <1>1. CASE r = ""
    BY <1>1 DEF RoundNo
  <1>2. CASE r # ""
    <2>1. Rounds \in Seq(STRING)
      BY NewestFirst DEF NewestFirst
    <2>2. \A k \in DOMAIN Rounds : k \in Nat
      <3>1. DOMAIN Rounds = 1..Len(Rounds) /\ Len(Rounds) \in Nat
        BY <2>1, ListFacts
      <3> QED
        BY <3>1, PlacesAreNumbers
    <2>3. \E k \in DOMAIN Rounds : Rounds[k] = r
      BY <1>2 DEF ToSet
    <2>4. (CHOOSE k \in DOMAIN Rounds : Rounds[k] = r) \in DOMAIN Rounds
      BY <2>3
    <2> QED
      BY <1>2, <2>2, <2>4 DEF RoundNo
  <1> QED
    BY <1>1, <1>2

\* Rows that fit still do if those of one name must have one of some rounds.
WithRounds(S, name, R) == {w \in S : NormName(w.company) = name => w.round \in R}

LEMMA FittingRounds ==
  ASSUME NEW V, NEW G, NEW X, NEW except, NEW old, Fitting(V, G, X, except, old), NEW name, NEW R, "" \in R
  PROVE  Fitting(V, WithRounds(G, name, R), WithRounds(X, name, R), except, old)
  <1> DEFINE H == WithRounds(G, name, R)
             Y == WithRounds(X, name, R)
             Has(w) == NormName(w.company) = name => w.round \in R
  <1>1. H \subseteq G /\ Y \subseteq X
    BY DEF WithRounds
  <1>2. \A w \in H \union Y : Has(w) /\ w \in [Fields -> V]
    BY DEF WithRounds, Fitting
  <1>3. /\ \A w \in G : Has(w) => w \in H
        /\ \A w \in X : Has(w) => w \in Y
    BY DEF WithRounds
  <1>4. ASSUME NEW w \in H \union Y, NEW v \in H \union Y, NormName(w.company) = NormName(v.company),
               NEW r \in {Sheet!MergeExisting(w, v), Sheet!MergeDuplicate(w, v), Sheet!MergeGenerated(w, v)}
        PROVE  Has(r)
    <2>1. r.round \in {w.round, v.round} /\ r.company \in {w.company, v.company}
      BY <1>2, MergedRound
    <2>2. Has(w) /\ Has(v)
      BY <1>2
    <2> HIDE DEF H, Y
    <2> QED
      BY <1>4, <2>1, <2>2
  <1>5. \A w, v : Person(w.company) = Person(v.company) => NormName(w.company) = NormName(v.company)
    BY PersonSame
  <1> HIDE DEF H, Y, Has
  <1>6. H \subseteq [Fields -> V] /\ Y \subseteq [Fields -> V]
    BY <1>2
  <1>7. \A w \in H \union Y : w.company # "" /\ (w.home # "" => Owner(w.home) = Person(w.company))
    BY <1>1 DEF Fitting
  <1>8. \A w, v \in H \union Y :
          Person(w.company) = Person(v.company) /\ Person(w.company) \notin except =>
            KeySet(w) \intersect KeySet(v) # {}
    BY <1>1 DEF Fitting
  <1>9. \A x \in Y : x \in H \/ (Person(x.company) \notin except /\ Person(x.company) \in old)
    BY <1>1, <1>2, <1>3 DEF Fitting
  <1>10. \A w, v \in H :
           Person(w.company) = Person(v.company) /\ Person(w.company) \in except =>
             Sheet!MergeDuplicate(w, v) \in H
    BY <1>1, <1>3, <1>4, <1>5 DEF Fitting
  <1>11. \A w \in H, x \in Y :
           Person(w.company) = Person(x.company) => Sheet!MergeExisting(w, x) \in H
    BY <1>1, <1>3, <1>4, <1>5 DEF Fitting
  <1>12. \A x, y \in Y : x.company = y.company => Sheet!MergeGenerated(x, y) \in Y
    BY <1>1, <1>3, <1>4 DEF Fitting
  <1>13. Fitting(V, H, Y, except, old)
    BY <1>6, <1>7, <1>8, <1>9, <1>10, <1>11, <1>12 DEF Fitting
  <1> QED
    BY <1>13 DEF H, Y

\* No row of a name has a round but those it had and those written to it, and whoever
\* had a round still has one.
LEMMA WrittenRounds ==
  ASSUME Apart, TabInv, NEW m \in Nat, NEW list, list = [k \in 1..m |-> list[k]],
         \A k \in 1..m : /\ Celled(list[k])
                         /\ Incoming(list[k], queue, unseen, known, Persons(Base)),
         tab' = Sheet!Upsert(Base, list), NEW name, NEW R, "" \in R,
         \A k \in DOMAIN Base : NormName(Base[k].company) = name => Base[k].round \in R,
         \A k \in 1..m : NormName(list[k].company) = name => list[k].round \in R
  PROVE  \A k \in DOMAIN tab' : NormName(tab'[k].company) = name => tab'[k].round \in R
  <1>1. PICK W : /\ Fitting(W, TabRows(W), NewRows(W), Twofold(queue, unseen), Persons(Base))
                 /\ Base \in Seq(TabRows(W)) /\ list \in Seq(NewRows(W))
    BY WrittenRows
  <1> DEFINE G == TabRows(W)
             X == NewRows(W)
             T == Twofold(queue, unseen)
             H == WithRounds(G, name, R)
             Y == WithRounds(X, name, R)
             r == Sheet!Upsert(Base, list)
  <1>2. Fitting(W, G, X, T, Persons(Base)) /\ Base \in Seq(G) /\ list \in Seq(X)
    BY <1>1
  <1> HIDE DEF G, X, T, r
  <1>3. Fitting(W, H, Y, T, Persons(Base))
    BY <1>2, FittingRounds
  <1> HIDE DEF H, Y
  <1>4. Base \in Seq(H)
    <2>1. /\ \A k \in 1..Len(Base) : Base[k] \in G
          /\ Len(Base) \in Nat /\ DOMAIN Base = 1..Len(Base) /\ Base = [k \in 1..Len(Base) |-> Base[k]]
      BY <1>2, ListFacts, ListOfItems
    <2>2. \A k \in 1..Len(Base) : Base[k] \in H
      BY <2>1 DEF H, WithRounds
    <2> QED
      BY <2>1, <2>2, MakeList
  <1>5. list \in Seq(Y)
    <2>1. /\ \A k \in 1..Len(list) : list[k] \in X
          /\ Len(list) \in Nat /\ DOMAIN list = 1..Len(list)
      BY <1>2, ListFacts
    <2>2. \A k \in 1..m : list[k] \in Y
      <3>1. DOMAIN list = 1..m
        OBVIOUS
      <3> QED
        BY <2>1, <3>1 DEF Y, WithRounds
    <2> QED
      BY <2>2, MakeList
  <1>6. Once(Base, T)
    BY BaseFits DEF T
  <1>7. r \in Seq(H)
    BY <1>3, <1>4, <1>5, <1>6, UpsertFits DEF r
  <1> HIDE DEF r
  <1>8. \A k \in DOMAIN r : r[k] \in H
    BY <1>7, ListFacts
  <1>9. \A k \in DOMAIN r : NormName(r[k].company) = name => r[k].round \in R
    BY <1>8 DEF H, WithRounds
  <1> QED
    BY <1>9 DEF r
-----------------------------------------------------------------------------
(* The rounds on THE VC, on the tab and of the cards that a crawl holds.   *)

\* No row of the card's company tells a newer round.
Newest(t, card) ==
  \A k \in DOMAIN t : SameCompany(Site[card.co].name, t[k].company) =>
    RoundNo(t[k].round) <= RoundNo(card.round)

AnyRound == {""} \union ToSet(Rounds)
TellRounds(t) ==
  \A k \in DOMAIN t, c \in Companies : SameCompany(Site[c].name, t[k].company) => t[k].round \in AnyRound

\* A list l of cards, those to come, and a tab t.
RoundsFit(l, next, t) ==
  /\ TellRounds(t)
  /\ \A i, j \in DOMAIN l : i < j => NotOlder(l[i], l[j])
  /\ \A i, j \in DOMAIN next : i < j => NotOlder(next[j], next[i])
  /\ \A i \in DOMAIN next, j \in DOMAIN l : NotOlder(next[i], l[j])
  /\ \A i \in DOMAIN next : Newest(t, next[i])
  /\ \A i \in DOMAIN l : FirstFrom(l, i, 1) => Newest(t, l[i])

\* The cards of pages, of which the next begins with the m-th card of the list, the
\* companies passed over, and the cards taken.
TwiceIn(s, co) == \E j, k \in DOMAIN s : j # k /\ s[j].co = co /\ s[k].co = co /\ s[j].browser = "no"
OnList(l, s) == \A k \in DOMAIN s : \E i \in DOMAIN l : l[i].co = s[k].co /\ l[i].round = s[k].round
HeldFit(l, t, all, m, gone, held) ==
  /\ \A i \in DOMAIN l :
       l[i].co \notin gone /\ (\A j \in DOMAIN all : all[j].co # l[i].co) /\ FirstFrom(l, i, m) =>
         Newest(t, l[i])
  /\ \A j \in DOMAIN all : all[j].co \notin gone /\ FirstFrom(all, j, 1) => Newest(t, all[j])
  /\ OnList(l, all) /\ OnList(l, held)
  /\ \A k \in DOMAIN held :
       held[k].co \notin gone /\ ~TwiceIn(held, held[k].co) => Newest(t, held[k])

\* The tab t2, written over t, tells of a company only rounds that t told or a card tells.
Written(t, held, t2) ==
  /\ TellRounds(t2)
  /\ \A k \in DOMAIN t2, c \in Companies : SameCompany(Site[c].name, t2[k].company) =>
       \/ RoundNo(t2[k].round) = 0
       \/ \E j \in DOMAIN t : SameCompany(Site[c].name, t[j].company) /\ t[j].round = t2[k].round
       \/ \E j \in DOMAIN held : held[j].co = c /\ held[j].round = t2[k].round

LEMMA RoundNumbers == \A r \in AnyRound : RoundNo(r) \in Nat
  BY RoundIsNumber DEF AnyRound

LEMMA ListingFacts ==
  ASSUME NEW x \in Listing
  PROVE  x.co \in Companies /\ x.round \in AnyRound /\ RoundNo(x.round) \in Nat
  BY RoundNumbers DEF Listing, AnyRound

LEMMA NewestOver ==
  ASSUME NEW t, NEW held, NEW t2, Written(t, held, t2), TellRounds(t),
         NEW card, card.co \in Companies, RoundNo(card.round) \in Nat, Newest(t, card),
         \A j \in DOMAIN held : held[j].co = card.co => RoundNo(held[j].round) <= RoundNo(card.round)
  PROVE  Newest(t2, card)
  <1> SUFFICES ASSUME NEW k \in DOMAIN t2, SameCompany(Site[card.co].name, t2[k].company)
               PROVE  RoundNo(t2[k].round) <= RoundNo(card.round)
    BY DEF Newest
  <1> DEFINE c == card.co
             r == t2[k].round
  <1>1. \/ RoundNo(r) = 0
        \/ \E j \in DOMAIN t : SameCompany(Site[c].name, t[j].company) /\ t[j].round = r
        \/ \E j \in DOMAIN held : held[j].co = c /\ held[j].round = r
    BY DEF Written
  <1>2. CASE RoundNo(r) = 0
    BY <1>2
  <1>3. CASE \E j \in DOMAIN t : SameCompany(Site[c].name, t[j].company) /\ t[j].round = r
    BY <1>3 DEF Newest
  <1>4. CASE \E j \in DOMAIN held : held[j].co = c /\ held[j].round = r
    BY <1>4
  <1> QED
    BY <1>1, <1>2, <1>3, <1>4

\* What is written keeps the list, and with it the cards to come, ahead of the tab.
LEMMA RoundsOver ==
  ASSUME NEW l \in Seq(Listing), NEW next \in Seq(Listing), NEW t, NEW held, NEW t2,
         RoundsFit(l, next, t), OnList(l, held), Written(t, held, t2)
  PROVE  RoundsFit(l, next, t2)
  <1>1. /\ DOMAIN l = 1..Len(l) /\ Len(l) \in Nat /\ \A i \in DOMAIN l : l[i] \in Listing
        /\ \A i \in DOMAIN next : next[i] \in Listing
    BY ListFacts
  <1>2. TellRounds(t) /\ TellRounds(t2)
    BY DEF RoundsFit, Written
  <1>3. ASSUME NEW i \in DOMAIN next PROVE Newest(t2, next[i])
    <2>1. next[i].co \in Companies /\ RoundNo(next[i].round) \in Nat /\ Newest(t, next[i])
      BY <1>1, ListingFacts DEF RoundsFit
    <2>2. \A j \in DOMAIN held : held[j].co = next[i].co => RoundNo(held[j].round) <= RoundNo(next[i].round)
      BY DEF OnList, RoundsFit, NotOlder
    <2> QED
      BY <1>2, <2>1, <2>2, NewestOver
  <1>4. ASSUME NEW i \in DOMAIN l, FirstFrom(l, i, 1) PROVE Newest(t2, l[i])
    <2>1. l[i].co \in Companies /\ RoundNo(l[i].round) \in Nat /\ Newest(t, l[i])
      BY <1>1, <1>4, ListingFacts DEF RoundsFit
    <2>2. ASSUME NEW j \in DOMAIN held, held[j].co = l[i].co
          PROVE  RoundNo(held[j].round) <= RoundNo(l[i].round)
      <3>1. PICK h \in DOMAIN l : l[h].co = l[i].co /\ l[h].round = held[j].round
        BY <2>2 DEF OnList
      <3>2. h = i \/ h > i
        <4>1. ~(h \in 1..(i - 1))
          BY <1>4, <3>1 DEF FirstFrom
        <4> QED
          BY <1>1, <4>1
      <3>3. h > i => RoundNo(l[h].round) <= RoundNo(l[i].round)
        BY <3>1 DEF RoundsFit, NotOlder
      <3> QED
        BY <2>1, <3>1, <3>2, <3>3
    <2> QED
      BY <1>2, <2>1, <2>2, NewestOver
  <1> QED
    BY <1>2, <1>3, <1>4 DEF RoundsFit

LEMMA HeldOver ==
  ASSUME NEW l \in Seq(Listing), NEW all \in Seq(Listing), NEW held \in Seq(CardRows), NEW t, NEW t2,
         NEW m, NEW gone, HeldFit(l, t, all, m, gone, held), TellRounds(t), Written(t, <<>>, t2)
  PROVE  HeldFit(l, t2, all, m, gone, held)
  <1>1. /\ \A i \in DOMAIN l : l[i] \in Listing
        /\ \A i \in DOMAIN all : all[i] \in Listing
        /\ \A i \in DOMAIN held : held[i].co \in Companies /\ RoundNo(held[i].round) \in Nat
    <2>1. \A i \in DOMAIN held : held[i] \in CardRows
      BY ListFacts
    <2>2. \A x \in CardRows : x.co \in Companies /\ x.round \in AnyRound
      BY CardFields DEF AnyRound
    <2> QED
      BY <2>1, <2>2, ListFacts, RoundNumbers
  <1>2. ASSUME NEW card, card.co \in Companies, RoundNo(card.round) \in Nat, Newest(t, card)
        PROVE  Newest(t2, card)
    <2>1. DOMAIN <<>> = {}
      OBVIOUS
    <2> QED
      BY <1>2, <2>1, NewestOver
  <1>3. /\ \A i \in DOMAIN l : Newest(t, l[i]) => Newest(t2, l[i])
        /\ \A i \in DOMAIN all : Newest(t, all[i]) => Newest(t2, all[i])
        /\ \A i \in DOMAIN held : Newest(t, held[i]) => Newest(t2, held[i])
    BY <1>1, <1>2, ListingFacts
  <1> QED
    BY <1>3 DEF HeldFit

\* THE VC lists another card.
LEMMA Concat ==
  ASSUME NEW S, NEW s \in Seq(S), NEW r \in Seq(S)
  PROVE  /\ s \o r \in Seq(S) /\ DOMAIN (s \o r) = 1..(Len(s) + Len(r))
         /\ \A i \in 1..Len(s) : (s \o r)[i] = s[i]
         /\ \A i \in 1..Len(r) : (s \o r)[Len(s) + i] = r[i]
  OBVIOUS

LEMMA InFront ==
  ASSUME NEW S, NEW s \in Seq(S), NEW x \in S
  PROVE  LET r == <<x>> \o s
         IN  /\ r \in Seq(S) /\ DOMAIN r = 1..(Len(s) + 1) /\ r[1] = x
             /\ \A i \in 1..Len(s) : r[i + 1] = s[i]
  OBVIOUS

LEMMA TailItems ==
  ASSUME NEW S, NEW s \in Seq(S), s # <<>>
  PROVE  /\ Head(s) = s[1] /\ 1 \in DOMAIN s /\ Tail(s) \in Seq(S)
         /\ \A i \in DOMAIN Tail(s) : i + 1 \in DOMAIN s /\ Tail(s)[i] = s[i + 1]
  OBVIOUS

LEMMA NewsFits ==
  ASSUME NEW l \in Seq(Listing), NEW next \in Seq(Listing), next # <<>>, NEW t, RoundsFit(l, next, t)
  PROVE  RoundsFit(<<Head(next)>> \o l, Tail(next), t)
  <1> DEFINE x == Head(next)
             l2 == <<x>> \o l
             rest == Tail(next)
             N == Len(l)
  <1>1. /\ x = next[1] /\ 1 \in DOMAIN next
        /\ \A i \in DOMAIN rest : i + 1 \in DOMAIN next /\ rest[i] = next[i + 1]
    BY TailItems
  <1>2. x \in Listing
    BY <1>1, ListFacts
  <1>3. DOMAIN l2 = 1..(N + 1) /\ l2[1] = x /\ \A i \in 1..N : l2[i + 1] = l[i]
    BY <1>2, InFront
  <1>4. DOMAIN l = 1..N /\ N \in Nat
    BY ListFacts
  <1>5. \A i \in DOMAIN rest : i \in Nat /\ i > 0
    <2>1. rest \in Seq(Listing)
      BY TailItems
    <2> HIDE DEF rest
    <2>2. DOMAIN rest = 1..Len(rest) /\ Len(rest) \in Nat
      BY <2>1, ListFacts
    <2> QED
      BY <2>2
  <1> HIDE DEF x, l2, rest, N
  <1>6. \A i \in DOMAIN l2 : i = 1 \/ (i # 1 /\ i - 1 \in DOMAIN l /\ l2[i] = l[i - 1])
    <2> TAKE i \in DOMAIN l2
    <2>1. i # 1 => i - 1 \in 1..N /\ (i - 1) + 1 = i
      BY <1>3, <1>4
    <2> QED
      BY <1>3, <1>4, <2>1
  <1>7. ASSUME NEW i \in DOMAIN l2, NEW j \in DOMAIN l2, i < j PROVE NotOlder(l2[i], l2[j])
    <2>1. j # 1 /\ j - 1 \in DOMAIN l /\ l2[j] = l[j - 1]
      BY <1>3, <1>4, <1>6, <1>7
    <2>2. CASE i = 1
      BY <1>1, <1>3, <2>1, <2>2 DEF RoundsFit
    <2>3. CASE i # 1
      <3>1. i - 1 \in DOMAIN l /\ l2[i] = l[i - 1] /\ i - 1 < j - 1
        BY <1>3, <1>4, <1>6, <1>7, <2>3
      <3> QED
        BY <2>1, <3>1 DEF RoundsFit
    <2> QED
      BY <2>2, <2>3
  <1>8. ASSUME NEW i \in DOMAIN rest, NEW j \in DOMAIN rest, i < j PROVE NotOlder(rest[j], rest[i])
    <2>1. i + 1 < j + 1
      BY <1>5, <1>8
    <2> QED
      BY <1>1, <2>1 DEF RoundsFit
  <1>9. ASSUME NEW i \in DOMAIN rest, NEW j \in DOMAIN l2 PROVE NotOlder(rest[i], l2[j])
    <2>1. i + 1 \in DOMAIN next /\ rest[i] = next[i + 1] /\ 1 < i + 1
      BY <1>1, <1>5
    <2>2. CASE j = 1
      BY <1>1, <1>3, <2>1, <2>2 DEF RoundsFit
    <2>3. CASE j # 1
      BY <1>6, <2>1, <2>3 DEF RoundsFit
    <2> QED
      BY <2>2, <2>3
  <1>10. \A i \in DOMAIN rest : Newest(t, rest[i])
    BY <1>1 DEF RoundsFit
  <1>11. ASSUME NEW i \in DOMAIN l2, FirstFrom(l2, i, 1) PROVE Newest(t, l2[i])
    <2>1. CASE i = 1
      BY <1>1, <1>3, <2>1 DEF RoundsFit
    <2>2. CASE i # 1
      <3>1. i - 1 \in DOMAIN l /\ l2[i] = l[i - 1]
        BY <1>6, <2>2
      <3>2. FirstFrom(l, i - 1, 1)
        <4>1. SUFFICES ASSUME NEW j \in 1..((i - 1) - 1) PROVE l[j].co # l[i - 1].co
          BY DEF FirstFrom
        <4>2. j + 1 \in 1..(i - 1) /\ j \in 1..N
          BY <1>3, <1>4, <3>1, <4>1
        <4>3. l2[j + 1].co # l2[i].co /\ l2[j + 1] = l[j]
          BY <1>3, <1>11, <4>2 DEF FirstFrom
        <4> QED
          BY <3>1, <4>3
      <3> QED
        BY <3>1, <3>2 DEF RoundsFit
    <2> QED
      BY <2>1, <2>2
  <1>12. TellRounds(t)
    BY DEF RoundsFit
  <1>13. RoundsFit(l2, rest, t)
    BY <1>7, <1>8, <1>9, <1>10, <1>11, <1>12 DEF RoundsFit
  <1> QED
    BY <1>13 DEF l2, x, rest

LEMMA NewsHeld ==
  ASSUME NEW l \in Seq(Listing), NEW x \in Listing, NEW t, Newest(t, x), NEW all, NEW m \in Nat, m > 0,
         NEW gone, NEW held, HeldFit(l, t, all, m, gone, held)
  PROVE  HeldFit(<<x>> \o l, t, all, m, gone, held)
  <1> DEFINE l2 == <<x>> \o l
             N == Len(l)
  <1>1. DOMAIN l2 = 1..(N + 1) /\ l2[1] = x /\ \A i \in 1..N : l2[i + 1] = l[i]
    BY InFront
  <1>2. DOMAIN l = 1..N /\ N \in Nat
    BY ListFacts
  <1> HIDE DEF l2, N
  <1>3. \A i \in DOMAIN l2 : i = 1 \/ (i # 1 /\ i - 1 \in DOMAIN l /\ l2[i] = l[i - 1])
    <2> TAKE i \in DOMAIN l2
    <2>1. i # 1 => i - 1 \in 1..N /\ (i - 1) + 1 = i
      BY <1>1, <1>2
    <2> QED
      BY <1>1, <1>2, <2>1
  <1>4. ASSUME NEW i \in DOMAIN l2, l2[i].co \notin gone, \A j \in DOMAIN all : all[j].co # l2[i].co,
               FirstFrom(l2, i, m)
        PROVE  Newest(t, l2[i])
    <2>1. CASE i = 1
      BY <1>1, <2>1
    <2>2. CASE i # 1
      <3>1. i - 1 \in DOMAIN l /\ l2[i] = l[i - 1]
        BY <1>3, <2>2
      <3>2. FirstFrom(l, i - 1, m)
        <4>1. SUFFICES ASSUME NEW j \in m..((i - 1) - 1) PROVE l[j].co # l[i - 1].co
          BY DEF FirstFrom
        <4>2. j + 1 \in m..(i - 1) /\ j \in 1..N
          BY <1>1, <1>2, <3>1, <4>1
        <4>3. l2[j + 1].co # l2[i].co /\ l2[j + 1] = l[j]
          BY <1>1, <1>4, <4>2 DEF FirstFrom
        <4> QED
          BY <3>1, <4>3
      <3> QED
        BY <1>4, <3>1, <3>2 DEF HeldFit
    <2> QED
      BY <2>1, <2>2
  <1>5. ASSUME NEW s, OnList(l, s) PROVE OnList(l2, s)
    <2>1. \A i \in DOMAIN l : i + 1 \in DOMAIN l2 /\ l2[i + 1] = l[i]
      BY <1>1, <1>2
    <2> SUFFICES ASSUME NEW k \in DOMAIN s
                 PROVE  \E i \in DOMAIN l2 : l2[i].co = s[k].co /\ l2[i].round = s[k].round
      BY DEF OnList
    <2>2. PICK i \in DOMAIN l : l[i].co = s[k].co /\ l[i].round = s[k].round
      BY <1>5 DEF OnList
    <2> QED
      BY <2>1, <2>2
  <1>6. HeldFit(l2, t, all, m, gone, held)
    BY <1>4, <1>5 DEF HeldFit
  <1> QED
    BY <1>6 DEF l2

LEMMA PlaceBefore ==
  ASSUME NEW L \in Nat, NEW p \in Nat, NEW j, j = L + p, NEW d \in 1..(p - 1)
  PROVE  L + d \in 1..(j - 1)
  OBVIOUS

\* A browser reads another page: the cards from place b + 1 to place e of the list.
LEMMA ReadFits ==
  ASSUME NEW l \in Seq(Listing), NEW all \in Seq(Listing), NEW page \in Seq(Listing), NEW t,
         NEW a \in Nat, NEW b \in Nat, NEW e \in Nat, a <= e, NEW gone, NEW more, NEW held,
         HeldFit(l, t, all, a + 1, gone, held),
         \A j \in DOMAIN page : b + j \in DOMAIN l /\ page[j] = l[b + j],
         \A i \in DOMAIN l : b < i /\ i <= e => i - b \in DOMAIN page,
         \A i \in DOMAIN l : a < i /\ i <= b => l[i].co \in more
  PROVE  HeldFit(l, t, all \o page, e + 1, gone \union more, held)
  <1> DEFINE L == Len(all)
             N == Len(page)
             s == all \o page
             gone2 == gone \union more
  <1>1. /\ DOMAIN s = 1..(L + N)
        /\ \A i \in 1..L : s[i] = all[i]
        /\ \A i \in 1..N : s[L + i] = page[i]
    BY Concat
  <1>2. DOMAIN all = 1..L /\ L \in Nat /\ DOMAIN page = 1..N /\ N \in Nat
        /\ DOMAIN l = 1..Len(l) /\ Len(l) \in Nat
    BY ListFacts
  <1>3. \A x : x \notin gone2 => x \notin gone /\ x \notin more
    OBVIOUS
  <1> HIDE DEF s, L, N, gone2
  <1>4. /\ \A j \in DOMAIN all : j \in DOMAIN s /\ s[j] = all[j]
        /\ \A j \in DOMAIN page : L + j \in DOMAIN s /\ s[L + j] = page[j]
    BY <1>1, <1>2
  <1>5. \A j \in DOMAIN s : j \in DOMAIN all \/ (j - L \in DOMAIN page /\ s[j] = page[j - L])
    <2> TAKE j \in DOMAIN s
    <2>1. j \in 1..L \/ (j - L \in 1..N /\ L + (j - L) = j)
      BY <1>1, <1>2
    <2> QED
      BY <1>1, <1>2, <2>1
  <1>6. \A i \in DOMAIN l : b < i /\ i <= e => i - b \in DOMAIN page /\ page[i - b] = l[i]
    <2> TAKE i \in DOMAIN l
    <2>1. b + (i - b) = i
      BY <1>2
    <2> QED
      BY <2>1
  \* What the list has from the old place on and not from the new one is on the page or passed over.
  <1>7. ASSUME NEW i \in DOMAIN l, l[i].co \notin gone2, FirstFrom(l, i, e + 1),
               \A j \in DOMAIN s : s[j].co # l[i].co
        PROVE  Newest(t, l[i])
    <2>1. \A j \in DOMAIN all : all[j].co # l[i].co
      BY <1>4, <1>7
    <2>2. FirstFrom(l, i, a + 1)
      <3>1. SUFFICES ASSUME NEW j \in (a + 1)..(i - 1) PROVE l[j].co # l[i].co
        BY DEF FirstFrom
      <3>2. j \in DOMAIN l /\ a < j
        BY <1>2, <3>1
      <3>3. CASE j <= b
        BY <1>3, <1>7, <3>2, <3>3
      <3>4. CASE b < j /\ j <= e
        BY <1>4, <1>6, <1>7, <3>2, <3>4
      <3>5. CASE e < j
        <4>1. j \in (e + 1)..(i - 1)
          BY <3>1, <3>5
        <4> QED
          BY <1>7, <4>1 DEF FirstFrom
      <3> QED
        BY <3>1, <3>3, <3>4, <3>5
    <2> QED
      BY <1>3, <1>7, <2>1, <2>2 DEF HeldFit
  <1>8. ASSUME NEW j \in DOMAIN s, s[j].co \notin gone2, FirstFrom(s, j, 1)
        PROVE  Newest(t, s[j])
    <2>1. CASE j \in DOMAIN all
      <3>1. s[j] = all[j] /\ FirstFrom(all, j, 1)
        <4>1. s[j] = all[j]
          BY <1>4, <2>1
        <4>2. SUFFICES ASSUME NEW h \in 1..(j - 1) PROVE all[h].co # all[j].co
          BY <4>1 DEF FirstFrom
        <4>3. h \in DOMAIN all
          BY <1>2, <2>1, <4>2
        <4> QED
          BY <1>4, <1>8, <4>1, <4>3 DEF FirstFrom
      <3> QED
        BY <1>3, <1>8, <2>1, <3>1 DEF HeldFit
    <2>2. CASE j \notin DOMAIN all
      <3> DEFINE p == j - L
                 i == b + p
      <3>1. p \in DOMAIN page /\ s[j] = page[p] /\ i \in DOMAIN l /\ page[p] = l[i] /\ j = L + p
        BY <1>1, <1>2, <1>5, <2>2
      <3>2. \A h \in DOMAIN all : all[h].co # l[i].co
        <4> TAKE h \in DOMAIN all
        <4>1. h \in 1..(j - 1)
          BY <1>2, <3>1
        <4> QED
          BY <1>4, <1>8, <3>1, <4>1 DEF FirstFrom
      <3>3. FirstFrom(l, i, a + 1)
        <4>1. SUFFICES ASSUME NEW h \in (a + 1)..(i - 1) PROVE l[h].co # l[i].co
          BY DEF FirstFrom
        <4> HIDE DEF p, i
        <4>2. h \in DOMAIN l /\ a < h /\ i \in Nat /\ p \in Nat
          BY <1>2, <3>1, <4>1
        <4>6. i = b + p
          BY DEF i
        <4>3. CASE h <= b
          BY <1>3, <1>8, <3>1, <4>2, <4>3
        <4>4. CASE b < h
          <5>1. h - b \in 1..(p - 1) /\ h - b \in DOMAIN page /\ b + (h - b) = h
            BY <1>2, <3>1, <4>1, <4>2, <4>4, <4>6
          <5>2. page[h - b] = l[h]
            BY <5>1
          <5> DEFINE d == h - b
          <5>4. d \in 1..(p - 1) /\ d \in DOMAIN page /\ page[d] = l[h]
            BY <5>1, <5>2
          <5> HIDE DEF d
          <5>5. L + d \in 1..(j - 1)
            BY <1>2, <3>1, <4>2, <5>4, PlaceBefore
          <5>3. L + d \in 1..(j - 1) /\ s[L + d] = l[h]
            BY <1>4, <5>4, <5>5
          <5> QED
            BY <1>8, <3>1, <5>3 DEF FirstFrom
        <4> QED
          BY <4>2, <4>3, <4>4
      <3> HIDE DEF p, i
      <3> QED
        BY <1>3, <1>8, <3>1, <3>2, <3>3 DEF HeldFit
    <2> QED
      BY <2>1, <2>2
  <1>9. OnList(l, s)
    <2> SUFFICES ASSUME NEW k \in DOMAIN s
                 PROVE  \E i \in DOMAIN l : l[i].co = s[k].co /\ l[i].round = s[k].round
      BY DEF OnList
    <2>1. CASE k \in DOMAIN all
      BY <1>4, <2>1 DEF HeldFit, OnList
    <2>2. CASE k \notin DOMAIN all
      BY <1>5, <2>2
    <2> QED
      BY <2>1, <2>2
  <1>10. HeldFit(l, t, s, e + 1, gone2, held)
    <2>1. ASSUME NEW k \in DOMAIN held, held[k].co \notin gone2, ~TwiceIn(held, held[k].co)
          PROVE  Newest(t, held[k])
      BY <1>3, <2>1 DEF HeldFit
    <2> QED
      BY <1>7, <1>8, <1>9, <2>1 DEF HeldFit
  <1> QED
    BY <1>10 DEF s, gone2

\* Cards that are taken, after which a crawl holds no page.
LEMMA TakenFits ==
  ASSUME NEW l \in Seq(Listing), NEW next, NEW t, RoundsFit(l, next, t),
         NEW all, NEW m, NEW gone, NEW held \in Seq(CardRows), HeldFit(l, t, all, m, gone, held),
         NEW found \in Seq(Listing), NEW more \in Seq(CardRows), DOMAIN more = DOMAIN found,
         \A k \in DOMAIN found : more[k].co = found[k].co /\ more[k].round = found[k].round,
         OnList(l, found),
         \A k \in DOMAIN found :
           found[k].co \notin gone /\ ~TwiceIn(more, found[k].co) => Newest(t, found[k])
  PROVE  HeldFit(l, t, <<>>, 1, gone, held \o more)
  <1> DEFINE s == held \o more
             L == Len(held)
             N == Len(more)
  <1>1. /\ DOMAIN s = 1..(L + N)
        /\ \A i \in 1..L : s[i] = held[i]
        /\ \A i \in 1..N : s[L + i] = more[i]
    BY Concat
  <1>2. DOMAIN held = 1..L /\ L \in Nat /\ DOMAIN more = 1..N /\ N \in Nat
    BY ListFacts
  <1> HIDE DEF s, L, N
  <1>3. /\ \A j \in DOMAIN held : j \in DOMAIN s /\ s[j] = held[j]
        /\ \A j \in DOMAIN more : L + j \in DOMAIN s /\ s[L + j] = more[j]
    BY <1>1, <1>2
  <1>4. \A j \in DOMAIN s : j \in DOMAIN held \/ (j - L \in DOMAIN more /\ s[j] = more[j - L])
    <2> TAKE j \in DOMAIN s
    <2>1. j \in 1..L \/ (j - L \in 1..N /\ L + (j - L) = j)
      BY <1>1, <1>2
    <2> QED
      BY <1>1, <1>2, <2>1
  <1>5. \A co : TwiceIn(held, co) => TwiceIn(s, co)
    BY <1>3 DEF TwiceIn
  <1>6. ASSUME NEW co, TwiceIn(more, co) PROVE TwiceIn(s, co)
    <2>1. PICK j, k \in DOMAIN more : j # k /\ more[j].co = co /\ more[k].co = co /\ more[j].browser = "no"
      BY <1>6 DEF TwiceIn
    <2>2. L + j # L + k
      BY <1>2, <2>1
    <2> QED
      BY <1>3, <2>1, <2>2 DEF TwiceIn
  <1>7. ASSUME NEW k \in DOMAIN s, s[k].co \notin gone, ~TwiceIn(s, s[k].co)
        PROVE  Newest(t, s[k])
    <2>1. CASE k \in DOMAIN held
      BY <1>3, <1>5, <1>7, <2>1 DEF HeldFit
    <2>2. CASE k \notin DOMAIN held
      <3> DEFINE j == k - L
      <3>1. j \in DOMAIN found /\ s[k] = more[j]
        BY <1>4, <2>2
      <3> HIDE DEF j
      <3>2. more[j].co = found[j].co /\ more[j].round = found[j].round
        BY <3>1
      <3>3. Newest(t, found[j])
        BY <1>6, <1>7, <3>1, <3>2
      <3> QED
        BY <3>1, <3>2, <3>3 DEF Newest
    <2> QED
      BY <2>1, <2>2
  <1>8. OnList(l, s)
    <2> SUFFICES ASSUME NEW k \in DOMAIN s
                 PROVE  \E i \in DOMAIN l : l[i].co = s[k].co /\ l[i].round = s[k].round
      BY DEF OnList
    <2>1. CASE k \in DOMAIN held
      BY <1>3, <2>1 DEF HeldFit, OnList
    <2>2. CASE k \notin DOMAIN held
      BY <1>4, <2>2 DEF OnList
    <2> QED
      BY <2>1, <2>2
  <1>9. DOMAIN <<>> = {}
    OBVIOUS
  <1>10. OnList(l, <<>>)
    BY <1>9 DEF OnList
  <1>11. HeldFit(l, t, <<>>, 1, gone, s)
    BY <1>7, <1>8, <1>9, <1>10 DEF HeldFit, RoundsFit
  <1> QED
    BY <1>11 DEF s

\* A crawl that holds nothing.
LEMMA NothingHeld ==
  ASSUME NEW l, NEW next, NEW t, RoundsFit(l, next, t), NEW gone
  PROVE  HeldFit(l, t, <<>>, 1, gone, <<>>)
  <1>1. DOMAIN <<>> = {}
    OBVIOUS
  <1>2. OnList(l, <<>>)
    BY <1>1 DEF OnList
  <1> QED
    BY <1>1, <1>2 DEF HeldFit, RoundsFit

\* The cards of one more page.
LEMMA CardsOfOneMore ==
  ASSUME NEW S, NEW read \in Seq(Seq(S)), NEW page \in Seq(S), NEW size \in Nat
  PROVE  CardsOf(Append(read, page), size) = CardsOf(read, size) \o Take(page, size)
  <1> DEFINE L == Len(read)
             longer == Append(read, page)
             M == Len(longer)
             g == CHOOSE f : f = [n \in 0..L |-> CardsOfUpTo(read, size, f, n)]
             h == CHOOSE f : f = [n \in 0..M |-> CardsOfUpTo(longer, size, f, n)]
             T == {n \in Nat : n <= L => g[n] = h[n]}
  <1>1. CardsOf(read, size) = g[L] /\ CardsOf(longer, size) = h[M]
    BY DEF CardsOf, CardsOfUpTo
  <1>2. L \in Nat /\ M = L + 1 /\ longer[L + 1] = page /\ \A n \in 1..L : longer[n] = read[n]
    OBVIOUS
  <1> HIDE DEF longer, M
  <1>3. g = [n \in 0..L |-> CardsOfUpTo(read, size, g, n)]
    BY <1>2, CardsOfExists DEF CardsOfBy
  <1>10. M \in Nat
    BY <1>2
  <1>11. h = [n \in 0..M |-> CardsOfUpTo(longer, size, h, n)]
    BY <1>10, CardsOfExists DEF CardsOfBy
  <1> HIDE DEF g, h
  <1>4. /\ \A n \in 0..L : g[n] = CardsOfUpTo(read, size, g, n)
        /\ \A n \in 0..M : h[n] = CardsOfUpTo(longer, size, h, n)
    BY <1>3, <1>11
  <1>5. 0 \in T
    BY <1>2, <1>4 DEF CardsOfUpTo
  <1>6. ASSUME NEW k \in Nat, k \in T PROVE k + 1 \in T
    <2> SUFFICES ASSUME k + 1 <= L PROVE g[k + 1] = h[k + 1]
      OBVIOUS
    <2>1. k + 1 \in 0..L /\ k + 1 \in 0..M /\ k + 1 # 0 /\ k + 1 \in 1..L /\ (k + 1) - 1 = k /\ k <= L
      BY <1>2
    <2>2. g[k] = h[k] /\ longer[k + 1] = read[k + 1]
      BY <1>2, <1>6, <2>1
    <2>3. g[k + 1] = g[k] \o Take(read[k + 1], size) /\ h[k + 1] = h[k] \o Take(longer[k + 1], size)
      BY <1>4, <2>1 DEF CardsOfUpTo
    <2> QED
      BY <2>2, <2>3
  <1>7. Nat \subseteq T
    <2> HIDE DEF T
    <2> QED
      BY <1>5, <1>6, Induction
  <1>8. g[L] = h[L]
    BY <1>2, <1>7
  <1>9. h[M] = h[L] \o Take(page, size)
    <2>1. M \in 0..M /\ M # 0 /\ M - 1 = L /\ longer[M] = page
      BY <1>2
    <2> QED
      BY <1>4, <2>1 DEF CardsOfUpTo
  <1> QED
    BY <1>1, <1>8, <1>9 DEF longer

LEMMA NoCards == ASSUME NEW size PROVE CardsOf(<<>>, size) = <<>>
  <1> DEFINE g == CHOOSE f : f = [n \in 0..0 |-> CardsOfUpTo(<<>>, size, f, n)]
  <1>1. Len(<<>>) = 0
    OBVIOUS
  <1>2. CardsOf(<<>>, size) = g[0]
    BY <1>1 DEF CardsOf, CardsOfUpTo
  <1>3. g = [n \in 0..0 |-> CardsOfUpTo(<<>>, size, g, n)]
    BY CardsOfExists DEF CardsOfBy
  <1> HIDE DEF g
  <1>4. g[0] = CardsOfUpTo(<<>>, size, g, 0)
    BY <1>3
  <1> QED
    BY <1>2, <1>4 DEF CardsOfUpTo

LEMMA PartItems ==
  ASSUME NEW S, NEW s \in Seq(S), NEW b \in Nat, NEW n \in Nat, n <= Len(s), b <= n
  PROVE  LET r == SubSeq(s, b + 1, n)
         IN  /\ r \in Seq(S) /\ Len(r) = n - b /\ DOMAIN r = 1..(n - b)
             /\ \A j \in 1..(n - b) : r[j] = s[b + j]
  OBVIOUS

\* The k-th page, of which a browser takes every card.
LEMMA PageItems ==
  ASSUME listing \in Seq(Listing), NEW k \in Nat, k > 0, k = 1 \/ Len(listing) > (k - 1) * PageSize,
         PageSize <= MaxCards
  PROVE  LET page == Take(Page(k), MaxCards)
             b == (k - 1) * PageSize
         IN  /\ page \in Seq(Listing) /\ b \in Nat /\ k * PageSize = b + PageSize
             /\ \A j \in DOMAIN page : b + j \in DOMAIN listing /\ page[j] = listing[b + j]
             /\ \A i \in DOMAIN listing : b < i /\ i <= k * PageSize => i - b \in DOMAIN page
  <1> DEFINE b == (k - 1) * PageSize
             e == k * PageSize
             N == Len(listing)
             n == Least(e, N)
             page == Take(Page(k), MaxCards)
  <1>1. PageSize \in Nat /\ MaxCards \in Nat /\ N \in Nat /\ DOMAIN listing = 1..N
    BY Sizes
  <1>2. b \in Nat /\ e = b + PageSize /\ (k = 1 => b = 0)
    BY <1>1
  <1>3. Page(k) = SubSeq(listing, b + 1, n)
    BY DEF Page
  <1>4. b = 0 \/ N > b
    BY <1>2
  <1> HIDE DEF b, e, N
  <1>5. n \in Nat /\ n <= N /\ b <= n /\ n - b <= PageSize /\ n <= e /\ (n = N \/ n = e)
    BY <1>1, <1>2, <1>4 DEF Least
  <1> HIDE DEF n
  <1>6. /\ Page(k) \in Seq(Listing) /\ Len(Page(k)) = n - b
        /\ \A j \in 1..(n - b) : Page(k)[j] = listing[b + j]
    BY <1>2, <1>3, <1>5, PartItems DEF N
  <1>7. n - b \in Nat /\ Least(MaxCards, n - b) = n - b
    BY <1>1, <1>5, <1>2 DEF Least
  <1>8. /\ page \in Seq(Listing) /\ Len(page) = n - b
        /\ \A j \in 1..(n - b) : page[j] = Page(k)[j]
    <2> HIDE DEF page
    <2>1. page \in Seq(Listing) /\ Len(page) = Least(MaxCards, n - b)
          /\ \A j \in 1..Len(page) : page[j] = Page(k)[j]
      BY <1>1, <1>6, TakeOf DEF page
    <2> QED
      BY <1>7, <2>1
  <1> HIDE DEF page
  <1>9. DOMAIN page = 1..(n - b)
    BY <1>8
  <1>10. \A j \in 1..(n - b) : b + j \in 1..N
    BY <1>1, <1>2, <1>5
  <1>11. \A i \in 1..N : b < i /\ i <= e => i - b \in 1..(n - b)
    BY <1>1, <1>2, <1>5
  <1>12. /\ page \in Seq(Listing) /\ b \in Nat /\ e = b + PageSize
         /\ \A j \in DOMAIN page : b + j \in DOMAIN listing /\ page[j] = listing[b + j]
         /\ \A i \in DOMAIN listing : b < i /\ i <= e => i - b \in DOMAIN page
    BY <1>1, <1>2, <1>6, <1>8, <1>9, <1>10, <1>11
  <1> QED
    BY <1>12 DEF page, b, e
-----------------------------------------------------------------------------
(* Rounds on the tab.                                                      *)

LEMMA RoundlessRow ==
  ASSUME NEW row, Roundless(row)
  PROVE  RoundNo(row.round) = 0 /\ row.round \in AnyRound
  BY DEF Roundless, RoundNo, AnyRound

\* The rounds that the rows of a company may have once cards are written to the tab t.
ToldRounds(t, held, c) ==
  {r \in AnyRound : \/ RoundNo(r) = 0
                    \/ \E j \in DOMAIN t : SameCompany(Site[c].name, t[j].company) /\ t[j].round = r
                    \/ \E j \in DOMAIN held : held[j].co = c /\ held[j].round = r}

LEMMA BlankIsTold == ASSUME NEW t, NEW held, NEW c PROVE "" \in ToldRounds(t, held, c)
  BY DEF ToldRounds, RoundNo, AnyRound

LEMMA RowsWritten ==
  ASSUME Apart, TabInv, TellRounds(tab), NEW m \in Nat, NEW list, Writable(list, m),
         tab' = Sheet!Upsert(Base, list), NEW held,
         \A k \in 1..m, c \in Companies : SameCompany(Site[c].name, list[k].company) =>
           list[k].round \in ToldRounds(tab, held, c)
  PROVE  Written(tab, held, tab')
  <1>1. ASSUME NEW c \in Companies
        PROVE  \A k \in DOMAIN tab' : SameCompany(Site[c].name, tab'[k].company) =>
                 tab'[k].round \in ToldRounds(tab, held, c)
    <2> DEFINE name == NormName(Site[c].name)
               R == ToldRounds(tab, held, c)
    <2>1. "" \in R
      BY BlankIsTold
    <2>2. \A k \in DOMAIN Base : NormName(Base[k].company) = name => Base[k].round \in R
      <3>1. \A j \in DOMAIN tab : NormName(tab[j].company) = name => tab[j].round \in R
        BY DEF TellRounds, ToldRounds, SameCompany
      <3> HIDE DEF name, R
      <3> QED
        BY <3>1, BaseFits
    <2>3. \A k \in 1..m : NormName(list[k].company) = name => list[k].round \in R
      BY DEF SameCompany
    <2>4. /\ list = [k \in 1..m |-> list[k]]
          /\ \A k \in 1..m : /\ Celled(list[k])
                             /\ Incoming(list[k], queue, unseen, known, Persons(Base))
      BY DEF Writable
    <2> HIDE DEF name, R
    <2>5. \A k \in DOMAIN tab' : NormName(tab'[k].company) = name => tab'[k].round \in R
      BY <2>1, <2>2, <2>3, <2>4, WrittenRounds, ZenonT(60)
    <2> QED
      BY <2>5 DEF name, R, SameCompany
  <1> QED
    BY <1>1 DEF Written, TellRounds, ToldRounds

\* A step writes to the tab what a crawl holds, or nothing, and no row loses its round
\* unless all rows are.
Writes(held) == Written(tab, held, tab') /\ (Legacy \/ Rounded(tab) \subseteq Rounded(tab'))

LEMMA RoundOfCard ==
  ASSUME NEW card
  PROVE  DetailRow(card).company = card.name /\ DetailRow(card).round = card.round
  BY DEF DetailRow

LEMMA CardsWritten ==
  ASSUME Apart, DetailInv, TabInv, TellRounds(tab), PublishCards
  PROVE  Writes(cards)
  <1>1. UNCHANGED <<queue, known, unseen>>
    BY DEF PublishCards, past
  <1>9. PICK m \in Nat : \E list :
          /\ Writable(list, m) /\ tab' = Sheet!Upsert(Base, list)
          /\ DOMAIN cards = 1..m /\ \A k \in 1..m : cards[k] \in CardRows /\ list[k] = DetailRow(cards[k])
    BY CardsToWrite
  <1>2. PICK list :
          /\ Writable(list, m) /\ tab' = Sheet!Upsert(Base, list)
          /\ DOMAIN cards = 1..m /\ \A k \in 1..m : cards[k] \in CardRows /\ list[k] = DetailRow(cards[k])
    BY <1>9
  <1>3. ASSUME NEW k \in 1..m, NEW c \in Companies, SameCompany(Site[c].name, list[k].company)
        PROVE  list[k].round \in ToldRounds(tab, cards, c)
    <2>1. list[k].company = cards[k].name /\ list[k].round = cards[k].round
      BY <1>2, RoundOfCard
    <2>2. cards[k].co \in Companies /\ cards[k].name = Site[cards[k].co].name /\ cards[k].round \in AnyRound
      BY <1>2, CardFields DEF AnyRound
    <2>3. cards[k].co = c
      BY <1>3, <2>1, <2>2 DEF Apart
    <2> QED
      BY <1>2, <2>1, <2>2, <2>3 DEF ToldRounds
  <1>4. Written(tab, cards, tab')
    BY <1>2, <1>3, RowsWritten
  <1>5. Legacy \/ Rounded(tab) \subseteq Rounded(tab')
    <2>1. Rounded(Base) \subseteq Rounded(tab')
      BY <1>1, <1>2, WrittenTab DEF Writable
    <2> QED
      BY <2>1, BaseFits
  <1> QED
    BY <1>4, <1>5 DEF Writes

LEMMA AnswersWritten ==
  ASSUME Apart, DetailInv, TabInv, TakenInv, TellRounds(tab), PublishAnswers
  PROVE  Writes(<<>>)
  <1>1. UNCHANGED <<queue, known, unseen>>
    BY DEF PublishAnswers, past
  <1>9. PICK m \in Nat : \E list :
          /\ Writable(list, m) /\ tab' = Sheet!Upsert(Base, list)
          /\ \A k \in 1..m : Roundless(list[k])
    BY AnswersToWrite
  <1>2. PICK list :
          /\ Writable(list, m) /\ tab' = Sheet!Upsert(Base, list)
          /\ \A k \in 1..m : Roundless(list[k])
    BY <1>9
  <1>3. \A k \in 1..m, c \in Companies : list[k].round \in ToldRounds(tab, <<>>, c)
    BY <1>2, RoundlessRow DEF ToldRounds
  <1>4. Written(tab, <<>>, tab')
    BY <1>2, <1>3, RowsWritten
  <1>5. Legacy \/ Rounded(tab) \subseteq Rounded(tab')
    <2>1. Rounded(Base) \subseteq Rounded(tab')
      BY <1>1, <1>2, WrittenTab DEF Writable
    <2> QED
      BY <2>1, BaseFits
  <1> QED
    BY <1>4, <1>5 DEF Writes

\* Rows that keep their names and rounds.
LEMMA SameRounds ==
  ASSUME TellRounds(tab), DOMAIN tab' = DOMAIN tab,
         \A k \in DOMAIN tab : tab'[k].company = tab[k].company /\ tab'[k].round = tab[k].round
  PROVE  Writes(<<>>)
  <1>1. Written(tab, <<>>, tab')
    BY DEF Written, TellRounds
  <1>2. \A k \in DOMAIN tab : RoundOf(tab'[k]) = RoundOf(tab[k])
    BY DEF RoundOf, Roundless
  <1>3. Rounded(tab) \subseteq Rounded(tab')
    BY <1>2 DEF Rounded
  <1> QED
    BY <1>1, <1>3 DEF Writes

LEMMA AgedWritten ==
  ASSUME TabInv, TellRounds(tab), AgeRow
  PROVE  Writes(<<>>)
  <1>1. PICK k \in DOMAIN tab : tab' = [tab EXCEPT ![k].at = "stale"]
    BY DEF AgeRow
  <1>2. PICK V : tab \in Seq([Fields -> V])
    BY DEF TabInv
  <1>3. \A i \in DOMAIN tab : tab[i] \in [Fields -> V]
    BY <1>2, ListFacts
  <1>4. DOMAIN tab' = DOMAIN tab /\ \A i \in DOMAIN tab : i # k => tab'[i] = tab[i]
    BY <1>1
  <1>5. tab'[k] = [tab[k] EXCEPT !.at = "stale"]
    BY <1>1
  <1>6. tab'[k].company = tab[k].company /\ tab'[k].round = tab[k].round
    BY <1>3, <1>5 DEF Fields
  <1> QED
    BY <1>4, <1>6, SameRounds

SiteInv == RoundsFit(listing, coming, tab)
HeldInv ==
  /\ shown \in Nat
  /\ HeldFit(listing, tab, CardsOf(pages, MaxCards), shown * PageSize + 1, skipped, cards)

LEMMA ListedFirst ==
  /\ TellRounds(Kept)
  /\ \A i, j \in DOMAIN Listed : i < j => NotOlder(Listed[i], Listed[j])
  /\ \A i, j \in DOMAIN Coming : i < j => NotOlder(Coming[j], Coming[i])
  /\ \A i \in DOMAIN Coming, j \in DOMAIN Listed : NotOlder(Coming[i], Listed[j])
  /\ Listed \in Seq(Listing) /\ Coming \in Seq(Listing)
  <1>1. TellRounds(Kept)
    BY NewestFirst DEF NewestFirst, TellRounds, AnyRound
  <1>2. /\ \A i, j \in DOMAIN Listed : i < j => NotOlder(Listed[i], Listed[j])
        /\ \A i, j \in DOMAIN Coming : i < j => NotOlder(Coming[j], Coming[i])
        /\ \A i \in DOMAIN Coming, j \in DOMAIN Listed : NotOlder(Coming[i], Listed[j])
    BY NewestFirst DEF NewestFirst
  <1>3. Listed \in Seq(Listing) /\ Coming \in Seq(Listing)
    BY DetailAssumption DEF DetailAssumption, Listing
  <1> QED
    BY <1>1, <1>2, <1>3

LEMMA KeptIsOlder ==
  ASSUME NEW k \in DOMAIN Kept, NEW c \in Companies, SameCompany(Site[c].name, Kept[k].company)
  PROVE  /\ \A i \in DOMAIN Coming : Coming[i].co = c => RoundNo(Kept[k].round) <= RoundNo(Coming[i].round)
         /\ \A j \in DOMAIN Listed : Listed[j].co = c =>
              \E i \in 1 .. j : Listed[i].co = c /\ RoundNo(Kept[k].round) <= RoundNo(Listed[i].round)
  BY NewestFirst DEF NewestFirst

LEMMA SiteFirst == RoundsFit(Listed, Coming, Kept)
  <1>1. /\ DOMAIN Listed = 1..Len(Listed) /\ Len(Listed) \in Nat
        /\ \A i \in DOMAIN Listed : Listed[i].co \in Companies
        /\ \A i \in DOMAIN Coming : Coming[i].co \in Companies
    <2>1. Listed \in Seq(Listing) /\ Coming \in Seq(Listing)
      BY ListedFirst
    <2>2. /\ DOMAIN Listed = 1..Len(Listed) /\ Len(Listed) \in Nat
          /\ \A i \in DOMAIN Listed : Listed[i] \in Listing
          /\ \A i \in DOMAIN Coming : Coming[i] \in Listing
      BY <2>1, ListFacts
    <2> QED
      BY <2>2, ListingFacts
  <1>2. \A i \in DOMAIN Coming : Newest(Kept, Coming[i])
    BY <1>1, KeptIsOlder DEF Newest
  <1>3. ASSUME NEW j \in DOMAIN Listed, FirstFrom(Listed, j, 1) PROVE Newest(Kept, Listed[j])
    <2> DEFINE c == Listed[j].co
    <2> SUFFICES ASSUME NEW k \in DOMAIN Kept, SameCompany(Site[c].name, Kept[k].company)
                 PROVE  RoundNo(Kept[k].round) <= RoundNo(Listed[j].round)
      BY DEF Newest
    <2>1. PICK i \in 1 .. j : Listed[i].co = c /\ RoundNo(Kept[k].round) <= RoundNo(Listed[i].round)
      BY <1>1, KeptIsOlder
    <2>2. i = j
      <3>1. i \notin 1 .. j - 1
        BY <1>3, <2>1 DEF FirstFrom
      <3>2. j \in Nat
        BY <1>1
      <3> QED
        BY <3>1, <3>2
    <2> QED
      BY <2>1, <2>2
  <1> QED
    BY <1>2, <1>3, ListedFirst DEF RoundsFit

\* A crawl that forgets what it held.
LEMMA HeldForgotten ==
  ASSUME SiteInv', ForgetCrawl
  PROVE  HeldInv'
  <1>1. pages' = <<>> /\ shown' = 0 /\ cards' = <<>>
    BY DEF ForgetCrawl
  <1>2. CardsOf(<<>>, MaxCards) = <<>>
    BY NoCards
  <1>3. 0 * PageSize + 1 = 1
    BY Sizes
  <1>4. HeldFit(listing', tab', <<>>, 1, skipped', <<>>)
    BY NothingHeld DEF SiteInv
  <1> QED
    BY <1>1, <1>2, <1>3, <1>4 DEF HeldInv

LEMMA RoundsFirst == DetailInit => SiteInv /\ HeldInv
  <1> SUFFICES ASSUME DetailInit PROVE SiteInv /\ HeldInv
    OBVIOUS
  <1>1. /\ listing = Listed /\ coming = Coming /\ tab = Kept
        /\ pages = <<>> /\ shown = 0 /\ cards = <<>>
    BY DEF DetailInit
  <1>2. SiteInv
    BY <1>1, SiteFirst DEF SiteInv
  <1>3. CardsOf(<<>>, MaxCards) = <<>> /\ 0 * PageSize + 1 = 1
    BY NoCards, Sizes
  <1>4. HeldFit(listing, tab, <<>>, 1, skipped, <<>>)
    BY <1>2, NothingHeld DEF SiteInv
  <1>5. HeldInv
    BY <1>1, <1>3, <1>4 DEF HeldInv
  <1> QED
    BY <1>2, <1>5

LEMMA EnrichedRound ==
  ASSUME NEW card, NEW site, NEW f, NEW b
  PROVE  Enriched(card, site, f, b).round = card.round /\ Enriched(card, site, f, b).browser = b
  BY DEF Enriched

LEMMA TakenRounds ==
  ASSUME DetailInv, SiteInv, targets # <<>>, NEW found \in Seq(Listing), TakeCards(found),
         UNCHANGED <<listing, coming, tab>>, NEW all, NEW m,
         HeldFit(listing, tab, all, m, skipped', cards), OnList(listing, found),
         \A k \in DOMAIN found :
           found[k].co \notin skipped' /\ (Target.browser = "no" =>
             \A j \in DOMAIN found : j # k => found[j].co # found[k].co) => Newest(tab, found[k])
  PROVE  SiteInv' /\ HeldInv'
  <1> DEFINE b == Target.browser
  <1>1. PICK fetched \in SUBSET DOMAIN found :
          cards' = cards \o [k \in DOMAIN found |-> Enriched(found[k], Site[found[k].co], k \in fetched, b)]
    BY DEF TakeCards
  <1> DEFINE more == [k \in DOMAIN found |-> Enriched(found[k], Site[found[k].co], k \in fetched, b)]
  <1>2. DOMAIN found = 1..Len(found) /\ Len(found) \in Nat /\ \A k \in DOMAIN found : found[k] \in Listing
    BY ListFacts
  <1>3. b \in {"yes", "no"}
    <2>1. Target \in Targets
      BY TailOf DEF DetailInv, CrawlInv, Target
    <2> QED
      BY <2>1 DEF Targets
  <1>4. DOMAIN more = DOMAIN found /\ cards' = cards \o more /\ more = [k \in 1..Len(found) |-> more[k]]
    BY <1>1, <1>2
  <1> HIDE DEF b
  <1>5. ASSUME NEW k \in DOMAIN found
        PROVE  /\ more[k] \in CardRows /\ more[k].co = found[k].co
               /\ more[k].round = found[k].round /\ more[k].browser = b
    <2>1. found[k] \in Listing /\ (k \in fetched) \in BOOLEAN
      BY <1>2
    <2>2. more[k] = Enriched(found[k], Site[found[k].co], k \in fetched, b)
      OBVIOUS
    <2> DEFINE x == Enriched(found[k], Site[found[k].co], k \in fetched, b)
    <2>3. x \in CardRows /\ x.co = found[k].co
      BY <1>3, <2>1, CardOf
    <2>4. x.round = found[k].round /\ x.browser = b
      BY EnrichedRound
    <2> HIDE DEF more, x
    <2>5. more[k] = x
      BY <2>2 DEF x
    <2> QED
      BY <2>3, <2>4, <2>5
  <1> HIDE DEF more
  <1>6. more \in Seq(CardRows)
    BY <1>2, <1>4, <1>5, MakeList
  <1>7. ASSUME NEW k \in DOMAIN found, found[k].co \notin skipped', ~TwiceIn(more, found[k].co)
        PROVE  Newest(tab, found[k])
    <2>1. b = "no" => \A j \in DOMAIN found : j # k => found[j].co # found[k].co
      BY <1>4, <1>5, <1>7 DEF TwiceIn
    <2> QED
      BY <1>7, <2>1 DEF b
  <1>8. cards \in Seq(CardRows) /\ listing \in Seq(Listing)
    BY DEF DetailInv, CrawlInv
  <1>9. RoundsFit(listing, coming, tab)
    BY DEF SiteInv
  <1>10. HeldFit(listing, tab, <<>>, 1, skipped', cards \o more)
    BY <1>4, <1>5, <1>6, <1>7, <1>8, <1>9, TakenFits
  <1>11. pages' = <<>> /\ shown' = 0
    BY DEF TakeCards
  <1>12. CardsOf(<<>>, MaxCards) = <<>> /\ 0 * PageSize + 1 = 1
    BY NoCards, Sizes
  <1>13. HeldInv'
    BY <1>4, <1>10, <1>11, <1>12 DEF HeldInv
  <1> QED
    BY <1>9, <1>13 DEF SiteInv

LEMMA ReadPlainRounds ==
  ASSUME DetailInv, SiteInv, HeldInv, ReadPlain
  PROVE  SiteInv' /\ HeldInv'
  <1> DEFINE first == Take(listing, PageSize)
             found == Take(first, MaxCards)
  <1>1. listing \in Seq(Listing) /\ PageSize \in Nat /\ MaxCards \in Nat
    BY Sizes DEF DetailInv, CrawlInv
  <1>2. /\ TakeCards(found) /\ targets # <<>> /\ UNCHANGED <<listing, coming, tab, skipped>>
        /\ Target.browser = "no"
    BY DEF ReadPlain
  <1>3. first \in Seq(Listing) /\ \A k \in 1..Len(first) : k \in 1..Len(listing) /\ first[k] = listing[k]
    BY <1>1, TakeOf
  <1> HIDE DEF first
  <1>4. found \in Seq(Listing) /\ \A k \in 1..Len(found) : k \in 1..Len(first) /\ found[k] = first[k]
    BY <1>1, <1>3, TakeOf
  <1> HIDE DEF found
  <1>5. /\ DOMAIN found = 1..Len(found) /\ Len(found) \in Nat
        /\ DOMAIN listing = 1..Len(listing) /\ Len(listing) \in Nat
    BY <1>1, <1>4, ListFacts
  <1>6. \A k \in DOMAIN found : k \in DOMAIN listing /\ found[k] = listing[k]
    BY <1>3, <1>4, <1>5
  <1>7. OnList(listing, found)
    BY <1>6 DEF OnList
  <1>8. ASSUME NEW k \in DOMAIN found, \A j \in DOMAIN found : j # k => found[j].co # found[k].co
        PROVE  Newest(tab, found[k])
    <2>1. \A j \in 1 .. k - 1 : j \in DOMAIN found /\ j # k
      BY <1>5
    <2>2. FirstFrom(listing, k, 1)
      BY <1>6, <1>8, <2>1 DEF FirstFrom
    <2> QED
      BY <1>6, <2>2 DEF SiteInv, RoundsFit
  <1>9. HeldFit(listing, tab, CardsOf(pages, MaxCards), shown * PageSize + 1, skipped', cards)
    BY <1>2 DEF HeldInv
  <1> QED
    BY <1>2, <1>4, <1>7, <1>8, <1>9, TakenRounds

LEMMA ReadPageRounds ==
  ASSUME PageSize <= MaxCards, DetailInv, SiteInv, HeldInv, ReadPage
  PROVE  SiteInv' /\ HeldInv'
  <1>1. PICK k \in 1 .. Len(pages) + 1 :
          LET read == Append(pages, Page(k))
          IN  /\ k >= shown /\ (k = 1 \/ Len(listing) > (k - 1) * PageSize)
              /\ \/ TakeCards(FromPages(read, MaxCards))
                 \/ pages' = read /\ shown' = k /\ UNCHANGED <<cpc, targets, cards, past>>
              /\ skipped' = skipped \union
                   {listing[i].co : i \in shown * PageSize + 1 .. (k - 1) * PageSize}
    BY DEF ReadPage
  <1>2. UNCHANGED <<listing, coming, tab>> /\ cpc = "reading"
    BY DEF ReadPage
  <1>3. listing \in Seq(Listing) /\ pages \in Seq(Seq(Listing)) /\ targets # <<>>
    BY <1>2 DEF DetailInv, CrawlInv
  <1>4. k \in Nat /\ k > 0 /\ shown \in Nat /\ PageSize \in Nat /\ MaxCards \in Nat
    BY <1>1, <1>3, Sizes DEF HeldInv
  <1> DEFINE read == Append(pages, Page(k))
             page == Take(Page(k), MaxCards)
             all == CardsOf(pages, MaxCards)
             a == shown * PageSize
             b == (k - 1) * PageSize
             more == {listing[i].co : i \in a + 1 .. b}
  <1>5. /\ page \in Seq(Listing) /\ b \in Nat /\ k * PageSize = b + PageSize
        /\ \A j \in DOMAIN page : b + j \in DOMAIN listing /\ page[j] = listing[b + j]
        /\ \A i \in DOMAIN listing : b < i /\ i <= k * PageSize => i - b \in DOMAIN page
    BY <1>1, <1>3, <1>4, PageItems
  <1>6. a \in Nat /\ a <= k * PageSize
    <2>1. a \in Nat
      BY <1>4
    <2>2. PICK d \in Nat : k = shown + d
      BY <1>1, <1>4
    <2>3. k * PageSize = a + d * PageSize /\ d * PageSize \in Nat
      BY <1>4, <2>2
    <2> QED
      BY <2>1, <2>3
  <1>7. Page(k) \in Seq(Listing)
    BY <1>3, <1>4, PageOf
  <1>8. read \in Seq(Seq(Listing))
    BY <1>3, <1>7
  <1>9. CardsOf(read, MaxCards) = all \o page /\ all \in Seq(Listing)
    BY <1>3, <1>4, <1>7, CardsOfOneMore, CardsOfPages
  <1>10. \A i \in DOMAIN listing : a < i /\ i <= b => listing[i].co \in more
    <2>1. \A i \in DOMAIN listing : i \in Nat
      <3>1. DOMAIN listing = 1..Len(listing) /\ Len(listing) \in Nat
        BY <1>3, ListFacts
      <3> QED
        BY <3>1, PlacesAreNumbers
    <2>2. \A i \in DOMAIN listing : a < i /\ i <= b => i \in a + 1 .. b
      BY <1>5, <1>6, <2>1
    <2> QED
      BY <2>2
  <1>11. HeldFit(listing, tab, all, a + 1, skipped, cards)
    BY DEF HeldInv
  <1>12. skipped' = skipped \union more
    BY <1>1
  <1>13. \/ TakeCards(FromPages(read, MaxCards))
         \/ pages' = read /\ shown' = k /\ cards' = cards
    BY <1>1
  <1> HIDE DEF read, page, all, a, b, more
  <1>14. k * PageSize \in Nat
    BY <1>4
  <1>15. HeldFit(listing, tab, all \o page, k * PageSize + 1, skipped', cards)
    BY <1>3, <1>5, <1>6, <1>9, <1>10, <1>11, <1>12, <1>14, ReadFits
  <1>16. CASE pages' = read /\ shown' = k /\ cards' = cards
    <2>1. HeldInv'
      BY <1>2, <1>4, <1>9, <1>15, <1>16 DEF HeldInv
    <2> QED
      BY <1>2, <2>1 DEF SiteInv
  <1>17. CASE TakeCards(FromPages(read, MaxCards))
    <2> DEFINE found == FromPages(read, MaxCards)
               all2 == CardsOf(read, MaxCards)
    <2>1. found \in Seq(Firsts(all2)) /\ found \in Seq(Listing)
      BY <1>4, <1>8, FromPagesFirsts, FromPagesCards
    <2>2. HeldFit(listing, tab, all2, k * PageSize + 1, skipped', cards)
      BY <1>9, <1>15
    <2>3. TakeCards(found)
      BY <1>17
    <2> HIDE DEF found, all2
    <2>4. \A i \in DOMAIN found : \E j \in DOMAIN all2 : found[i] = all2[j] /\ FirstFrom(all2, j, 1)
      BY <2>1, ListFacts DEF Firsts
    <2>5. OnList(listing, found)
      BY <2>2, <2>4 DEF HeldFit, OnList
    <2>6. \A i \in DOMAIN found : found[i].co \notin skipped' => Newest(tab, found[i])
      BY <2>2, <2>4 DEF HeldFit
    <2> QED
      BY <1>2, <1>3, <2>1, <2>2, <2>3, <2>5, <2>6, TakenRounds
  <1> QED
    BY <1>13, <1>16, <1>17

\* What a step writes to the tab.
LEMMA TabWritten ==
  ASSUME Apart, DetailInv, TabInv, TakenInv, SiteInv, [DetailNext]_detail
  PROVE  (PublishCards /\ Writes(cards)) \/ Writes(<<>>)
  <1>1. TellRounds(tab)
    BY DEF SiteInv, RoundsFit
  <1>2. ASSUME UNCHANGED tab PROVE Writes(<<>>)
    BY <1>1, <1>2, SameRounds
  <1>3. \/ UNCHANGED tab \/ PublishCards \/ PublishAnswers \/ AgeRow
    BY DEF DetailNext, CrawlStep, EnrichStep, BeginCrawl, ReadPlain, OpenBrowser, Challenge, ReadPage,
           QueueCards, TakeFromQueue, LookUp, SettleTasks, TakeFromTab, News, AgeTask, Die, detail
  <1> QED
    BY <1>1, <1>2, <1>3, CardsWritten, AnswersWritten, AgedWritten

\* What a step does to the list and to what a crawl holds.
LEMMA CrawlMoves ==
  ASSUME [DetailNext]_detail
  PROVE  \/ ReadPlain \/ ReadPage \/ News
         \/ /\ UNCHANGED <<listing, coming>>
            /\ ForgetCrawl \/ UNCHANGED <<pages, shown, cards, skipped>>
  BY DEF DetailNext, CrawlStep, EnrichStep, BeginCrawl, OpenBrowser, Challenge, QueueCards, PublishCards,
         TakeFromQueue, LookUp, SettleTasks, PublishAnswers, TakeFromTab, AgeRow, AgeTask, Die, detail, crawl

LEMMA SiteStays ==
  ASSUME DetailInv, SiteInv, NEW held, OnList(listing, held), Writes(held), UNCHANGED <<listing, coming>>
  PROVE  SiteInv'
  BY RoundsOver DEF SiteInv, Writes, DetailInv, CrawlInv

LEMMA HeldStays ==
  ASSUME DetailInv, SiteInv, HeldInv, Writes(<<>>), UNCHANGED <<listing, pages, shown, cards, skipped>>
  PROVE  HeldInv'
  <1> DEFINE all == CardsOf(pages, MaxCards)
             m == shown * PageSize + 1
  <1>1. all \in Seq(Listing) /\ listing \in Seq(Listing) /\ cards \in Seq(CardRows)
    BY CardsOfPages, Sizes DEF DetailInv, CrawlInv
  <1>2. HeldFit(listing, tab, all, m, skipped, cards) /\ shown \in Nat
    BY DEF HeldInv
  <1>3. TellRounds(tab) /\ Written(tab, <<>>, tab')
    BY DEF SiteInv, RoundsFit, Writes
  <1> HIDE DEF all, m
  <1>4. HeldFit(listing, tab', all, m, skipped, cards)
    BY <1>1, <1>2, <1>3, HeldOver
  <1> QED
    BY <1>2, <1>4 DEF HeldInv, all, m

LEMMA NewsRounds ==
  ASSUME DetailInv, SiteInv, HeldInv, News
  PROVE  SiteInv' /\ HeldInv'
  <1> DEFINE x == Head(coming)
             all == CardsOf(pages, MaxCards)
             m == shown * PageSize + 1
  <1>1. /\ coming # <<>> /\ listing' = <<x>> \o listing /\ coming' = Tail(coming)
        /\ UNCHANGED <<tab, pages, shown, cards, skipped>>
    BY DEF News, crawl
  <1>2. listing \in Seq(Listing) /\ coming \in Seq(Listing)
    BY DEF DetailInv, CrawlInv
  <1>3. RoundsFit(listing, coming, tab)
    BY DEF SiteInv
  <1>4. x \in Listing /\ Newest(tab, x)
    <2>1. x = coming[1] /\ 1 \in DOMAIN coming
      BY <1>1, <1>2, TailItems
    <2>2. coming[1] \in Listing
      BY <1>2, <2>1, ListFacts
    <2> QED
      BY <1>3, <2>1, <2>2 DEF RoundsFit
  <1>5. SiteInv'
    BY <1>1, <1>2, <1>3, NewsFits DEF SiteInv
  <1>6. HeldFit(listing, tab, all, m, skipped, cards) /\ shown \in Nat
    BY DEF HeldInv
  <1>7. m \in Nat /\ m > 0
    <2>1. shown * PageSize \in Nat
      BY <1>6, Sizes
    <2> QED
      BY <2>1
  <1> HIDE DEF x, all, m
  <1>8. HeldFit(<<x>> \o listing, tab, all, m, skipped, cards)
    BY <1>2, <1>4, <1>6, <1>7, NewsHeld
  <1>9. HeldInv'
    BY <1>1, <1>6, <1>8 DEF HeldInv, all, m
  <1> QED
    BY <1>5, <1>9

RoundsInv == Apart /\ PageSize <= MaxCards => SiteInv /\ HeldInv

LEMMA RoundsGo == DetailInv /\ FitInv /\ RoundsInv /\ [DetailNext]_detail => RoundsInv'
  <1> SUFFICES ASSUME Apart, PageSize <= MaxCards, DetailInv, TabInv, TakenInv, SiteInv, HeldInv,
                      [DetailNext]_detail
               PROVE  SiteInv' /\ HeldInv'
    BY DEF FitInv, RoundsInv, Apart
  <1>1. OnList(listing, cards) /\ OnList(listing, <<>>)
    <2>1. OnList(listing, cards)
      BY DEF HeldInv, HeldFit
    <2>2. DOMAIN <<>> = {}
      OBVIOUS
    <2> QED
      BY <2>1, <2>2 DEF OnList
  <1>2. CASE UNCHANGED <<listing, coming>> /\ (ForgetCrawl \/ UNCHANGED <<pages, shown, cards, skipped>>)
    <2>1. CASE Writes(<<>>)
      <3>1. SiteInv'
        BY <1>1, <1>2, <2>1, SiteStays
      <3> QED
        BY <1>2, <2>1, <3>1, HeldForgotten, HeldStays
    <2>2. CASE PublishCards /\ Writes(cards)
      <3>1. SiteInv'
        BY <1>1, <1>2, <2>2, SiteStays
      <3> QED
        BY <2>2, <3>1, HeldForgotten DEF PublishCards
    <2> QED
      BY <2>1, <2>2, TabWritten
  <1> QED
    BY <1>2, CrawlMoves, ReadPlainRounds, ReadPageRounds, NewsRounds

LEMMA OneOnly ==
  ASSUME NEW S, IsFiniteSet(S), Cardinality(S) = 1, NEW x \in S, NEW y \in S
  PROVE  x = y
  BY FS_Singleton

LEMMA OneRowOnly ==
  ASSUME NEW V, NEW t \in Seq(V), NEW S \in SUBSET ToSet(t), Cardinality(S) = 1, NEW x \in S, NEW y \in S
  PROVE  x = y
  <1>1. DOMAIN t = 1..Len(t) /\ Len(t) \in Nat /\ t = [k \in 1..Len(t) |-> t[k]]
    BY ListFacts, ListOfItems
  <1>2. IsFiniteSet(ToSet(t))
    <2>1. \A k \in 1..Len(t) : t[k] \in ToSet(t)
      BY <1>1 DEF ToSet
    <2>2. t \in Seq(ToSet(t))
      BY <1>1, <2>1, MakeList
    <2>3. \A w \in ToSet(t) : \E k \in 1..Len(t) : t[k] = w
      BY <1>1 DEF ToSet
    <2> QED
      BY <2>2, <2>3 DEF IsFiniteSet
  <1>3. IsFiniteSet(S)
    BY <1>2, FS_Subset
  <1> QED
    BY <1>3, OneOnly

LEMMA ToldRoundNo ==
  ASSUME NEW row, row.round \in AnyRound, ~Roundless(row)
  PROVE  RoundNo(row.round) # 0
  <1>1. row.round \in ToSet(Rounds) /\ row.round # ""
    BY DEF AnyRound, Roundless
  <1>2. \E k \in DOMAIN Rounds : Rounds[k] = row.round
    BY <1>1 DEF ToSet
  <1>3. RoundNo(row.round) \in DOMAIN Rounds
    BY <1>1, <1>2 DEF RoundNo
  <1>4. 0 \notin DOMAIN Rounds
    <2>1. Rounds \in Seq(STRING)
      BY NewestFirst DEF NewestFirst
    <2>2. DOMAIN Rounds = 1..Len(Rounds) /\ Len(Rounds) \in Nat
      BY <2>1, ListFacts
    <2> QED
      BY <2>2
  <1> QED
    BY <1>3, <1>4

LEMMA Forward ==
  ASSUME Apart, DetailInv, TabInv, TabInv', TakenInv, SiteInv, SiteInv', HeldInv, [DetailNext]_detail,
         NEW c \in Companies, ~Twice(c), c \notin skipped, NEW row \in RowsOf(c), NEW new \in RowsOf(c)',
         Cardinality(RowsOf(c)) = 1, Cardinality(RowsOf(c)') = 1, ~(Legacy /\ Roundless(new))
  PROVE  RoundNo(row.round) <= RoundNo(new.round)
  <1>1. PICK i \in DOMAIN tab : row = tab[i] /\ SameCompany(Site[c].name, row.company)
    BY DEF RowsOf, ToSet
  <1>2. PICK n \in DOMAIN tab' : new = tab'[n] /\ SameCompany(Site[c].name, new.company)
    BY DEF RowsOf, ToSet
  <1>3. /\ row.round \in AnyRound /\ RoundNo(row.round) \in Nat
        /\ new.round \in AnyRound /\ RoundNo(new.round) \in Nat
    BY <1>1, <1>2, RoundNumbers DEF SiteInv, RoundsFit, TellRounds
  <1>4. CASE Roundless(row)
    BY <1>3, <1>4, RoundlessRow
  <1>5. CASE ~Roundless(row)
    <2>1. PICK held : Writes(held) /\ (held = <<>> \/ (PublishCards /\ held = cards))
      BY TabWritten
    <2>2. ~Roundless(new)
      <3> SUFFICES ASSUME ~Legacy PROVE ~Roundless(new)
        OBVIOUS
      <3>1. Person(row.company) \in Rounded(tab')
        BY <1>1, <1>5, <2>1 DEF Writes, Rounded, RoundOf
      <3>2. PICK k \in DOMAIN tab' : ~Roundless(tab'[k]) /\ Person(tab'[k].company) = Person(row.company)
        BY <3>1 DEF Rounded, RoundOf
      <3>3. SameCompany(Site[c].name, tab'[k].company)
        BY <1>1, <3>2, PersonSame DEF SameCompany
      <3>4. tab'[k] \in RowsOf(c)'
        BY <3>3 DEF RowsOf, ToSet
      <3>5. tab'[k] = new
        <4>1. PICK V : tab' \in Seq(V)
          BY DEF TabInv
        <4>2. RowsOf(c)' \in SUBSET ToSet(tab')
          BY DEF RowsOf
        <4> QED
          BY <3>4, <4>1, <4>2, OneRowOnly
      <3> QED
        BY <3>2, <3>5
    <2>3. RoundNo(new.round) # 0
      BY <1>3, <2>2, ToldRoundNo
    <2>4. \/ \E j \in DOMAIN tab : SameCompany(Site[c].name, tab[j].company) /\ tab[j].round = new.round
          \/ \E j \in DOMAIN held : held[j].co = c /\ held[j].round = new.round
      BY <1>2, <2>1, <2>3 DEF Writes, Written
    <2>5. CASE \E j \in DOMAIN tab : SameCompany(Site[c].name, tab[j].company) /\ tab[j].round = new.round
      <3>1. PICK j \in DOMAIN tab : SameCompany(Site[c].name, tab[j].company) /\ tab[j].round = new.round
        BY <2>5
      <3>2. tab[j] \in RowsOf(c)
        BY <3>1 DEF RowsOf, ToSet
      <3>3. tab[j] = row
        <4>1. PICK V : tab \in Seq(V)
          BY DEF TabInv
        <4>2. RowsOf(c) \in SUBSET ToSet(tab)
          BY DEF RowsOf
        <4> QED
          BY <3>2, <4>1, <4>2, OneRowOnly
      <3> QED
        BY <1>3, <3>1, <3>3
    <2>6. CASE \E j \in DOMAIN held : held[j].co = c /\ held[j].round = new.round
      <3>1. held = cards
        <4>1. DOMAIN <<>> = {}
          OBVIOUS
        <4> QED
          BY <2>1, <2>6, <4>1
      <3>2. PICK j \in DOMAIN cards : cards[j].co = c /\ cards[j].round = new.round
        BY <2>6, <3>1
      <3>3. ~TwiceIn(cards, c)
        BY DEF Twice, TwiceIn
      <3>4. Newest(tab, cards[j])
        BY <3>2, <3>3 DEF HeldInv, HeldFit
      <3> QED
        BY <1>1, <3>2, <3>4 DEF Newest
    <2> QED
      BY <2>4, <2>5, <2>6
  <1> QED
    BY <1>4, <1>5

\* For any companies, lists, pages, faults and interleavings: as long as companies
\* can be told apart and no page shows more cards than a crawl takes, the round of a
\* company goes back only by two cards of it taken without a browser or by
\* a page that came too late, and is lost only when the tab is rewritten from nothing.
THEOREM RoundsAdvance == DetailSpec => RoundsGoForward
  <1> DEFINE Ahead ==
        Apart /\ PageSize <= MaxCards =>
          \A c \in Companies : \/ Twice(c) \/ c \in skipped
                              \/ \A row \in RowsOf(c), new \in RowsOf(c)' :
                                   Cardinality(RowsOf(c)) = 1 /\ Cardinality(RowsOf(c)') = 1 =>
                                     \/ RoundNo(row.round) <= RoundNo(new.round)
                                     \/ Legacy /\ new.round = ""
  <1>1. DetailInit => FitInv /\ RoundsInv
    BY FitsFirst, RoundsFirst DEF RoundsInv
  <1>2. DetailInv /\ DetailInv' /\ FitInv /\ RoundsInv /\ [DetailNext]_detail => FitInv' /\ RoundsInv'
    BY FitsGo, RoundsGo
  <1>3. DetailInv /\ FitInv /\ FitInv' /\ RoundsInv /\ RoundsInv' /\ [DetailNext]_detail => [Ahead]_detail
    <2> SUFFICES ASSUME DetailInv, FitInv, FitInv', RoundsInv, RoundsInv', [DetailNext]_detail,
                        Apart, PageSize <= MaxCards
                 PROVE  Ahead
      OBVIOUS
    <2>1. TabInv /\ TakenInv /\ TabInv' /\ SiteInv /\ HeldInv /\ SiteInv'
      BY DEF FitInv, RoundsInv, Apart
    <2> QED
      BY <2>1, Forward DEF Roundless
  <1>4. DetailInit /\ [][DetailNext]_detail /\ []DetailInv => [][Ahead]_detail
    <2> HIDE DEF Ahead
    <2> QED
      BY <1>1, <1>2, <1>3, PTL
  <1> QED
    BY <1>4, DetailInvHolds, PTL DEF DetailSpec, RoundsGoForward
=============================================================================
