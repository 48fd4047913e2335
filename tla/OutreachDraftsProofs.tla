------------------------- MODULE OutreachDraftsProofs -------------------------
(***************************************************************************)
(* That the outreach job overruns the daily limit, and drafts twice, no    *)
(* more than OutreachDrafts says, for any number of candidates, of         *)
(* executions of the gateway, of attempts per run and of faults; and, at   *)
(* the end, of the other job in batches, InvestorDb: that whoever it       *)
(* stores has a turn every day, for any funds, batches and intervals.      *)
(***************************************************************************)
EXTENDS OutreachDrafts, InvestorDb, FiniteSetTheorems, NaturalsInduction, WellFoundedInduction, TLAPS

Stages == {"free", "received", "checked", "created", "ok", "refused"}

In(s) == {x \in Executions : stage[x] = s}

\* Two sets that agree but for x.
LEMMA OneMore ==
  ASSUME NEW S, IsFiniteSet(S), NEW T, NEW x, T \ {x} = S \ {x}
  PROVE  /\ Cardinality(S) \in Nat /\ Cardinality(T) \in Nat
         /\ x \in S /\ x \in T => Cardinality(T) = Cardinality(S)
         /\ x \notin S /\ x \notin T => Cardinality(T) = Cardinality(S)
         /\ x \notin S /\ x \in T => Cardinality(T) = Cardinality(S) + 1
         /\ x \in S /\ x \notin T => Cardinality(T) = Cardinality(S) - 1
<1>1. Cardinality(S) \in Nat
  BY FS_CardinalityType
<1>2. CASE x \in S <=> x \in T
  <2>1. T = S
    BY <1>2
  <2> QED
    BY <1>1, <1>2, <2>1
<1>3. CASE x \notin S /\ x \in T
  <2>1. T = S \union {x}
    BY <1>3
  <2>2. Cardinality(S \union {x}) = Cardinality(S) + 1
    BY <1>3, FS_AddElement
  <2> QED
    BY <1>1, <1>3, <2>1, <2>2
<1>4. CASE x \in S /\ x \notin T
  <2>1. T = S \ {x}
    BY <1>4
  <2>2. Cardinality(S \ {x}) = Cardinality(S) - 1
    BY <1>4, FS_RemoveElement
  <2>3. Cardinality(S \ {x}) \in Nat
    BY FS_RemoveElement, FS_CardinalityType
  <2> QED
    BY <1>1, <1>4, <2>1, <2>2, <2>3
<1> QED
  BY <1>2, <1>3, <1>4

\* The executions of a stage are finitely many, and no more than there are.
LEMMA InFinite ==
  ASSUME NEW s
  PROVE  /\ IsFiniteSet(In(s)) /\ Cardinality(In(s)) \in Nat
         /\ Cardinality(Executions) \in Nat /\ Cardinality(In(s)) <= Cardinality(Executions)
<1>1. In(s) \in SUBSET Executions
  BY DEF In
<1>2. IsFiniteSet(Executions)
  BY OutreachAssumption
<1> QED
  BY <1>1, <1>2, FS_Subset, FS_CardinalityType

\* Two sets of executions that share none are no more than there are.
LEMMA Apart ==
  ASSUME NEW S \in SUBSET Executions, NEW T \in SUBSET Executions, S \intersect T = {}
  PROVE  Cardinality(S) + Cardinality(T) <= Cardinality(Executions)
<1>1. IsFiniteSet(Executions) /\ IsFiniteSet(S) /\ IsFiniteSet(T)
  BY OutreachAssumption, FS_Subset
<1>2. Cardinality(S \union T)
        = Cardinality(S) + Cardinality(T) - Cardinality(S \intersect T)
  BY <1>1, FS_Union
<1>3. Cardinality(S \intersect T) = 0
  BY FS_EmptySet
<1>4. S \union T \in SUBSET Executions
  OBVIOUS
<1>5. Cardinality(S \union T) <= Cardinality(Executions)
  BY <1>1, <1>4, FS_Subset
<1>6. Cardinality(S) \in Nat /\ Cardinality(T) \in Nat
  BY <1>1, FS_CardinalityType
<1> QED
  BY <1>2, <1>3, <1>5, <1>6
-----------------------------------------------------------------------------
(* The daily limit.                                                        *)

Counts ==
  /\ stage \in [Executions -> Stages]
  /\ counter \in Nat /\ today \in Nat /\ uncounted \in Nat

\* A draft of today is counted, known not to be, or about to be counted.
Counted == today <= counter + uncounted + Cardinality(In("created"))

\* With those that have passed the check as well, drafts stay within the limit.
Allowance ==
  today + Cardinality(In("checked")) <= MaxPerDay + (Cardinality(Executions) - 1) + uncounted

LimitInv == Counts /\ Counted /\ Allowance

\* There is an execution.
LEMMA Constants == MaxPerDay \in Nat /\ MaxPerDay >= 1 /\ Cardinality(Executions) >= 1
<1>1. Cardinality(Executions) \in Nat /\ Cardinality(Executions) # 0
  BY OutreachAssumption, FS_CardinalityType, FS_EmptySet
<1> QED
  BY <1>1, OutreachAssumption

\* At the start nothing is drafted, checked or counted.
LEMMA LimitInit == Init => LimitInv
<1> SUFFICES ASSUME Init PROVE LimitInv
  OBVIOUS
<1>1. Counts
  BY DEF Init, Counts, Stages
<1>2. In("checked") = {} /\ In("created") = {}
  BY DEF Init, In
<1>3. Cardinality(In("checked")) = 0 /\ Cardinality(In("created")) = 0
  BY <1>2, FS_EmptySet
<1>4. Cardinality(Executions) \in Nat
  BY InFinite
<1> QED
  BY <1>1, <1>3, <1>4, Constants DEF Init, LimitInv, Counted, Allowance

\* The stage of one execution changes, and neither before nor after is it
\* between the check of the limit and the count.
LEMMA LimitOther ==
  ASSUME LimitInv, NEW x \in Executions, NEW t \in Stages,
         stage' = [stage EXCEPT ![x] = t],
         {stage[x], t} \intersect {"checked", "created"} = {},
         UNCHANGED <<counter, today, uncounted>>
  PROVE  LimitInv'
<1>1. Counts'
  BY DEF LimitInv, Counts
<1>2. In("checked")' = In("checked") /\ In("created")' = In("created")
  BY DEF LimitInv, Counts, In
<1> QED
  BY <1>1, <1>2 DEF LimitInv, Counted, Allowance

\* One execution of the gateway goes on.
LEMMA LimitGateway ==
  ASSUME LimitInv, NEW x \in Executions, Gateway(x) \/ CreateRaises(x) \/ IncrementFails(x)
  PROVE  LimitInv'
<1> DEFINE checked == Cardinality(In("checked"))
           created == Cardinality(In("created"))
<1>1. Counts'
  BY DEF Gateway, Check, CreateDraft, CreateRaises, Increment, IncrementFails, LimitInv, Counts, Stages
<1>2. checked \in Nat /\ created \in Nat /\ Cardinality(Executions) \in Nat
  BY InFinite
<1>3. /\ stage \in [Executions -> Stages]
      /\ counter \in Nat /\ today \in Nat /\ uncounted \in Nat
      /\ today <= counter + uncounted + created
      /\ today + checked <= MaxPerDay + (Cardinality(Executions) - 1) + uncounted
  BY DEF LimitInv, Counts, Counted, Allowance
<1>4. \A s \in Stages : IsFiniteSet(In(s)) /\ In(s)' \ {x} = In(s) \ {x}
  <2>1. \A s \in Stages : IsFiniteSet(In(s))
    BY InFinite
  <2>2. \E t \in Stages : stage' = [stage EXCEPT ![x] = t]
    BY DEF Gateway, Check, CreateDraft, CreateRaises, Increment, IncrementFails, Stages
  <2> QED
    BY <1>3, <2>1, <2>2 DEF In
<1>5. CASE Check(x) /\ counter >= MaxPerDay
  <2>1. In("checked")' = In("checked") /\ In("created")' = In("created")
    BY <1>3, <1>5 DEF Check, In
  <2> QED
    BY <1>1, <1>3, <1>5, <2>1 DEF Check, LimitInv, Counted, Allowance
<1>6. CASE Check(x) /\ ~(counter >= MaxPerDay)
  <2>1. In("created")' = In("created") /\ x \notin In("checked") /\ x \in In("checked")'
    BY <1>3, <1>6 DEF Check, In
  <2>2. Cardinality(In("checked")') = checked + 1
    BY <1>4, <2>1, OneMore DEF Stages
  <2>3. Cardinality(In("checked")') + Cardinality(In("created")') <= Cardinality(Executions)
    <3>1. /\ In("checked")' \in SUBSET Executions /\ In("created")' \in SUBSET Executions
          /\ In("checked")' \intersect In("created")' = {}
      BY DEF In
    <3> QED
      BY <3>1, Apart
  <2>4. /\ counter + 1 <= MaxPerDay
        /\ UNCHANGED <<counter, today, uncounted>>
    BY <1>3, <1>6, Constants DEF Check
  <2> QED
    BY <1>1, <1>2, <1>3, <2>1, <2>2, <2>3, <2>4, Constants DEF LimitInv, Counted, Allowance
<1>7. CASE CreateDraft(x)
  <2>1. /\ x \in In("checked") /\ x \notin In("checked")'
        /\ x \notin In("created") /\ x \in In("created")'
    BY <1>3, <1>7 DEF CreateDraft, In
  <2>2. Cardinality(In("checked")') = checked - 1 /\ Cardinality(In("created")') = created + 1
    BY <1>4, <2>1, OneMore DEF Stages
  <2> QED
    BY <1>1, <1>2, <1>3, <1>7, <2>2, Constants DEF CreateDraft, LimitInv, Counted, Allowance
<1>8. CASE Increment(x) \/ IncrementFails(x)
  <2>1. /\ In("checked")' = In("checked")
        /\ x \in In("created") /\ x \notin In("created")'
    BY <1>3, <1>8 DEF Increment, IncrementFails, In
  <2>2. Cardinality(In("created")') = created - 1
    BY <1>4, <2>1, OneMore DEF Stages
  <2> QED
    BY <1>1, <1>2, <1>3, <1>8, <2>1, <2>2, Constants
       DEF Increment, IncrementFails, LimitInv, Counted, Allowance
<1>9. CASE CreateRaises(x)
  <2>1. /\ x \in In("checked") /\ x \notin In("checked")'
        /\ In("created")' = In("created")
    BY <1>3, <1>9 DEF CreateRaises, In
  <2>2. Cardinality(In("checked")') = checked - 1
    BY <1>4, <2>1, OneMore DEF Stages
  <2> QED
    BY <1>1, <1>2, <1>3, <1>9, <2>1, <2>2, Constants DEF CreateRaises, LimitInv, Counted, Allowance
<1> QED
  BY <1>5, <1>6, <1>7, <1>8, <1>9 DEF Gateway

\* The invariant holds of every step.
LEMMA LimitStep ==
  ASSUME LimitInv, [Next]_vars
  PROVE  LimitInv'
<1>1. CASE UNCHANGED <<stage, counter, today, uncounted>>
  BY <1>1 DEF LimitInv, Counts, Counted, Allowance, In
<1>2. CASE NewDay
  <2>1. In("checked")' = In("checked") /\ In("created")' = In("created")
    BY <1>2 DEF NewDay, In
  <2>2. /\ Cardinality(In("checked")) \in Nat /\ Cardinality(In("created")) \in Nat
        /\ Cardinality(Executions) \in Nat
        /\ Cardinality(In("checked")) <= Cardinality(Executions)
    BY InFinite
  <2>3. Counts'
    BY <1>2 DEF NewDay, LimitInv, Counts
  <2> QED
    BY <1>2, <2>1, <2>2, <2>3, Constants DEF NewDay, LimitInv, Counted, Allowance
<1>3. ASSUME NEW c \in Contacts, NEW x \in Executions,
             Request(c, x) \/ Answer(c, x) \/ Unreachable(c, x)
      PROVE  LimitInv'
  BY <1>3, LimitOther DEF Request, Answer, Unreachable, Stages
<1>4. ASSUME NEW x \in Executions, Abandoned(x)
      PROVE  LimitInv'
  BY <1>4, LimitOther DEF Abandoned, Stages
<1>5. ASSUME NEW x \in Executions, Gateway(x) \/ GmailFault(x) \/ LockTimeout(x)
      PROVE  LimitInv'
  BY <1>5, LimitGateway DEF GmailFault, LockTimeout
<1>6. Start \/ Log \/ Publish \/ Crash \/ (\E c \in Contacts, x \in Executions : TimeOut(c, x))
        \/ UNCHANGED vars
        => UNCHANGED <<stage, counter, today, uncounted>>
  BY DEF Start, Log, Publish, Crash, TimeOut, vars, gateway
<1> QED
  BY <1>1, <1>2, <1>3, <1>4, <1>5, <1>6 DEF Next, Job

\* However executions overlap and time out: in a day the gateway creates at
\* most HERMES_DRAFT_MAX_PER_DAY drafts, one more for each other execution
\* that passed enforceDailyLimit side by side, and those it failed to count.
THEOREM LimitKept == Spec => []DailyLimit
<1>1. Init => LimitInv
  BY LimitInit
<1>2. LimitInv /\ [Next]_vars => LimitInv'
  BY LimitStep
<1>3. LimitInv => DailyLimit
  <2> SUFFICES ASSUME LimitInv PROVE DailyLimit
    OBVIOUS
  <2>1. Cardinality(In("checked")) \in Nat /\ Cardinality(Executions) \in Nat
    BY InFinite
  <2> QED
    BY <2>1, Constants DEF LimitInv, Counts, Allowance, DailyLimit
<1> QED
  BY <1>1, <1>2, <1>3, PTL DEF Spec
-----------------------------------------------------------------------------
(* Duplicate drafts.                                                       *)

\* Executions that may still make a draft for a contact.
Open(c) == {x \in Executions : contact[x] = c /\ stage[x] \in {"received", "checked"}}

DraftTypes ==
  /\ stage \in [Executions -> Stages] /\ contact \in [Executions -> Contacts]
  /\ gmail \in [Contacts -> Nat] /\ lost \in [Contacts -> Nat]
  /\ outcome \in [Contacts -> Statuses]
  /\ todo \subseteq Contacts
  /\ point \in {"idle", "loop", "wait", "publish"}

\* While the job waits, the execution it asked is busy with its contact.
AskedInv ==
  \A x \in Executions, c \in Contacts : asked = <<x, c>> =>
    /\ point = "wait" /\ contact[x] = c /\ stage[x] # "free"
    /\ c \notin todo /\ outcome[c] = "none"

\* The job deals with a contact once in a run, and only if it is not drafted.
RunInv ==
  /\ point \in {"loop", "wait"} => \A c \in Contacts :
       /\ c \in todo => outcome[c] = "none"
       /\ c \in todo \/ c \in Waiting \/ outcome[c] # "none" => c \notin Existing
  /\ point = "publish" => \A c \in Contacts :
       outcome[c] # "none" => db[c] = outcome[c] /\ tab[c] # "draft_created"

\* A draft is logged, or its answer is about to be.
Known(c) ==
  \/ c \in Existing \/ c \in Waiting
  \/ point \in {"loop", "wait"} /\ outcome[c] = "draft_created"

\* What is in the mailbox and what may still come into it.
Spent(c) == gmail[c] + Cardinality(Open(c))

DraftsInv ==
  /\ DraftTypes /\ AskedInv /\ RunInv
  /\ \A c \in Contacts : Spent(c) <= lost[c] + (IF Known(c) THEN 1 ELSE 0)
  \* A refusal that the job is told of means that there was no draft.
  /\ \A x \in Executions, c \in Contacts :
       asked = <<x, c>> /\ stage[x] = "refused" => Spent(c) <= lost[c]

\* At the start nothing is drafted or asked.
LEMMA DraftsInit == Init => DraftsInv
<1> SUFFICES ASSUME Init PROVE DraftsInv
  OBVIOUS
<1>1. DraftTypes
  <2>1. (CHOOSE c \in Contacts : TRUE) \in Contacts
    BY OutreachAssumption
  <2>2. Nothing \in [Contacts -> Statuses]
    BY DEF Nothing, Statuses
  <2> QED
    BY <2>1, <2>2 DEF Init, DraftTypes, Stages
<1>2. AskedInv /\ RunInv
  BY DEF Init, AskedInv, RunInv
<1>3. \A c \in Contacts : Cardinality(Open(c)) = 0
  <2>1. \A c \in Contacts : Open(c) = {}
    BY DEF Init, Open
  <2> QED
    BY <2>1, FS_EmptySet
<1>4. \A c \in Contacts : Spent(c) = 0 /\ lost[c] = 0
  BY <1>3 DEF Init, Spent
<1>5. \A x \in Executions, c \in Contacts : asked # <<x, c>>
  BY DEF Init
<1> QED
  BY <1>1, <1>2, <1>4, <1>5 DEF DraftsInv

\* The executions that may still draft are finitely many.
LEMMA OpenFinite ==
  ASSUME NEW c
  PROVE  IsFiniteSet(Open(c)) /\ Cardinality(Open(c)) \in Nat
<1>1. Open(c) \in SUBSET Executions
  BY DEF Open
<1> QED
  BY <1>1, OutreachAssumption, FS_Subset, FS_CardinalityType

\* What becomes of the counts when one execution changes.
LEMMA OpenChange ==
  ASSUME DraftTypes, DraftTypes', NEW x \in Executions, NEW c \in Contacts,
         \A y \in Executions \ {x} : stage'[y] = stage[y] /\ contact'[y] = contact[y]
  PROVE  /\ Cardinality(Open(c)) \in Nat /\ Cardinality(Open(c)') \in Nat
         /\ (x \in Open(c) <=> x \in Open(c)') => Cardinality(Open(c)') = Cardinality(Open(c))
         /\ x \notin Open(c) /\ x \in Open(c)' => Cardinality(Open(c)') = Cardinality(Open(c)) + 1
         /\ x \in Open(c) /\ x \notin Open(c)' => Cardinality(Open(c)') = Cardinality(Open(c)) - 1
<1>1. Open(c)' \ {x} = Open(c) \ {x}
  BY DEF Open
<1> QED
  BY <1>1, OpenFinite, OneMore

\* An execution goes on, or ends without anybody waiting: it only ever turns
\* what may be drafted into a draft, and the job has noticed nothing yet.
LEMMA DraftsGateway ==
  ASSUME DraftsInv, NEW x \in Executions,
         \/ Gateway(x) /\ UNCHANGED <<db, tab, job, lost, faults>>
         \/ GmailFault(x) \/ LockTimeout(x) \/ Abandoned(x)
  PROVE  DraftsInv'
<1>1. /\ DraftTypes /\ AskedInv /\ RunInv
      /\ stage \in [Executions -> Stages] /\ contact \in [Executions -> Contacts]
      /\ gmail \in [Contacts -> Nat] /\ lost \in [Contacts -> Nat]
  BY DEF DraftsInv, DraftTypes
<1>2. UNCHANGED <<db, tab, point, todo, attempted, outcome, asked, contact>>
  BY DEF Gateway, Check, CreateDraft, CreateRaises, Increment, GmailFault, LockTimeout,
           IncrementFails, Abandoned, job
<1>3. DraftTypes'
  <2>1. stage' \in [Executions -> Stages]
    BY <1>1 DEF Gateway, Check, CreateDraft, CreateRaises, Increment, GmailFault, LockTimeout,
           IncrementFails, Abandoned,
                Stages
  <2>2. gmail' \in [Contacts -> Nat] /\ lost' \in [Contacts -> Nat]
    BY <1>1 DEF Gateway, Check, CreateDraft, CreateRaises, Increment, GmailFault, LockTimeout,
           IncrementFails, Abandoned
  <2> QED
    BY <1>1, <1>2, <2>1, <2>2 DEF DraftTypes
<1>4. AskedInv'
  <2>1. \A y \in Executions : stage'[y] = "free" => stage[y] = "free" \/ asked # <<y, contact[y]>>
    BY <1>1 DEF Gateway, Check, CreateDraft, CreateRaises, Increment, GmailFault, LockTimeout,
           IncrementFails, Abandoned
  <2> QED
    BY <1>1, <1>2, <2>1 DEF AskedInv
<1>5. Waiting' = Waiting /\ Existing' = Existing
  BY <1>2 DEF Waiting, Existing
<1>6. RunInv' /\ \A c \in Contacts : Known(c)' = Known(c)
  BY <1>1, <1>2, <1>5 DEF RunInv, Known
<1>7. ASSUME NEW c \in Contacts
      PROVE  /\ Spent(c) \in Nat /\ Spent(c)' \in Nat /\ Spent(c)' <= Spent(c)
             /\ lost[c] \in Nat /\ lost'[c] \in Nat /\ lost[c] <= lost'[c]
             /\ stage'[x] = "refused" /\ stage[x] # "refused" /\ contact[x] = c =>
                  Spent(c)' < Spent(c) \/ lost[c] < lost'[c]
  <2>1. \A y \in Executions \ {x} : stage'[y] = stage[y] /\ contact'[y] = contact[y]
    BY <1>1, <1>2
       DEF Gateway, Check, CreateDraft, CreateRaises, Increment, GmailFault, LockTimeout,
           IncrementFails, Abandoned
  <2>2. /\ Cardinality(Open(c)) \in Nat /\ Cardinality(Open(c)') \in Nat
        /\ (x \in Open(c) <=> x \in Open(c)') => Cardinality(Open(c)') = Cardinality(Open(c))
        /\ x \in Open(c) /\ x \notin Open(c)' => Cardinality(Open(c)') = Cardinality(Open(c)) - 1
    BY <1>1, <1>3, <2>1, OpenChange
  <2>3. /\ x \in Open(c) <=> contact[x] = c /\ stage[x] \in {"received", "checked"}
        /\ x \in Open(c)' <=> contact[x] = c /\ stage'[x] \in {"received", "checked"}
    BY <1>2 DEF Open
  <2>4. CASE Check(x) /\ UNCHANGED <<db, tab, job, lost, faults>>
    <3>1. /\ stage[x] = "received" /\ stage'[x] \in {"checked", "refused"}
          /\ UNCHANGED <<gmail, lost>>
      BY <1>1, <2>4 DEF Check
    <3> QED
      BY <1>1, <2>2, <2>3, <3>1 DEF Spent
  <2>5. CASE CreateDraft(x) /\ UNCHANGED <<db, tab, job, lost, faults>>
    <3>1. /\ stage[x] = "checked" /\ stage'[x] = "created" /\ UNCHANGED lost
          /\ gmail'[c] = IF contact[x] = c THEN gmail[c] + 1 ELSE gmail[c]
      BY <1>1, <2>5 DEF CreateDraft
    <3> QED
      BY <1>1, <2>2, <2>3, <3>1 DEF Spent
  <2>6. CASE Increment(x) /\ UNCHANGED <<db, tab, job, lost, faults>>
    <3>1. stage[x] = "created" /\ stage'[x] = "ok" /\ UNCHANGED <<gmail, lost>>
      BY <1>1, <2>6 DEF Increment
    <3> QED
      BY <1>1, <2>2, <2>3, <3>1 DEF Spent
  <2>7. CASE LockTimeout(x)
    <3>1. /\ stage[x] = "created" /\ stage'[x] = "refused" /\ UNCHANGED gmail
          /\ lost'[c] = IF contact[x] = c THEN lost[c] + 1 ELSE lost[c]
      BY <1>1, <2>7 DEF LockTimeout, IncrementFails
    <3> QED
      BY <1>1, <2>2, <2>3, <3>1 DEF Spent
  <2>8. CASE Abandoned(x)
    <3>1. /\ stage[x] \in {"ok", "refused"} /\ stage'[x] = "free" /\ UNCHANGED <<gmail, lost>>
      BY <1>1, <2>8 DEF Abandoned
    <3> QED
      BY <1>1, <2>2, <2>3, <3>1 DEF Spent
  <2>9. CASE CreateRaises(x) /\ UNCHANGED lost
    <3>1. stage[x] = "checked" /\ stage'[x] = "refused" /\ UNCHANGED <<gmail, lost>>
      BY <1>1, <2>9 DEF CreateRaises
    <3> QED
      BY <1>1, <2>2, <2>3, <3>1 DEF Spent
  <2> QED
    BY <2>4, <2>5, <2>6, <2>7, <2>8, <2>9 DEF Gateway, GmailFault
<1>8. \A c \in Contacts : Spent(c)' <= lost'[c] + (IF Known(c)' THEN 1 ELSE 0)
  BY <1>6, <1>7 DEF DraftsInv
<1>9. ASSUME NEW y \in Executions, NEW c \in Contacts,
             asked' = <<y, c>>, stage'[y] = "refused"
      PROVE  Spent(c)' <= lost'[c]
  <2>1. CASE stage[y] = "refused"
    BY <1>2, <1>7, <1>9, <2>1 DEF DraftsInv
  <2>2. CASE stage[y] # "refused"
    <3>1. y = x
      BY <1>1, <1>9, <2>2
         DEF Gateway, Check, CreateDraft, CreateRaises, Increment, GmailFault, LockTimeout,
           IncrementFails, Abandoned
    <3>2. contact[x] = c
      BY <1>1, <1>2, <1>9, <3>1 DEF AskedInv
    <3>3. Spent(c) <= lost[c] + 1
      BY <1>7 DEF DraftsInv
    <3> QED
      BY <1>7, <1>9, <2>2, <3>1, <3>2, <3>3
  <2> QED
    BY <2>1, <2>2
<1> QED
  BY <1>3, <1>4, <1>6, <1>8, <1>9 DEF DraftsInv

\* A step that leaves the gateway alone: what nobody knows of was known to be
\* lost when it got forgotten.
LEMMA DraftsForgotten ==
  ASSUME DraftsInv, UNCHANGED <<stage, contact, gmail>>,
         DraftTypes', AskedInv', RunInv',
         \A c \in Contacts :
           \/ lost'[c] = lost[c] /\ (Known(c) => Known(c)')
           \/ lost'[c] = lost[c] + 1,
         asked' # asked => asked' = <<>>
  PROVE  DraftsInv'
<1>1. \A c \in Contacts : Open(c)' = Open(c) /\ Spent(c)' = Spent(c)
  BY DEF Open, Spent
<1>2. \A c \in Contacts : lost[c] \in Nat /\ Spent(c) \in Nat
  BY OpenFinite DEF DraftsInv, DraftTypes, Spent
<1>3. \A c \in Contacts : Spent(c)' <= lost'[c] + (IF Known(c)' THEN 1 ELSE 0)
  BY <1>1, <1>2 DEF DraftsInv
<1>4. \A x \in Executions, c \in Contacts :
        asked' = <<x, c>> /\ stage'[x] = "refused" => Spent(c)' <= lost'[c]
  BY <1>1, <1>2 DEF DraftsInv
<1> QED
  BY <1>3, <1>4 DEF DraftsInv

\* A run begins, ends, or dies; an answer comes too late; a day passes.
LEMMA DraftsRun ==
  ASSUME DraftsInv,
         \/ Start \/ Log \/ Publish \/ Crash \/ NewDay
         \/ \E c \in Contacts, x \in Executions : TimeOut(c, x)
  PROVE  DraftsInv'
<1>1. /\ DraftTypes /\ AskedInv /\ RunInv
      /\ outcome \in [Contacts -> Statuses] /\ lost \in [Contacts -> Nat]
  BY DEF DraftsInv, DraftTypes
<1>2. Nothing \in [Contacts -> Statuses] /\ \A c \in Contacts : Nothing[c] = "none"
  BY DEF Nothing, Statuses
<1>3. point # "wait" => Waiting = {}
  BY <1>1 DEF AskedInv, Waiting
<1>4. CASE Start
  <2>1. DraftTypes' /\ AskedInv'
    BY <1>1, <1>2, <1>4 DEF Start, DraftTypes, AskedInv, gateway
  <2>2. Waiting' = {} /\ Existing' = Existing
    BY <1>3, <1>4 DEF Start, Waiting, Existing
  <2>3. RunInv'
    BY <1>2, <1>4, <2>2 DEF Start, RunInv
  <2>4. \A c \in Contacts : lost'[c] = lost[c] /\ (Known(c) => Known(c)')
    BY <1>3, <1>4, <2>2 DEF Start, Known
  <2> QED
    BY <1>4, <2>1, <2>3, <2>4, DraftsForgotten DEF Start, gateway
<1>5. CASE Log
  <2>1. DraftTypes' /\ AskedInv'
    BY <1>1, <1>5 DEF Log, DraftTypes, AskedInv, gateway
  <2>2. Waiting = {}
    BY <1>3, <1>5 DEF Log
  <2>3. RunInv'
    BY <1>1, <1>5 DEF Log, RunInv, Existing
  <2>4. \A c \in Contacts : lost'[c] = lost[c] /\ (Known(c) => Known(c)')
    BY <1>1, <1>5, <2>2 DEF Log, Known, Existing, RunInv
  <2> QED
    BY <1>5, <2>1, <2>3, <2>4, DraftsForgotten DEF Log, gateway
<1>6. CASE Publish
  <2>1. DraftTypes' /\ AskedInv'
    BY <1>1, <1>6 DEF Publish, DraftTypes, AskedInv, gateway
  <2>2. Waiting = {}
    BY <1>3, <1>6 DEF Publish
  <2>3. RunInv'
    BY <1>6 DEF Publish, RunInv
  <2>4. \A c \in Contacts : lost'[c] = lost[c] /\ (Known(c) => Known(c)')
    BY <1>1, <1>6, <2>2 DEF Publish, Known, Existing, RunInv
  <2> QED
    BY <1>6, <2>1, <2>3, <2>4, DraftsForgotten DEF Publish, gateway
<1>7. CASE Crash
  <2>1. /\ lost' = [c \in Contacts |->
             IF c \in Waiting \/ (point \in {"loop", "wait"} /\ outcome[c] = "draft_created")
               THEN lost[c] + 1 ELSE lost[c]]
        /\ UNCHANGED <<db, tab, stage, contact, gmail>> /\ point' = "idle"
        /\ asked' = <<>> /\ outcome' = Nothing /\ todo' = {}
    BY <1>7 DEF Crash, gateway
  <2>2. DraftTypes'
    BY <1>1, <1>2, <2>1 DEF DraftTypes
  <2>3. AskedInv' /\ RunInv'
    BY <2>1 DEF AskedInv, RunInv
  <2>4. \A c \in Contacts : \/ lost'[c] = lost[c] /\ (Known(c) => Known(c)')
                           \/ lost'[c] = lost[c] + 1
    BY <2>1 DEF Known, Existing
  <2> QED
    BY <2>1, <2>2, <2>3, <2>4, DraftsForgotten
<1>8. CASE NewDay
  <2>1. UNCHANGED <<db, tab, point, todo, outcome, asked, stage, contact, gmail, lost>>
    BY <1>8 DEF NewDay, job
  <2>2. DraftTypes' /\ AskedInv' /\ RunInv'
    BY <1>1, <2>1 DEF DraftTypes, AskedInv, RunInv, Waiting, Existing
  <2>3. \A c \in Contacts : lost'[c] = lost[c] /\ (Known(c) => Known(c)')
    BY <2>1 DEF Known, Waiting, Existing
  <2> QED
    BY <2>1, <2>2, <2>3, DraftsForgotten
<1>9. CASE \E c \in Contacts, x \in Executions : TimeOut(c, x)
  <2>1. PICK d \in Contacts, x \in Executions : TimeOut(d, x)
    BY <1>9
  <2>2. /\ asked = <<x, d>> /\ asked' = <<>> /\ point' = "loop"
        /\ lost' = [lost EXCEPT ![d] = @ + 1] /\ outcome' = [outcome EXCEPT ![d] = "error"]
        /\ UNCHANGED <<db, tab, todo, stage, contact, gmail>>
    BY <2>1 DEF TimeOut, Resume, gateway
  <2>3. Waiting = {d} /\ Waiting' = {} /\ point = "wait" /\ d \notin todo
    BY <1>1, <2>2 DEF Waiting, AskedInv
  <2>4. DraftTypes'
    BY <1>1, <2>2 DEF DraftTypes, Statuses
  <2>5. AskedInv'
    BY <2>2 DEF AskedInv
  <2>6. RunInv'
    BY <1>1, <2>2, <2>3 DEF RunInv, Existing
  <2>7. \A c \in Contacts : \/ lost'[c] = lost[c] /\ (Known(c) => Known(c)')
                           \/ lost'[c] = lost[c] + 1
    BY <1>1, <2>2, <2>3 DEF Known, Existing
  <2> QED
    BY <2>2, <2>4, <2>5, <2>6, <2>7, DraftsForgotten
<1> QED
  BY <1>4, <1>5, <1>6, <1>7, <1>8, <1>9

\* The job asks for a draft of a contact that has none and none to come.
LEMMA DraftsRequest ==
  ASSUME DraftsInv, NEW d \in Contacts, NEW x \in Executions, Request(d, x)
  PROVE  DraftsInv'
<1>1. /\ DraftTypes /\ AskedInv /\ RunInv
      /\ stage \in [Executions -> Stages] /\ contact \in [Executions -> Contacts]
  BY DEF DraftsInv, DraftTypes
<1>2. /\ point = "loop" /\ point' = "wait" /\ d \in todo /\ todo' = todo \ {d}
      /\ stage[x] = "free" /\ asked' = <<x, d>>
      /\ stage' = [stage EXCEPT ![x] = "received"] /\ contact' = [contact EXCEPT ![x] = d]
      /\ UNCHANGED <<db, tab, outcome, gmail, lost>>
  BY DEF Request
<1>3. DraftTypes'
  BY <1>1, <1>2 DEF DraftTypes, Stages
<1>4. Waiting = {} /\ Waiting' = {d} /\ Existing' = Existing
  BY <1>1, <1>2 DEF Waiting, AskedInv, Existing
<1>5. outcome[d] = "none" /\ d \notin Existing
  BY <1>1, <1>2 DEF RunInv
<1>6. AskedInv'
  BY <1>1, <1>2, <1>5 DEF AskedInv
<1>7. RunInv'
  BY <1>1, <1>2, <1>4, <1>5 DEF RunInv
<1>8. ASSUME NEW c \in Contacts
      PROVE  Spent(c)' <= lost'[c] + (IF Known(c)' THEN 1 ELSE 0)
  <2>1. /\ Cardinality(Open(c)) \in Nat /\ Cardinality(Open(c)') \in Nat
        /\ (x \in Open(c) <=> x \in Open(c)') => Cardinality(Open(c)') = Cardinality(Open(c))
        /\ x \notin Open(c) /\ x \in Open(c)' => Cardinality(Open(c)') = Cardinality(Open(c)) + 1
    BY <1>1, <1>2, <1>3, OpenChange
  <2>2. x \notin Open(c) /\ (x \in Open(c)' <=> c = d)
    BY <1>1, <1>2 DEF Open
  <2>3. Spent(c) <= lost[c] + (IF Known(c) THEN 1 ELSE 0)
    BY DEF DraftsInv
  <2>4. gmail[c] \in Nat /\ lost[c] \in Nat
    BY <1>1 DEF DraftTypes
  <2>5. ~Known(d) /\ Known(d)' /\ (c # d => Known(c)' = Known(c))
    BY <1>2, <1>4, <1>5 DEF Known
  <2> QED
    BY <1>2, <2>1, <2>2, <2>3, <2>4, <2>5 DEF Spent
<1>9. \A y \in Executions, c \in Contacts : asked' = <<y, c>> => stage'[y] # "refused"
  BY <1>1, <1>2
<1> QED
  BY <1>3, <1>6, <1>7, <1>8, <1>9 DEF DraftsInv

\* The job gets its answer, or learns that the request did not arrive.
LEMMA DraftsAnswer ==
  ASSUME DraftsInv, NEW d \in Contacts, NEW x \in Executions, Answer(d, x) \/ Unreachable(d, x)
  PROVE  DraftsInv'
<1>1. /\ DraftTypes /\ AskedInv /\ RunInv
      /\ stage \in [Executions -> Stages] /\ outcome \in [Contacts -> Statuses]
  BY DEF DraftsInv, DraftTypes
<1>2. /\ asked = <<x, d>> /\ asked' = <<>> /\ point' = "loop"
      /\ stage' = [stage EXCEPT ![x] = "free"]
      /\ stage[x] \in {"ok", "refused", "received"}
      /\ outcome' = [outcome EXCEPT ![d] = IF stage[x] = "ok" THEN "draft_created" ELSE "error"]
      /\ UNCHANGED <<db, tab, todo, contact, gmail, lost>>
  BY DEF Answer, Unreachable, Resume
<1>3. Waiting = {d} /\ Waiting' = {} /\ Existing' = Existing
  BY <1>2 DEF Waiting, Existing
<1>4. point = "wait" /\ contact[x] = d /\ d \notin todo /\ outcome[d] = "none" /\ d \notin Existing
  <2>1. point = "wait" /\ contact[x] = d /\ d \notin todo /\ outcome[d] = "none"
    BY <1>1, <1>2 DEF AskedInv
  <2> QED
    BY <1>1, <1>3, <2>1 DEF RunInv
<1>5. DraftTypes'
  BY <1>1, <1>2 DEF DraftTypes, Stages, Statuses
<1>6. AskedInv'
  BY <1>2 DEF AskedInv
<1>7. RunInv'
  BY <1>1, <1>2, <1>3, <1>4 DEF RunInv
<1>8. ASSUME NEW c \in Contacts
      PROVE  Spent(c)' <= lost'[c] + (IF Known(c)' THEN 1 ELSE 0)
  <2>1. /\ Cardinality(Open(c)) \in Nat /\ Cardinality(Open(c)') \in Nat
        /\ (x \in Open(c) <=> x \in Open(c)') => Cardinality(Open(c)') = Cardinality(Open(c))
        /\ x \in Open(c) /\ x \notin Open(c)' => Cardinality(Open(c)') = Cardinality(Open(c)) - 1
    BY <1>1, <1>2, <1>5, OpenChange
  <2>2. x \notin Open(c)' /\ (x \in Open(c) <=> c = d /\ stage[x] = "received")
    BY <1>1, <1>2, <1>4 DEF Open
  <2>3. /\ Spent(c) <= lost[c] + (IF Known(c) THEN 1 ELSE 0)
        /\ c = d /\ stage[x] = "refused" => Spent(c) <= lost[c]
    BY <1>2 DEF DraftsInv
  <2>4. gmail[c] \in Nat /\ lost[c] \in Nat
    BY <1>1 DEF DraftTypes
  <2>5. /\ c # d => Known(c)' = Known(c)
        /\ stage[x] = "ok" => Known(d)'
    BY <1>1, <1>2, <1>3, <1>4 DEF Known
  <2>6. CASE c # d
    BY <1>2, <2>1, <2>2, <2>3, <2>4, <2>5, <2>6 DEF Spent
  <2>7. CASE c = d
    BY <1>2, <2>1, <2>2, <2>3, <2>4, <2>5, <2>7 DEF Spent
  <2> QED
    BY <2>6, <2>7
<1>9. \A y \in Executions, c \in Contacts : asked' # <<y, c>>
  BY <1>2
<1> QED
  BY <1>5, <1>6, <1>7, <1>8, <1>9 DEF DraftsInv

\* The invariant holds of every step.
LEMMA DraftsStep ==
  ASSUME DraftsInv, [Next]_vars
  PROVE  DraftsInv'
<1>1. CASE UNCHANGED vars
  <2>1. UNCHANGED <<db, tab, point, todo, outcome, asked, stage, contact, gmail, lost>>
    BY <1>1 DEF vars, job, gateway
  <2>2. DraftTypes' /\ AskedInv' /\ RunInv'
    BY <2>1 DEF DraftsInv, DraftTypes, AskedInv, RunInv, Waiting, Existing
  <2>3. \A c \in Contacts : lost'[c] = lost[c] /\ (Known(c) => Known(c)')
    BY <2>1 DEF Known, Waiting, Existing
  <2> QED
    BY <2>1, <2>2, <2>3, DraftsForgotten
<1>2. CASE Next
  BY <1>2, DraftsGateway, DraftsRun, DraftsRequest, DraftsAnswer DEF Next, Job
<1> QED
  BY <1>1, <1>2

\* draft_outreach_emails has a second draft made for a contact only if the
\* answer about an earlier one was lost on its way into the table, and no more
\* of them than that happened.
THEOREM NoDuplicateWithoutCause == Spec => []DuplicatesHaveACause
<1>1. Init => DraftsInv
  BY DraftsInit
<1>2. DraftsInv /\ [Next]_vars => DraftsInv'
  BY DraftsStep
<1>3. DraftsInv => DuplicatesHaveACause
  <2> SUFFICES ASSUME DraftsInv, NEW c \in Contacts PROVE gmail[c] <= 1 + lost[c]
    BY DEF DuplicatesHaveACause
  <2>1. gmail[c] \in Nat /\ lost[c] \in Nat /\ Cardinality(Open(c)) \in Nat
    BY OpenFinite DEF DraftsInv, DraftTypes
  <2> QED
    BY <2>1 DEF DraftsInv, Spent
<1> QED
  BY <1>1, <1>2, <1>3, PTL DEF Spec
-----------------------------------------------------------------------------
(* The batches of InvestorDb: whom a day's cycles get to.                  *)

\* Induction, for a set of numbers.
LEMMA Induction ==
  ASSUME NEW T, 0 \in T, \A k \in Nat : k \in T => k + 1 \in T
  PROVE  Nat \subseteq T
<1> DEFINE R == {xy \in Nat \X Nat : xy[1] < xy[2]}
<1> SUFFICES ASSUME Nat \ T # {} PROVE FALSE
  OBVIOUS
<1>1. IsWellFoundedOn(R, Nat)
  BY NatLessThanWellFounded DEF OpToRel
<1>2. PICK k \in Nat \ T : \A y \in Nat \ T : <<y, k>> \notin R
  <2> HIDE DEF R
  <2> QED
    BY <1>1, WFMin
<1>3. k \in Nat /\ k # 0
  BY <1>2
<1>4. k - 1 \in Nat /\ <<k - 1, k>> \in R
  BY <1>3
<1>5. k - 1 \in T /\ (k - 1) + 1 = k
  BY <1>2, <1>3, <1>4
<1> QED
  BY <1>2, <1>4, <1>5

\* What is before x in R, and what has less than n before it.
Ahead(S, R, x)  == {y \in S : y # x /\ <<y, x>> \in R}
Leading(S, R, n) == {x \in S : Cardinality(Ahead(S, R, x)) < n}

\* Of a finite set in a strict order at least n lead, if it has so many.
LEMMA LeadersSuffice ==
  ASSUME NEW S, IsFiniteSet(S), NEW R,
         \A x \in S : <<x, x>> \notin R,
         \A x, y, z \in S : <<x, y>> \in R /\ <<y, z>> \in R => <<x, z>> \in R,
         NEW n \in Nat, n <= Cardinality(S)
  PROVE  IsFiniteSet(Leading(S, R, n)) /\ Cardinality(Leading(S, R, n)) >= n
<1>1. \A k : Leading(S, R, k) \in SUBSET S
  BY DEF Leading
<1>2. \A x : Ahead(S, R, x) \in SUBSET S
  BY DEF Ahead
<1>3. \A k : IsFiniteSet(Leading(S, R, k)) /\ Cardinality(Leading(S, R, k)) \in Nat
  BY <1>1, FS_Subset, FS_CardinalityType
<1>4. \A x : IsFiniteSet(Ahead(S, R, x)) /\ Cardinality(Ahead(S, R, x)) \in Nat
  BY <1>2, FS_Subset, FS_CardinalityType
<1>5. Cardinality(S) \in Nat
  BY FS_CardinalityType
<1> DEFINE T == {k \in Nat : k <= Cardinality(S) => Cardinality(Leading(S, R, k)) >= k}
<1>6. 0 \in T
  BY <1>3
<1>7. ASSUME NEW k \in Nat, k \in T PROVE k + 1 \in T
  <2> SUFFICES ASSUME k + 1 <= Cardinality(S) PROVE Cardinality(Leading(S, R, k + 1)) >= k + 1
    BY <1>5
  <2>1. Cardinality(Leading(S, R, k)) >= k
    BY <1>5, <1>7
  <2>2. Leading(S, R, k) \in SUBSET Leading(S, R, k + 1)
    BY <1>4 DEF Leading
  <2>3. Cardinality(Leading(S, R, k)) <= Cardinality(Leading(S, R, k + 1))
    BY <1>3, <2>2, FS_Subset
  <2>4. CASE Cardinality(Leading(S, R, k)) >= k + 1
    BY <1>3, <2>3, <2>4
  <2>5. CASE Cardinality(Leading(S, R, k)) = k
    <3>1. Leading(S, R, k) # S
      BY <1>5, <2>5
    <3>2. PICK z \in S : z \notin Leading(S, R, k)
      BY <1>1, <3>1
    <3> DEFINE Lengths == {c \in Nat : \E x \in S \ Leading(S, R, k) : Cardinality(Ahead(S, R, x)) = c}
               Less == {xy \in Nat \X Nat : xy[1] < xy[2]}
    <3>3. IsWellFoundedOn(Less, Nat)
      BY NatLessThanWellFounded DEF OpToRel
    <3>4. Lengths \subseteq Nat /\ Lengths # {}
      BY <1>4, <3>2
    <3>5. PICK c \in Lengths : \A d \in Lengths : <<d, c>> \notin Less
      <4> HIDE DEF Less, Lengths
      <4> QED
        BY <3>3, <3>4, WFMin
    <3>6. PICK x \in S \ Leading(S, R, k) : Cardinality(Ahead(S, R, x)) = c
      BY <3>5
    <3>7. \A y \in S \ Leading(S, R, k) : Cardinality(Ahead(S, R, y)) >= c
      <4> SUFFICES ASSUME NEW y \in S \ Leading(S, R, k) PROVE Cardinality(Ahead(S, R, y)) >= c
        OBVIOUS
      <4>1. Cardinality(Ahead(S, R, y)) \in Lengths /\ c \in Nat
        BY <1>4, <3>5
      <4>2. <<Cardinality(Ahead(S, R, y)), c>> \notin Less
        BY <3>5, <4>1
      <4> QED
        BY <1>4, <4>1, <4>2
    <3>8. ASSUME NEW y \in Ahead(S, R, x) PROVE y \in Leading(S, R, k)
      <4>1. y \in S /\ <<y, x>> \in R /\ y # x
        BY DEF Ahead
      <4>2. Ahead(S, R, y) \in SUBSET Ahead(S, R, x)
        BY <3>6, <4>1 DEF Ahead
      <4>3. y \notin Ahead(S, R, y)
        BY DEF Ahead
      <4>4. Cardinality(Ahead(S, R, y)) <= Cardinality(Ahead(S, R, x))
            /\ Cardinality(Ahead(S, R, y)) # Cardinality(Ahead(S, R, x))
        BY <1>4, <4>2, <4>3, FS_Subset
      <4> QED
        BY <1>4, <3>6, <3>7, <4>1, <4>4
    <3>9. Cardinality(Ahead(S, R, x)) <= k
      <4>1. Ahead(S, R, x) \in SUBSET Leading(S, R, k)
        BY <3>8
      <4> QED
        BY <1>3, <2>5, <4>1, FS_Subset
    <3>10. x \in Leading(S, R, k + 1)
      BY <1>4, <3>6, <3>9 DEF Leading
    <3>11. Leading(S, R, k) # Leading(S, R, k + 1)
      BY <3>6, <3>10
    <3>12. Cardinality(Leading(S, R, k)) # Cardinality(Leading(S, R, k + 1))
      BY <1>3, <2>2, <3>11, FS_Subset
    <3> QED
      BY <1>3, <2>3, <2>5, <3>12
  <2> QED
    BY <1>3, <2>1, <2>4, <2>5
<1>8. Nat \subseteq T
  <2> HIDE DEF T
  <2> QED
    BY <1>6, <1>7, Induction
<1> QED
  BY <1>3, <1>8

\* All of a finite set lead, or as many as a batch holds.
LEMMA Batched ==
  ASSUME NEW S, IsFiniteSet(S), NEW R,
         \A x \in S : <<x, x>> \notin R,
         \A x, y, z \in S : <<x, y>> \in R /\ <<y, z>> \in R => <<x, z>> \in R
  PROVE  /\ Leading(S, R, BatchLimit) \subseteq S
         /\ Leading(S, R, BatchLimit) = S \/ Cardinality(Leading(S, R, BatchLimit)) >= BatchLimit
<1>1. Cardinality(S) \in Nat /\ BatchLimit \in Nat
  BY FS_CardinalityType, InvestorDbAssumption
<1>2. CASE BatchLimit <= Cardinality(S)
  BY <1>1, <1>2, LeadersSuffice DEF Leading
<1>3. CASE Cardinality(S) < BatchLimit
  <2>1. ASSUME NEW x \in S PROVE Cardinality(Ahead(S, R, x)) < BatchLimit
    <3>1. Ahead(S, R, x) \in SUBSET S
      BY DEF Ahead
    <3>2. Cardinality(Ahead(S, R, x)) <= Cardinality(S) /\ Cardinality(Ahead(S, R, x)) \in Nat
      BY <3>1, FS_Subset, FS_CardinalityType
    <3> QED
      BY <1>1, <1>3, <3>2
  <2> QED
    BY <2>1 DEF Leading
<1> QED
  BY <1>1, <1>2, <1>3 DEF Leading

\* There are finitely many funds, identifiers and managers.
LEMMA Countable ==
  /\ IsFiniteSet(Ids) /\ Cardinality(Ids) \in Nat
  /\ IsFiniteSet(Managers) /\ Cardinality(Managers) \in Nat
<1> DEFINE Fs == ToSet(Funds)
           Ex == {Expiry[f] : f \in Fs}
<1>1. IsFiniteSet(Fs)
  <2>1. Funds \in Surjection(1..Len(Funds), Fs)
    <3>1. Funds \in Seq(STRING)
      BY InvestorDbAssumption
    <3>2. DOMAIN Funds = 1..Len(Funds) /\ Funds = [k \in 1..Len(Funds) |-> Funds[k]]
      BY <3>1
    <3>3. Fs = {Funds[k] : k \in 1..Len(Funds)}
      BY <3>2 DEF ToSet
    <3> HIDE DEF Fs
    <3> QED
      BY <3>2, <3>3 DEF Surjection
  <2>2. IsFiniteSet(1..Len(Funds))
    BY InvestorDbAssumption, FS_Interval
  <2> QED
    BY <2>1, <2>2, FS_Surjection
<1>2. IsFiniteSet(Ex)
  <2>1. Expiry \in Surjection(Fs, Ex)
    BY InvestorDbAssumption DEF Surjection
  <2> HIDE DEF Ex, Fs
  <2> QED
    BY <1>1, <2>1, FS_Surjection
<1>3. IsFiniteSet(Managers)
  <2>1. ManagerOf \in Surjection(Fs, Managers)
    BY InvestorDbAssumption DEF Surjection, Managers
  <2> HIDE DEF Fs
  <2> QED
    BY <1>1, <2>1, FS_Surjection
<1>4. IsFiniteSet(Ex \union {LaterExpiry})
  BY <1>2, FS_AddElement
<1>5. IsFiniteSet(Fs \X (Ex \union {LaterExpiry}))
  <2> HIDE DEF Ex, Fs
  <2> QED
    BY <1>1, <1>4, FS_Product
<1>6. Ids = Fs \X (Ex \union {LaterExpiry})
  BY DEF Ids
<1> QED
  BY <1>3, <1>5, <1>6, FS_CardinalityType

FundRow(row)    == row.active \in BOOLEAN
ManagerRow(row) == row.active \in Nat

\* Funds come before each other in a strict order,
LEMMA FundOrder ==
  ASSUME NEW rows, DOMAIN rows \subseteq Ids, \A id \in DOMAIN rows : FundRow(rows[id])
  PROVE  /\ \A a \in DOMAIN rows : ~FundBefore(rows, a, a)
         /\ \A a, b, c \in DOMAIN rows :
              FundBefore(rows, a, b) /\ FundBefore(rows, b, c) => FundBefore(rows, a, c)
<1> DEFINE Ord(a, b) == \E i, j \in DOMAIN Funds : Funds[i] = a[1] /\ Funds[j] = b[1] /\ i < j
<1>1. \A i, j \in DOMAIN Funds : Funds[i] = Funds[j] => i = j
  BY InvestorDbAssumption
<1>2. DOMAIN Funds \subseteq Nat
  BY InvestorDbAssumption
<1>3. \A a : ~Ord(a, a)
  BY <1>1, <1>2
<1>4. \A a, b, c : Ord(a, b) /\ Ord(b, c) => Ord(a, c)
  <2> SUFFICES ASSUME NEW a, NEW b, NEW c, Ord(a, b), Ord(b, c) PROVE Ord(a, c)
    OBVIOUS
  <2>1. PICK i, j \in DOMAIN Funds : Funds[i] = a[1] /\ Funds[j] = b[1] /\ i < j
    OBVIOUS
  <2>2. PICK k, l \in DOMAIN Funds : Funds[k] = b[1] /\ Funds[l] = c[1] /\ k < l
    OBVIOUS
  <2>3. j = k /\ i < l
    BY <1>1, <1>2, <2>1, <2>2
  <2> QED
    BY <2>1, <2>2, <2>3
<1>5. \A a \in Ids : a[2] \in Nat
  BY InvestorDbAssumption DEF Ids
<1>6. \A a, b : FundBefore(rows, a, b) <=>
        IF rows[a].active # rows[b].active THEN rows[a].active
        ELSE IF a[2] # b[2] THEN a[2] < b[2] ELSE Ord(a, b)
  BY DEF FundBefore
<1> HIDE DEF Ord
<1>7. \A a \in DOMAIN rows : a[2] \in Nat /\ rows[a].active \in BOOLEAN
  BY <1>5 DEF FundRow
<1>8. \A a \in DOMAIN rows : ~FundBefore(rows, a, a)
  BY <1>3, <1>6
<1>9. ASSUME NEW a \in DOMAIN rows, NEW b \in DOMAIN rows, NEW c \in DOMAIN rows,
             FundBefore(rows, a, b), FundBefore(rows, b, c)
      PROVE  FundBefore(rows, a, c)
  <2> DEFINE A == rows[a].active
             B == rows[b].active
             C == rows[c].active
  <2>1. A \in BOOLEAN /\ B \in BOOLEAN /\ C \in BOOLEAN /\ a[2] \in Nat /\ b[2] \in Nat /\ c[2] \in Nat
    BY <1>7
  <2>2. IF A # B THEN A ELSE IF a[2] # b[2] THEN a[2] < b[2] ELSE Ord(a, b)
    BY <1>6, <1>9
  <2>3. IF B # C THEN B ELSE IF b[2] # c[2] THEN b[2] < c[2] ELSE Ord(b, c)
    BY <1>6, <1>9
  <2> SUFFICES IF A # C THEN A ELSE IF a[2] # c[2] THEN a[2] < c[2] ELSE Ord(a, c)
    BY <1>6
  <2> HIDE DEF A, B, C
  <2>4. Ord(a, b) /\ Ord(b, c) => Ord(a, c)
    BY <1>4
  <2> QED
    BY <2>1, <2>2, <2>3, <2>4
<1> QED
  BY <1>8, <1>9

\* and so do managers.
ManagerBefore(rows, a, b) ==
  IF rows[a].active # rows[b].active THEN rows[a].active > rows[b].active
  ELSE \E i \in DOMAIN Funds : ManagerOf[Funds[i]] = a
         /\ \A j \in DOMAIN Funds : ManagerOf[Funds[j]] = b => i < j

LEMMA ManagerOrder ==
  ASSUME NEW rows, DOMAIN rows \subseteq Managers, \A m \in DOMAIN rows : ManagerRow(rows[m])
  PROVE  /\ \A a \in DOMAIN rows : ~ManagerBefore(rows, a, a)
         /\ \A a, b, c \in DOMAIN rows :
              ManagerBefore(rows, a, b) /\ ManagerBefore(rows, b, c) => ManagerBefore(rows, a, c)
<1> DEFINE Ord(a, b) == \E i \in DOMAIN Funds : ManagerOf[Funds[i]] = a
                          /\ \A j \in DOMAIN Funds : ManagerOf[Funds[j]] = b => i < j
<1>1. DOMAIN Funds \subseteq Nat
  BY InvestorDbAssumption
<1>2. \A a : ~Ord(a, a)
  BY <1>1
<1>3. \A a, b, c : Ord(a, b) /\ Ord(b, c) => Ord(a, c)
  <2> HIDE DEF Ord
  <2> SUFFICES ASSUME NEW a, NEW b, NEW c, Ord(a, b), Ord(b, c) PROVE Ord(a, c)
    OBVIOUS
  <2> USE DEF Ord
  <2>1. PICK i \in DOMAIN Funds : ManagerOf[Funds[i]] = a
          /\ \A j \in DOMAIN Funds : ManagerOf[Funds[j]] = b => i < j
    OBVIOUS
  <2>2. PICK k \in DOMAIN Funds : ManagerOf[Funds[k]] = b
          /\ \A j \in DOMAIN Funds : ManagerOf[Funds[j]] = c => k < j
    OBVIOUS
  <2>3. \A j \in DOMAIN Funds : ManagerOf[Funds[j]] = c => i < j
    BY <1>1, <2>1, <2>2
  <2> QED
    BY <2>1, <2>3
<1>4. \A a, b : ManagerBefore(rows, a, b) <=>
        IF rows[a].active # rows[b].active THEN rows[a].active > rows[b].active ELSE Ord(a, b)
  BY DEF ManagerBefore
<1> HIDE DEF Ord
<1>5. \A a \in DOMAIN rows : ~ManagerBefore(rows, a, a)
  BY <1>2, <1>4
<1>6. ASSUME NEW a \in DOMAIN rows, NEW b \in DOMAIN rows, NEW c \in DOMAIN rows,
             ManagerBefore(rows, a, b), ManagerBefore(rows, b, c)
      PROVE  ManagerBefore(rows, a, c)
  <2>1. rows[a].active \in Nat /\ rows[b].active \in Nat /\ rows[c].active \in Nat
    BY DEF ManagerRow
  <2>2. Ord(a, b) /\ Ord(b, c) => Ord(a, c)
    BY <1>3
  <2> QED
    BY <1>4, <1>6, <2>1, <2>2
<1> QED
  BY <1>5, <1>6

\* A batch of funds has all that are due, or as many as it holds,
LEMMA FundsBatch ==
  ASSUME NEW rows, DOMAIN rows \subseteq Ids, \A id \in DOMAIN rows : FundRow(rows[id]), NEW at
  PROVE  LET due == {id \in DOMAIN rows : DescriptionIsDue(id, at)}
             batch == FundsToDescribe(rows, at)
         IN  /\ batch \subseteq due /\ IsFiniteSet(due)
             /\ batch = due \/ Cardinality(batch) >= BatchLimit
<1> DEFINE S == {id \in DOMAIN rows : DescriptionIsDue(id, at)}
           R == {ab \in S \X S : FundBefore(rows, ab[1], ab[2])}
<1>1. IsFiniteSet(S)
  <2>1. S \in SUBSET Ids
    OBVIOUS
  <2> QED
    BY <2>1, Countable, FS_Subset
<1>2. \A x \in S : <<x, x>> \notin R
  BY FundOrder
<1>3. \A x, y, z \in S : <<x, y>> \in R /\ <<y, z>> \in R => <<x, z>> \in R
  <2> SUFFICES ASSUME NEW x \in S, NEW y \in S, NEW z \in S, <<x, y>> \in R, <<y, z>> \in R
               PROVE  <<x, z>> \in R
    OBVIOUS
  <2>1. FundBefore(rows, x, y) /\ FundBefore(rows, y, z)
    OBVIOUS
  <2>2. x \in DOMAIN rows /\ y \in DOMAIN rows /\ z \in DOMAIN rows
    OBVIOUS
  <2>3. FundBefore(rows, x, z)
    BY <2>1, <2>2, FundOrder
  <2> QED
    BY <2>3
<1>4. FundsToDescribe(rows, at) = Leading(S, R, BatchLimit)
  <2>1. \A x \in S : {y \in S : y # x /\ FundBefore(rows, y, x)} = Ahead(S, R, x)
    BY DEF Ahead
  <2> HIDE DEF R
  <2> QED
    BY <2>1 DEF FundsToDescribe, FirstBatch, Leading
<1> HIDE DEF R
<1>5. /\ Leading(S, R, BatchLimit) \subseteq S
      /\ Leading(S, R, BatchLimit) = S \/ Cardinality(Leading(S, R, BatchLimit)) >= BatchLimit
  <2> HIDE DEF S
  <2> QED
    BY <1>1, <1>2, <1>3, Batched
<1> QED
  BY <1>1, <1>4, <1>5

\* and so does one of investors.
LEMMA InvestorsBatch ==
  ASSUME DOMAIN managers \subseteq Managers, \A m \in DOMAIN managers : ManagerRow(managers[m]), NEW at
  PROVE  LET due == {m \in DOMAIN managers : ProfileIsDue(m, at)}
             batch == InvestorsToResearch(at)
         IN  /\ batch \subseteq due /\ IsFiniteSet(due)
             /\ batch = due \/ Cardinality(batch) >= BatchLimit
<1> DEFINE S == {m \in DOMAIN managers : ProfileIsDue(m, at)}
           R == {ab \in S \X S : ManagerBefore(managers, ab[1], ab[2])}
<1>1. IsFiniteSet(S)
  <2>1. S \in SUBSET Managers
    OBVIOUS
  <2> QED
    BY <2>1, Countable, FS_Subset
<1>2. \A x \in S : <<x, x>> \notin R
  BY ManagerOrder
<1>3. \A x, y, z \in S : <<x, y>> \in R /\ <<y, z>> \in R => <<x, z>> \in R
  <2> SUFFICES ASSUME NEW x \in S, NEW y \in S, NEW z \in S, <<x, y>> \in R, <<y, z>> \in R
               PROVE  <<x, z>> \in R
    OBVIOUS
  <2>1. ManagerBefore(managers, x, y) /\ ManagerBefore(managers, y, z)
    OBVIOUS
  <2>2. x \in DOMAIN managers /\ y \in DOMAIN managers /\ z \in DOMAIN managers
    OBVIOUS
  <2>3. ManagerBefore(managers, x, z)
    BY <2>1, <2>2, ManagerOrder
  <2> QED
    BY <2>3
<1>4. InvestorsToResearch(at) = Leading(S, R, BatchLimit)
  <2>1. \A x \in S : {y \in S : y # x /\ ManagerBefore(managers, y, x)} = Ahead(S, R, x)
    BY DEF Ahead
  <2> HIDE DEF R
  <2> QED
    BY <2>1 DEF InvestorsToResearch, FirstBatch, Leading, ManagerBefore
<1> HIDE DEF R
<1>5. /\ Leading(S, R, BatchLimit) \subseteq S
      /\ Leading(S, R, BatchLimit) = S \/ Cardinality(Leading(S, R, BatchLimit)) >= BatchLimit
  <2> HIDE DEF S
  <2> QED
    BY <1>1, <1>2, <1>3, Batched
<1> QED
  BY <1>1, <1>4, <1>5
-----------------------------------------------------------------------------
(* A day of the investors' loop.                                           *)

SyncAt     == {"store_funds", "store_managers", "describe", "store_descriptions", "read",
               "publish_investors", "publish_funds", "persist"}
ResearchAt == {"search", "store_profiles", "read_investors", "publish"}

\* Where the loop is, and what it has read.
Here == pc["loop"]
Mine == plan["loop"]

Undisturbed  == bounds.faults = 0 /\ bounds.manual = 0
Lately       == success # 0 /\ day - success < SyncDays
AllDescribed == DOMAIN funds \subseteq DOMAIN descriptions
AllProfiled  == DOMAIN managers \subseteq DOMAIN profiles
DueFunds     == {id \in Ids : DescriptionIsDue(id, day)}
DueManagers  == {m \in Managers : ProfileIsDue(m, day)}

\* The batches of today that are stored, but for one that a sync or a research
\* begun the day before may have cut.
FundTurns    == cycles - 1 + (IF next = "research" \/ Here \in {"read", "publish_investors",
                                                               "publish_funds", "persist"} THEN 1 ELSE 0)
ManagerTurns == cycles - 1 + (IF next = "research" /\ Here \in {"read_investors", "publish"} THEN 1 ELSE 0)

\* After k batches that were full n of all are left at most.
Within(n, k, all) == n + k * BatchLimit <= all

DbShape ==
  /\ bounds = [changes |-> bounds.changes, nothing |-> bounds.nothing,
               manual |-> bounds.manual, faults |-> bounds.faults]
  /\ bounds.manual \in Nat /\ bounds.faults \in Nat
  /\ pc = [w \in Processes |-> pc[w]] /\ plan = [w \in Processes |-> plan[w]]
  /\ Mine = [at |-> Mine.at, fresh |-> Mine.fresh, was |-> Mine.was, got |-> Mine.got,
             found |-> Mine.found, fundRows |-> Mine.fundRows, investorRows |-> Mine.investorRows]

StoreInv ==
  /\ day \in Nat \ {0} /\ cycles \in 0 .. CyclesPerDay /\ success \in Nat
  /\ next \in {"sync", "research"}
  /\ listed = [f \in ToSet(Funds) |-> listed[f]]
  /\ \A f \in ToSet(Funds) : listed[f] \in Nat /\ (listed[f] # 0 => <<f, listed[f]>> \in Ids)
  /\ DOMAIN funds \subseteq Ids /\ \A id \in DOMAIN funds : FundRow(funds[id])
  /\ DOMAIN managers \subseteq Managers /\ \A m \in DOMAIN managers : ManagerRow(managers[m])
  /\ \A id \in DOMAIN descriptions : descriptions[id].at \in Nat
  /\ \A m \in DOMAIN profiles : profiles[m].at \in Nat

\* The loop does one job after the other, and what it does once a cycle of
\* today is over it began today.
PlaceInv ==
  /\ pc["manual"] = "idle"
  /\ Here \in SyncAt \union ResearchAt \union {"idle"}
  /\ Here \in SyncAt => next = "sync"
  /\ Here \in ResearchAt => next = "research"
  /\ Mine.at \in Nat /\ Mine.at <= day /\ Mine.fresh \in BOOLEAN /\ Mine.was \in Nat
  /\ DOMAIN Mine.got \subseteq Ids /\ \A id \in DOMAIN Mine.got : FundRow(Mine.got[id])
  /\ cycles >= 1 /\ Here # "idle" => Mine.at = day

\* It fetches what KVIC lists in the first sync of a day or in none; and it
\* does so only when everything that it has stored before is described.
FetchInv ==
  /\ Here \in {"store_funds", "store_managers"} => ~Mine.fresh
  /\ Here \in SyncAt /\ ~Mine.fresh => Mine.at = day /\ cycles <= 1
  /\ Here \in SyncAt /\ Mine.fresh => Mine.was = success
  /\ cycles >= 2 => Lately
  /\ cycles >= 1 /\ next = "research" => Lately
  /\ cycles >= 1 /\ Here \in SyncAt /\ Mine.fresh => Lately
  /\ Lately \/ AllDescribed \/ (Here \in SyncAt /\ ~Mine.fresh)

\* What is not described is in what the loop has got.
GotInv ==
  /\ Here \in {"store_funds", "store_managers", "describe", "store_descriptions"} =>
       DOMAIN funds \ DOMAIN Mine.got \subseteq DOMAIN descriptions
  /\ Here = "store_descriptions" => DOMAIN Mine.found = FundsToDescribe(Mine.got, Mine.at)
  /\ Here = "store_profiles" => DOMAIN Mine.found = InvestorsToResearch(Mine.at)

\* Every batch of today was full, or everybody has had a turn.
FundTurnInv ==
  cycles >= 1 => AllDescribed \/ Within(Cardinality(DueFunds), FundTurns, Cardinality(Ids))
ManagerTurnInv ==
  cycles >= 1 => AllProfiled \/ Within(Cardinality(DueManagers), ManagerTurns, Cardinality(Managers))

DayInv  == StoreInv /\ PlaceInv /\ FetchInv /\ GotInv /\ FundTurnInv /\ ManagerTurnInv
DbInv   == DbShape /\ (Undisturbed => DayInv)

LEMMA DbConstants ==
  /\ SyncDays \in Nat \ {0} /\ StaleDays \in Nat \ {0} /\ BatchLimit \in Nat \ {0}
  /\ CyclesPerDay \in Nat \ {0}
BY InvestorDbAssumption

\* The sets that are counted.
LEMMA DueCount ==
  /\ IsFiniteSet(DueFunds) /\ Cardinality(DueFunds) \in Nat
  /\ Cardinality(DueFunds) <= Cardinality(Ids)
  /\ IsFiniteSet(DueManagers) /\ Cardinality(DueManagers) \in Nat
  /\ Cardinality(DueManagers) <= Cardinality(Managers)
<1>1. DueFunds \in SUBSET Ids /\ DueManagers \in SUBSET Managers
  BY DEF DueFunds, DueManagers
<1> QED
  BY <1>1, Countable, FS_Subset, FS_CardinalityType

LEMMA DueCountAfter ==
  /\ IsFiniteSet(DueFunds') /\ Cardinality(DueFunds') \in Nat
  /\ Cardinality(DueFunds') <= Cardinality(Ids)
  /\ IsFiniteSet(DueManagers') /\ Cardinality(DueManagers') \in Nat
  /\ Cardinality(DueManagers') <= Cardinality(Managers)
<1>1. DueFunds' \in SUBSET Ids /\ DueManagers' \in SUBSET Managers
  BY DEF DueFunds, DueManagers
<1> QED
  BY <1>1, Countable, FS_Subset, FS_CardinalityType

\* A full batch is a turn; with no turn everything may be left; and with as many
\* turns as it takes nothing is.
LEMMA Turns ==
  ASSUME NEW n \in Nat, NEW m \in Nat, NEW k \in Int, NEW all \in Nat
  PROVE  /\ Within(n, k, all) /\ m + BatchLimit <= n => Within(m, k + 1, all)
         /\ n <= all /\ k <= 0 => Within(n, k, all)
         /\ \A c \in Int : c <= k /\ Within(n, k, all) => Within(n, c, all)
         /\ Within(n, CyclesPerDay - 1, all) /\ (CyclesPerDay - 1) * BatchLimit >= all => n = 0
<1>1. BatchLimit \in Nat /\ CyclesPerDay \in Nat
  BY DbConstants
<1>2. (k + 1) * BatchLimit = k * BatchLimit + BatchLimit
  BY <1>1
<1>3. k <= 0 => k * BatchLimit <= 0
  BY <1>1
<1>4. \A c \in Int : c <= k => c * BatchLimit <= k * BatchLimit
  BY <1>1
<1>5. k * BatchLimit \in Int /\ \A c \in Int : c * BatchLimit \in Int
  BY <1>1
<1>6. CyclesPerDay - 1 \in Int /\ (CyclesPerDay - 1) * BatchLimit \in Int
  BY <1>1
<1>7. Within(n, k, all) /\ m + BatchLimit <= n => Within(m, k + 1, all)
  BY <1>1, <1>2, <1>5 DEF Within
<1>8. n <= all /\ k <= 0 => Within(n, k, all)
  BY <1>3, <1>5 DEF Within
<1>9. ASSUME NEW c \in Int, c <= k, Within(n, k, all) PROVE Within(n, c, all)
  <2>1. c * BatchLimit <= k * BatchLimit /\ c * BatchLimit \in Int
    BY <1>4, <1>5, <1>9
  <2> QED
    BY <1>5, <1>9, <2>1 DEF Within
<1>10. Within(n, CyclesPerDay - 1, all) /\ (CyclesPerDay - 1) * BatchLimit >= all => n = 0
  BY <1>6 DEF Within
<1> QED
  BY <1>7, <1>8, <1>9, <1>10

\* A step moves one process.
LEMMA Moves ==
  ASSUME DbShape, NEW step, NEW p, Goto("loop", step, p)
  PROVE  Here' = step /\ Mine' = p /\ pc'["manual"] = pc["manual"]
BY DEF DbShape, Goto, Here, Mine, Processes

LEMMA TurnsTyped ==
  ASSUME StoreInv, UNCHANGED <<cycles, next>>
  PROVE  /\ FundTurns \in Int /\ ManagerTurns \in Int /\ FundTurns' \in Int /\ ManagerTurns' \in Int
         /\ cycles \in Nat /\ cycles - 1 <= FundTurns /\ cycles - 1 <= ManagerTurns
         /\ FundTurns <= cycles /\ ManagerTurns <= cycles
<1>1. cycles \in Nat
  BY DbConstants DEF StoreInv
<1>2. FundTurns \in {cycles - 1, cycles} /\ ManagerTurns \in {cycles - 1, cycles}
  BY <1>1 DEF FundTurns, ManagerTurns
<1>3. FundTurns' \in {cycles' - 1, cycles'} /\ ManagerTurns' \in {cycles' - 1, cycles'}
  BY <1>1 DEF FundTurns, ManagerTurns
<1>4. cycles' = cycles
  OBVIOUS
<1> HIDE DEF FundTurns, ManagerTurns
<1> QED
  BY <1>1, <1>2, <1>3, <1>4

\* As long as no batch is stored, nor a fetch, nor a job over, what is due is as it was.
LEMMA FundTurnKept ==
  ASSUME StoreInv, FundTurnInv, UNCHANGED <<day, cycles, next, funds, descriptions>>, FundTurns' <= FundTurns
  PROVE  FundTurnInv'
<1>1. DueFunds' = DueFunds /\ AllDescribed' = AllDescribed
  BY DEF DueFunds, AllDescribed, DescriptionIsDue
<1>2. Cardinality(DueFunds') = Cardinality(DueFunds)
  BY <1>1
<1>3. ASSUME Within(Cardinality(DueFunds), FundTurns, Cardinality(Ids))
      PROVE  Within(Cardinality(DueFunds'), FundTurns', Cardinality(Ids))
  BY <1>2, <1>3, DueCount, Countable, TurnsTyped, Turns
<1> QED
  BY <1>1, <1>3 DEF FundTurnInv

LEMMA ManagerTurnKept ==
  ASSUME StoreInv, ManagerTurnInv, UNCHANGED <<day, cycles, next, managers, profiles>>,
         ManagerTurns' <= ManagerTurns
  PROVE  ManagerTurnInv'
<1>1. DueManagers' = DueManagers /\ AllProfiled' = AllProfiled
  BY DEF DueManagers, AllProfiled, ProfileIsDue
<1>2. Cardinality(DueManagers') = Cardinality(DueManagers)
  BY <1>1
<1>3. ASSUME Within(Cardinality(DueManagers), ManagerTurns, Cardinality(Managers))
      PROVE  Within(Cardinality(DueManagers'), ManagerTurns', Cardinality(Managers))
  BY <1>2, <1>3, DueCount, Countable, TurnsTyped, Turns
<1> QED
  BY <1>1, <1>3 DEF ManagerTurnInv

\* The rows that a fetch makes.
LEMMA FetchedRows ==
  ASSUME StoreInv, NEW at \in Nat
  PROVE  DOMAIN Fetched(at) \subseteq Ids /\ \A id \in DOMAIN Fetched(at) : FundRow(Fetched(at)[id])
<1>1. \A id \in Ids : id[2] \in Nat
  BY InvestorDbAssumption DEF Ids
<1>2. DOMAIN Fetched(at) = {<<f, listed[f]>> : f \in {g \in ToSet(Funds) : listed[g] # 0}}
  BY DEF Fetched
<1>3. DOMAIN Fetched(at) \subseteq Ids
  BY <1>2 DEF StoreInv
<1>4. \A id \in DOMAIN Fetched(at) : Fetched(at)[id].active = (id[2] >= at)
  BY DEF Fetched
<1>5. \A id \in DOMAIN Fetched(at) : (id[2] >= at) \in BOOLEAN
  OBVIOUS
<1> QED
  BY <1>3, <1>4, <1>5 DEF FundRow

LEMMA ProfileRows ==
  ASSUME NEW got, DOMAIN got \subseteq Ids
  PROVE  /\ DOMAIN InvestorProfiles(got) \subseteq Managers
         /\ \A m \in DOMAIN InvestorProfiles(got) : ManagerRow(InvestorProfiles(got)[m])
<1>1. DOMAIN InvestorProfiles(got) = {ManagerOf[id[1]] : id \in DOMAIN got}
  BY DEF InvestorProfiles
<1>2. \A id \in Ids : id[1] \in ToSet(Funds)
  BY DEF Ids
<1>3. DOMAIN InvestorProfiles(got) \subseteq Managers
  BY <1>1, <1>2 DEF Managers
<1>4. ASSUME NEW m \in DOMAIN InvestorProfiles(got) PROVE InvestorProfiles(got)[m].active \in Nat
  <2> DEFINE A == {id \in {i \in DOMAIN got : ManagerOf[i[1]] = m} : got[id].active}
  <2>1. InvestorProfiles(got)[m].active = Cardinality(A)
    BY <1>4 DEF InvestorProfiles
  <2>2. A \in SUBSET Ids
    OBVIOUS
  <2> HIDE DEF A
  <2>3. Cardinality(A) \in Nat
    BY <2>2, Countable, FS_Subset, FS_CardinalityType
  <2> QED
    BY <2>1, <2>3
<1> QED
  BY <1>3, <1>4 DEF ManagerRow

\* A sync starts: with a fetch if the last one is too long ago.
LEMMA StartSyncDay ==
  ASSUME DbShape, DayInv, StartSync("loop")
  PROVE  DayInv'
<1> DEFINE p == [NoPlan EXCEPT !.at = day, !.was = success, !.fresh = IsFresh("loop")]
           q == IF p.fresh THEN [p EXCEPT !.got = funds] ELSE [p EXCEPT !.got = Fetched(day)]
           step == IF p.fresh THEN "describe" ELSE "store_funds"
<1>1. /\ Here = "idle" /\ next = "sync"
      /\ UNCHANGED <<day, listed, cycles, funds, managers, descriptions, profiles, success, next>>
  BY DEF StartSync, May, world, store, Here
<1>2. p.fresh = Lately /\ Lately \in BOOLEAN
  BY DEF NoPlan, IsFresh, Lately
<1>3. Goto("loop", step, q)
  BY DEF StartSync
<1>4. /\ q.at = day /\ q.was = success /\ q.fresh = Lately
      /\ Lately => q.got = funds
      /\ ~Lately => q.got = Fetched(day)
  BY <1>2 DEF NoPlan
<1>5. step = IF Lately THEN "describe" ELSE "store_funds"
  BY <1>2
<1> HIDE DEF p, q, step
<1>6. Here' = step /\ Mine' = q /\ pc'["manual"] = "idle"
  BY <1>3, Moves DEF DayInv, PlaceInv
<1>7. StoreInv'
  BY <1>1 DEF DayInv, StoreInv
<1>8. day \in Nat /\ success \in Nat /\ cycles \in Nat
  BY DbConstants DEF DayInv, StoreInv
<1>9. DOMAIN q.got \subseteq Ids /\ \A id \in DOMAIN q.got : FundRow(q.got[id])
  BY <1>4, <1>8, FetchedRows DEF DayInv, StoreInv
<1>10. PlaceInv'
  <2>1. Mine'.at = day /\ Mine'.was = success /\ Mine'.fresh = Lately /\ Mine'.got = q.got
    BY <1>4, <1>6
  <2>2. DOMAIN Mine'.got \subseteq Ids /\ \A id \in DOMAIN Mine'.got : FundRow(Mine'.got[id])
    BY <1>9, <2>1
  <2>3. Here' \in SyncAt /\ Here' \notin ResearchAt /\ day' = day /\ cycles' = cycles /\ next' = "sync"
    BY <1>1, <1>5, <1>6 DEF SyncAt, ResearchAt
  <2>4. Mine'.fresh \in BOOLEAN
    BY <1>2, <2>1
  <2>5. Mine'.at \in Nat /\ Mine'.at <= day' /\ Mine'.was \in Nat
    BY <1>8, <2>1, <2>3
  <2>6. (cycles >= 1 /\ Here # "idle" => Mine.at = day)'
    BY <2>1, <2>3
  <2> QED
    BY <1>6, <2>2, <2>3, <2>4, <2>5, <2>6 DEF PlaceInv
<1>11. Lately' = Lately /\ AllDescribed' = AllDescribed
  BY <1>1 DEF Lately, AllDescribed
<1>12. ~Lately => AllDescribed /\ cycles <= 1
  BY <1>1, <1>8 DEF DayInv, FetchInv, SyncAt
<1>13. FetchInv'
  BY <1>1, <1>2, <1>4, <1>5, <1>6, <1>8, <1>11, <1>12 DEF DayInv, FetchInv, SyncAt
<1>14. GotInv'
  <2>1. DOMAIN funds \ DOMAIN q.got \subseteq DOMAIN descriptions
    BY <1>2, <1>4, <1>12 DEF AllDescribed
  <2> QED
    BY <1>1, <1>5, <1>6, <2>1 DEF GotInv
<1>15. FundTurns' = FundTurns /\ ManagerTurns' = ManagerTurns
  BY <1>1, <1>5, <1>6 DEF FundTurns, ManagerTurns
<1>16. FundTurnInv' /\ ManagerTurnInv'
  <2>1. FundTurns' <= FundTurns /\ ManagerTurns' <= ManagerTurns
    BY <1>1, <1>15, TurnsTyped DEF DayInv
  <2> QED
    BY <1>1, <2>1, FundTurnKept, ManagerTurnKept DEF DayInv
<1> QED
  BY <1>7, <1>10, <1>13, <1>14, <1>16 DEF DayInv

\* A step within a job that keeps what the loop has read.
Stays ==
  /\ pc'["manual"] = "idle"
  /\ \/ Here \in SyncAt /\ Here' \in SyncAt
     \/ Here \in ResearchAt /\ Here' \in ResearchAt
  /\ Mine'.at = Mine.at /\ Mine'.fresh = Mine.fresh /\ Mine'.was = Mine.was /\ Mine'.got = Mine.got

LEMMA PlaceKept ==
  ASSUME PlaceInv, Stays, UNCHANGED <<day, cycles, next>>
  PROVE  PlaceInv'
<1>1. /\ Mine'.at \in Nat /\ Mine'.at <= day' /\ Mine'.fresh \in BOOLEAN /\ Mine'.was \in Nat
  BY DEF PlaceInv, Stays
<1>2. DOMAIN Mine'.got \subseteq Ids /\ \A id \in DOMAIN Mine'.got : FundRow(Mine'.got[id])
  BY DEF PlaceInv, Stays
<1>3. (cycles >= 1 /\ Here # "idle" => Mine.at = day)'
  BY DEF PlaceInv, Stays, SyncAt, ResearchAt
<1>4. /\ pc'["manual"] = "idle" /\ Here' \in SyncAt \union ResearchAt \union {"idle"}
      /\ (Here \in SyncAt => next = "sync")' /\ (Here \in ResearchAt => next = "research")'
  BY DEF PlaceInv, Stays, SyncAt, ResearchAt
<1> QED
  BY <1>1, <1>2, <1>3, <1>4 DEF PlaceInv

LEMMA FetchKept ==
  ASSUME FetchInv, Stays, UNCHANGED <<day, cycles, next, success>>,
         AllDescribed => AllDescribed' \/ (Here \in SyncAt /\ ~Mine.fresh),
         Here' = "store_funds" \/ Here' = "store_managers" => ~Mine.fresh
  PROVE  FetchInv'
<1>1. Lately' = Lately
  BY DEF Lately
<1>2. Here' \in SyncAt <=> Here \in SyncAt
  BY DEF Stays, SyncAt, ResearchAt
<1> HIDE DEF SyncAt, ResearchAt, Lately, AllDescribed
<1> QED
  BY <1>1, <1>2 DEF FetchInv, Stays

\* Funds are stored: those that are not yet described have been fetched.
LEMMA StoreFundsDay ==
  ASSUME DbShape, DayInv, StoreFunds("loop")
  PROVE  DayInv'
<1>0. funds' = Upserted(funds, Mine.got)
  BY DEF StoreFunds, Mine
<1>1. /\ Here = "store_funds"
      /\ UNCHANGED <<day, listed, cycles, managers, descriptions, profiles, success, next>>
  BY DEF StoreFunds, world, Here
<1>2. Here' = "store_managers" /\ Mine' = Mine /\ pc'["manual"] = "idle"
  BY Moves DEF StoreFunds, Mine, DayInv, PlaceInv
<1>3. Stays
  BY <1>1, <1>2 DEF Stays, SyncAt
<1>4. ~Mine.fresh /\ Here \in SyncAt /\ cycles <= 1 /\ next = "sync"
  BY <1>1 DEF DayInv, PlaceInv, FetchInv, SyncAt
<1>5. PlaceInv' /\ FetchInv'
  BY <1>1, <1>2, <1>3, <1>4, PlaceKept, FetchKept DEF DayInv
<1>6. DOMAIN Mine.got \subseteq Ids /\ \A id \in DOMAIN Mine.got : FundRow(Mine.got[id])
  BY DEF DayInv, PlaceInv
<1>7. DOMAIN funds' \subseteq Ids /\ \A id \in DOMAIN funds' : FundRow(funds'[id])
  <2> DEFINE new == Mine.got
  <2>0. funds' = Upserted(funds, new)
    BY <1>0
  <2> HIDE DEF new
  <2>1. /\ DOMAIN funds' = DOMAIN funds \union DOMAIN new
        /\ \A id \in DOMAIN new : funds'[id] = new[id]
        /\ \A id \in DOMAIN funds \ DOMAIN new : funds'[id] = funds[id]
    <3>1. DOMAIN funds' = DOMAIN funds \union DOMAIN new
      BY <2>0 DEF Upserted
    <3>2. \A id \in DOMAIN new : funds'[id] = new[id]
      BY <2>0 DEF Upserted
    <3>3. \A id \in DOMAIN funds \ DOMAIN new : funds'[id] = funds[id]
      BY <2>0 DEF Upserted
    <3> QED
      BY <3>1, <3>2, <3>3
  <2>2. DOMAIN funds \subseteq Ids /\ \A id \in DOMAIN funds : FundRow(funds[id])
    BY DEF DayInv, StoreInv
  <2> QED
    BY <1>6, <2>1, <2>2 DEF new
<1>8. StoreInv'
  BY <1>1, <1>7 DEF DayInv, StoreInv
<1>9. GotInv'
  <2> DEFINE new == Mine.got
  <2>0. funds' = Upserted(funds, new)
    BY <1>0
  <2> HIDE DEF new
  <2>1. DOMAIN funds' = DOMAIN funds \union DOMAIN new
    BY <2>0 DEF Upserted
  <2>2. DOMAIN funds \ DOMAIN Mine.got \subseteq DOMAIN descriptions
    BY <1>1 DEF DayInv, GotInv
  <2> QED
    BY <1>1, <1>2, <2>1, <2>2 DEF GotInv, new
<1>10. FundTurnInv'
  <2>1. cycles \in Nat
    BY DbConstants DEF DayInv, StoreInv
  <2>2. FundTurns' = cycles - 1 /\ FundTurns' \in Int /\ FundTurns' <= 0
    BY <1>1, <1>2, <1>4, <2>1 DEF FundTurns
  <2> QED
    BY <2>2, DueCountAfter, Countable, Turns DEF FundTurnInv
<1>11. ManagerTurnInv'
  <2>1. ManagerTurns' <= ManagerTurns
    <3>1. ManagerTurns' = ManagerTurns
      BY <1>1, <1>2, <1>4 DEF ManagerTurns
    <3> QED
      BY <1>1, <3>1, TurnsTyped DEF DayInv
  <2> QED
    BY <1>1, <2>1, ManagerTurnKept DEF DayInv
<1> QED
  BY <1>5, <1>8, <1>9, <1>10, <1>11 DEF DayInv

\* So are managers.
LEMMA StoreManagersDay ==
  ASSUME DbShape, DayInv, StoreManagers("loop")
  PROVE  DayInv'
<1>0. managers' = Upserted(managers, InvestorProfiles(Mine.got))
  BY DEF StoreManagers, Mine
<1>1. /\ Here = "store_managers"
      /\ UNCHANGED <<day, listed, cycles, funds, descriptions, profiles, success, next>>
  BY DEF StoreManagers, world, Here
<1>2. Here' = "describe" /\ Mine' = Mine /\ pc'["manual"] = "idle"
  BY Moves DEF StoreManagers, Mine, DayInv, PlaceInv
<1>3. Stays
  BY <1>1, <1>2 DEF Stays, SyncAt
<1>4. ~Mine.fresh /\ Here \in SyncAt /\ cycles <= 1 /\ next = "sync"
  BY <1>1 DEF DayInv, PlaceInv, FetchInv, SyncAt
<1>5. PlaceInv' /\ FetchInv'
  <2>1. AllDescribed' = AllDescribed
    BY <1>1 DEF AllDescribed
  <2> QED
    BY <1>1, <1>2, <1>3, <1>4, <2>1, PlaceKept, FetchKept DEF DayInv
<1>6. DOMAIN managers' \subseteq Managers /\ \A m \in DOMAIN managers' : ManagerRow(managers'[m])
  <2> DEFINE new == InvestorProfiles(Mine.got)
  <2>1. DOMAIN new \subseteq Managers /\ \A m \in DOMAIN new : ManagerRow(new[m])
    BY ProfileRows DEF DayInv, PlaceInv
  <2> HIDE DEF new
  <2>2. /\ DOMAIN managers' = DOMAIN managers \union DOMAIN new
        /\ \A m \in DOMAIN new : managers'[m] = new[m]
        /\ \A m \in DOMAIN managers \ DOMAIN new : managers'[m] = managers[m]
    BY <1>0 DEF new, Upserted
  <2>3. DOMAIN managers \subseteq Managers /\ \A m \in DOMAIN managers : ManagerRow(managers[m])
    BY DEF DayInv, StoreInv
  <2> QED
    BY <2>1, <2>2, <2>3
<1>7. StoreInv'
  BY <1>1, <1>6 DEF DayInv, StoreInv
<1>8. GotInv'
  BY <1>1, <1>2 DEF DayInv, GotInv
<1>9. FundTurnInv'
  <2>1. FundTurns' <= FundTurns
    <3>1. FundTurns' = FundTurns
      BY <1>1, <1>2, <1>4 DEF FundTurns
    <3> QED
      BY <1>1, <3>1, TurnsTyped DEF DayInv
  <2> QED
    BY <1>1, <2>1, FundTurnKept DEF DayInv
<1>10. ManagerTurnInv'
  <2>1. cycles \in Nat
    BY DbConstants DEF DayInv, StoreInv
  <2>2. ManagerTurns' = cycles - 1 /\ ManagerTurns' \in Int /\ ManagerTurns' <= 0
    BY <1>1, <1>2, <1>4, <2>1 DEF ManagerTurns
  <2> QED
    BY <2>2, DueCountAfter, Countable, Turns DEF ManagerTurnInv
<1> QED
  BY <1>5, <1>7, <1>8, <1>9, <1>10 DEF DayInv

\* A batch depends on what is stored of descriptions, or of managers and profiles, and on nothing else.
LEMMA SameFunds ==
  ASSUME UNCHANGED descriptions, Mine'.got = Mine.got, Mine'.at = Mine.at
  PROVE  FundsToDescribe(Mine.got, Mine.at)' = FundsToDescribe(Mine.got, Mine.at)
BY DEF FundsToDescribe, FirstBatch, FundBefore, DescriptionIsDue

LEMMA SameInvestors ==
  ASSUME UNCHANGED <<managers, profiles>>, Mine'.at = Mine.at
  PROVE  InvestorsToResearch(Mine.at)' = InvestorsToResearch(Mine.at)
BY DEF InvestorsToResearch, FirstBatch, ProfileIsDue

\* What a search has found is about the batch.
LEMMA DescribeDay ==
  ASSUME DbShape, DayInv, Describe("loop")
  PROVE  DayInv'
<1>1. /\ Here = "describe"
      /\ UNCHANGED <<day, listed, cycles, funds, managers, descriptions, profiles, success, next>>
  BY DEF Describe, world, store, Here
<1>2. PICK found : /\ DOMAIN found = FundsToDescribe(Mine.got, Mine.at)
                   /\ Goto("loop", "store_descriptions", [Mine EXCEPT !.found = found])
  BY DEF Describe, Searches, Mine
<1> DEFINE q == [Mine EXCEPT !.found = found]
<1>3. /\ q.at = Mine.at /\ q.fresh = Mine.fresh /\ q.was = Mine.was /\ q.got = Mine.got
      /\ q.found = found
  BY DEF DbShape
<1>4. Goto("loop", "store_descriptions", q)
  BY <1>2
<1> HIDE DEF q
<1>5. Here' = "store_descriptions" /\ Mine' = q /\ pc'["manual"] = "idle"
  BY <1>4, Moves DEF DayInv, PlaceInv
<1>6. Stays
  BY <1>1, <1>3, <1>5 DEF Stays, SyncAt
<1>7. AllDescribed' = AllDescribed
  BY <1>1 DEF AllDescribed
<1>8. PlaceInv' /\ FetchInv'
  BY <1>1, <1>5, <1>6, <1>7, PlaceKept, FetchKept DEF DayInv
<1>9. StoreInv'
  BY <1>1 DEF DayInv, StoreInv
<1>10. GotInv'
  <2>1. FundsToDescribe(Mine.got, Mine.at)' = FundsToDescribe(Mine.got, Mine.at)
    BY <1>1, <1>3, <1>5, SameFunds
  <2>2. (DOMAIN Mine.found)' = FundsToDescribe(Mine.got, Mine.at)
    BY <1>2, <1>3, <1>5
  <2>3. (DOMAIN funds \ DOMAIN Mine.got \subseteq DOMAIN descriptions)'
    BY <1>1, <1>3, <1>5 DEF DayInv, GotInv
  <2> QED
    BY <1>5, <2>1, <2>2, <2>3 DEF GotInv
<1>11. next = "sync"
  BY <1>1 DEF DayInv, PlaceInv, SyncAt
<1>12. FundTurns' = FundTurns /\ ManagerTurns' = ManagerTurns
  BY <1>1, <1>5, <1>11 DEF FundTurns, ManagerTurns
<1>13. FundTurnInv' /\ ManagerTurnInv'
  <2>1. FundTurns' <= FundTurns /\ ManagerTurns' <= ManagerTurns
    BY <1>1, <1>12, TurnsTyped DEF DayInv
  <2> QED
    BY <1>1, <2>1, FundTurnKept, ManagerTurnKept DEF DayInv
<1> QED
  BY <1>8, <1>9, <1>10, <1>13 DEF DayInv

LEMMA ResearchDay ==
  ASSUME DbShape, DayInv, Research("loop")
  PROVE  DayInv'
<1>1. /\ Here = "search"
      /\ UNCHANGED <<day, listed, cycles, funds, managers, descriptions, profiles, success, next>>
  BY DEF Research, world, store, Here
<1>2. PICK found : /\ DOMAIN found = InvestorsToResearch(Mine.at)
                   /\ Goto("loop", "store_profiles", [Mine EXCEPT !.found = found])
  BY DEF Research, Searches, Mine
<1> DEFINE q == [Mine EXCEPT !.found = found]
<1>3. /\ q.at = Mine.at /\ q.fresh = Mine.fresh /\ q.was = Mine.was /\ q.got = Mine.got
      /\ q.found = found
  BY DEF DbShape
<1>4. Goto("loop", "store_profiles", q)
  BY <1>2
<1> HIDE DEF q
<1>5. Here' = "store_profiles" /\ Mine' = q /\ pc'["manual"] = "idle"
  BY <1>4, Moves DEF DayInv, PlaceInv
<1>6. Stays
  BY <1>1, <1>3, <1>5 DEF Stays, ResearchAt
<1>7. AllDescribed' = AllDescribed
  BY <1>1 DEF AllDescribed
<1>8. PlaceInv' /\ FetchInv'
  BY <1>1, <1>5, <1>6, <1>7, PlaceKept, FetchKept DEF DayInv
<1>9. StoreInv'
  BY <1>1 DEF DayInv, StoreInv
<1>10. GotInv'
  <2>1. InvestorsToResearch(Mine.at)' = InvestorsToResearch(Mine.at)
    BY <1>1, <1>3, <1>5, SameInvestors
  <2>2. (DOMAIN Mine.found)' = InvestorsToResearch(Mine.at)
    BY <1>2, <1>3, <1>5
  <2> QED
    BY <1>5, <2>1, <2>2 DEF GotInv
<1>11. next = "research"
  BY <1>1 DEF DayInv, PlaceInv, ResearchAt
<1>12. FundTurns' = FundTurns /\ ManagerTurns' = ManagerTurns
  BY <1>1, <1>5, <1>11 DEF FundTurns, ManagerTurns
<1>13. FundTurnInv' /\ ManagerTurnInv'
  <2>1. FundTurns' <= FundTurns /\ ManagerTurns' <= ManagerTurns
    BY <1>1, <1>12, TurnsTyped DEF DayInv
  <2> QED
    BY <1>1, <2>1, FundTurnKept, ManagerTurnKept DEF DayInv
<1> QED
  BY <1>8, <1>9, <1>10, <1>13 DEF DayInv

\* What is taken out of a set is no longer counted.
LEMMA LessBy ==
  ASSUME NEW S, IsFiniteSet(S), NEW B, B \subseteq S, Cardinality(B) >= BatchLimit,
         NEW T, T \subseteq S \ B
  PROVE  Cardinality(T) + BatchLimit <= Cardinality(S)
<1>1. B \in SUBSET S /\ S \intersect B = B /\ T \in SUBSET (S \ B)
  OBVIOUS
<1>2. IsFiniteSet(B) /\ Cardinality(B) \in Nat /\ Cardinality(S) \in Nat
  BY <1>1, FS_Subset, FS_CardinalityType
<1>3. IsFiniteSet(S \ B) /\ Cardinality(S \ B) = Cardinality(S) - Cardinality(B)
  BY <1>1, FS_Difference
<1>4. Cardinality(T) <= Cardinality(S \ B) /\ Cardinality(T) \in Nat
  BY <1>1, <1>3, FS_Subset, FS_CardinalityType
<1>5. BatchLimit \in Nat
  BY DbConstants
<1> QED
  BY <1>2, <1>3, <1>4, <1>5

\* A batch of descriptions is stored: all that were due, or as many as it holds.
LEMMA StoreDescriptionsDay ==
  ASSUME DbShape, DayInv, StoreDescriptions("loop")
  PROVE  DayInv'
<1> DEFINE new == Dated(Mine.found, Mine.at)
           at  == Mine.at
           got == Mine.got
           batch == FundsToDescribe(got, at)
           due == {id \in DOMAIN got : DescriptionIsDue(id, at)}
<1>1. /\ Here = "store_descriptions"
      /\ UNCHANGED <<day, listed, cycles, funds, managers, profiles, success, next>>
  BY DEF StoreDescriptions, world, Here
<1>2. descriptions' = Upserted(descriptions, new)
  BY DEF StoreDescriptions, Mine
<1>3. Here' = "read" /\ Mine' = Mine /\ pc'["manual"] = "idle"
  BY Moves DEF StoreDescriptions, Mine, DayInv, PlaceInv
<1>4. Stays
  BY <1>1, <1>3 DEF Stays, SyncAt
<1>5. DOMAIN new = batch /\ \A id \in batch : new[id].at = at
  <2>1. DOMAIN Mine.found = batch
    BY <1>1 DEF DayInv, GotInv
  <2> QED
    BY <2>1 DEF Dated
<1>6. at \in Nat /\ at <= day /\ (cycles >= 1 => at = day)
  BY <1>1 DEF DayInv, PlaceInv
<1>7. DOMAIN got \subseteq Ids /\ \A id \in DOMAIN got : FundRow(got[id])
  BY DEF DayInv, PlaceInv
<1>8. DOMAIN funds \ DOMAIN got \subseteq DOMAIN descriptions
  BY <1>1 DEF DayInv, GotInv
<1>9. batch \subseteq due /\ IsFiniteSet(due) /\ (batch = due \/ Cardinality(batch) >= BatchLimit)
  <2> HIDE DEF at, got
  <2> QED
    BY <1>7, FundsBatch
<1> HIDE DEF new, at, batch, got
<1>10. /\ DOMAIN descriptions' = DOMAIN descriptions \union batch
       /\ \A id \in batch : descriptions'[id] = new[id]
       /\ \A id \in DOMAIN descriptions \ batch : descriptions'[id] = descriptions[id]
  <2>1. DOMAIN descriptions' = DOMAIN descriptions \union batch
    BY <1>2, <1>5 DEF Upserted
  <2>2. \A id \in batch : descriptions'[id] = new[id]
    BY <1>2, <1>5 DEF Upserted
  <2>3. \A id \in DOMAIN descriptions \ batch : descriptions'[id] = descriptions[id]
    BY <1>2, <1>5 DEF Upserted
  <2> QED
    BY <2>1, <2>2, <2>3
<1>11. \A id \in batch : descriptions'[id].at = at
  BY <1>5, <1>10
<1>12. StoreInv'
  <2>1. \A id \in DOMAIN descriptions' : descriptions'[id].at \in Nat
    BY <1>6, <1>10, <1>11 DEF DayInv, StoreInv
  <2> QED
    BY <1>1, <2>1 DEF DayInv, StoreInv
<1>13. AllDescribed => AllDescribed'
  BY <1>1, <1>10 DEF AllDescribed
<1>14. PlaceInv' /\ FetchInv'
  BY <1>1, <1>3, <1>4, <1>13, PlaceKept, FetchKept DEF DayInv
<1>15. GotInv'
  BY <1>3 DEF GotInv
<1>16. next = "sync"
  BY <1>1 DEF DayInv, PlaceInv, SyncAt
<1>17. FundTurnInv'
  <2> SUFFICES ASSUME cycles >= 1 PROVE AllDescribed' \/ Within(Cardinality(DueFunds'), FundTurns', Cardinality(Ids))
    BY <1>1 DEF FundTurnInv
  <2>1. FundTurns \in Int /\ FundTurns' = FundTurns + 1
    <3>1. cycles \in Nat
      BY DbConstants DEF DayInv, StoreInv
    <3> QED
      BY <1>1, <1>3, <1>16, <3>1 DEF FundTurns
  <2>2. AllDescribed \/ Within(Cardinality(DueFunds), FundTurns, Cardinality(Ids))
    BY DEF DayInv, FundTurnInv
  <2>3. CASE batch = due
    <3>1. ASSUME NEW x \in DOMAIN funds, x \notin DOMAIN descriptions PROVE x \in batch
      <4>1. x \in DOMAIN got
        BY <1>8, <3>1
      <4> QED
        BY <2>3, <3>1, <4>1 DEF DescriptionIsDue
    <3> QED
      BY <1>1, <1>10, <3>1 DEF AllDescribed
  <2>4. CASE Cardinality(batch) >= BatchLimit /\ Within(Cardinality(DueFunds), FundTurns, Cardinality(Ids))
    <3>1. at = day /\ day \in Nat
      BY <1>6 DEF DayInv, StoreInv
    <3>2. batch \subseteq DueFunds
      BY <1>7, <1>9, <3>1 DEF DueFunds
    <3>3. ASSUME NEW id \in DueFunds' PROVE id \in DueFunds \ batch
      <4>1. id \in Ids /\ DescriptionIsDue(id, day)'
        BY DEF DueFunds
      <4>2. id \notin batch
        <5> SUFFICES ASSUME id \in batch PROVE FALSE
          OBVIOUS
        <5>1. id \in DOMAIN descriptions' /\ descriptions'[id].at = day
          BY <1>10, <1>11, <3>1
        <5>2. day - descriptions'[id].at = 0
          BY <3>1, <5>1
        <5> QED
          BY <1>1, <4>1, <5>1, <5>2, DbConstants DEF DescriptionIsDue
      <4>3. DescriptionIsDue(id, day)
        BY <1>1, <1>10, <4>1, <4>2 DEF DescriptionIsDue
      <4> QED
        BY <4>1, <4>2, <4>3 DEF DueFunds
    <3>4. Cardinality(DueFunds') + BatchLimit <= Cardinality(DueFunds)
      BY <2>4, <3>2, <3>3, DueCount, LessBy
    <3> QED
      BY <2>1, <2>4, <3>4, DueCount, DueCountAfter, Countable, Turns
  <2> QED
    BY <1>9, <1>13, <2>2, <2>3, <2>4
<1>18. ManagerTurnInv'
  <2>1. ManagerTurns' <= ManagerTurns
    <3>1. ManagerTurns' = ManagerTurns
      BY <1>1, <1>3, <1>16 DEF ManagerTurns
    <3> QED
      BY <1>1, <3>1, TurnsTyped DEF DayInv
  <2> QED
    BY <1>1, <2>1, ManagerTurnKept DEF DayInv
<1> QED
  BY <1>12, <1>14, <1>15, <1>17, <1>18 DEF DayInv

\* And so is one of profiles.
LEMMA StoreProfilesDay ==
  ASSUME DbShape, DayInv, StoreProfiles("loop")
  PROVE  DayInv'
<1> DEFINE new == Dated(Mine.found, Mine.at)
           at  == Mine.at
           batch == InvestorsToResearch(at)
           due == {m \in DOMAIN managers : ProfileIsDue(m, at)}
<1>1. /\ Here = "store_profiles"
      /\ UNCHANGED <<day, listed, cycles, funds, managers, descriptions, success, next>>
  BY DEF StoreProfiles, world, Here
<1>2. profiles' = Upserted(profiles, new)
  BY DEF StoreProfiles, Mine
<1>3. Here' = "read_investors" /\ Mine' = Mine /\ pc'["manual"] = "idle"
  BY Moves DEF StoreProfiles, Mine, DayInv, PlaceInv
<1>4. Stays
  BY <1>1, <1>3 DEF Stays, ResearchAt
<1>5. DOMAIN new = batch /\ \A m \in batch : new[m].at = at
  <2>1. DOMAIN Mine.found = batch
    BY <1>1 DEF DayInv, GotInv
  <2> QED
    BY <2>1 DEF Dated
<1>6. at \in Nat /\ at <= day /\ (cycles >= 1 => at = day)
  BY <1>1 DEF DayInv, PlaceInv
<1>7. DOMAIN managers \subseteq Managers /\ \A m \in DOMAIN managers : ManagerRow(managers[m])
  BY DEF DayInv, StoreInv
<1>8. batch \subseteq due /\ IsFiniteSet(due) /\ (batch = due \/ Cardinality(batch) >= BatchLimit)
  <2> HIDE DEF at
  <2> QED
    BY <1>7, InvestorsBatch
<1> HIDE DEF new, at, batch
<1>9. /\ DOMAIN profiles' = DOMAIN profiles \union batch
      /\ \A m \in batch : profiles'[m] = new[m]
      /\ \A m \in DOMAIN profiles \ batch : profiles'[m] = profiles[m]
  <2>1. DOMAIN profiles' = DOMAIN profiles \union batch
    BY <1>2, <1>5 DEF Upserted
  <2>2. \A m \in batch : profiles'[m] = new[m]
    BY <1>2, <1>5 DEF Upserted
  <2>3. \A m \in DOMAIN profiles \ batch : profiles'[m] = profiles[m]
    BY <1>2, <1>5 DEF Upserted
  <2> QED
    BY <2>1, <2>2, <2>3
<1>10. \A m \in batch : profiles'[m].at = at
  BY <1>5, <1>9
<1>11. StoreInv'
  <2>1. \A m \in DOMAIN profiles' : profiles'[m].at \in Nat
    BY <1>6, <1>9, <1>10 DEF DayInv, StoreInv
  <2> QED
    BY <1>1, <2>1 DEF DayInv, StoreInv
<1>12. AllProfiled => AllProfiled'
  BY <1>1, <1>9 DEF AllProfiled
<1>13. AllDescribed' = AllDescribed
  BY <1>1 DEF AllDescribed
<1>14. PlaceInv' /\ FetchInv'
  BY <1>1, <1>3, <1>4, <1>13, PlaceKept, FetchKept DEF DayInv
<1>15. GotInv'
  BY <1>3 DEF GotInv
<1>16. next = "research"
  BY <1>1 DEF DayInv, PlaceInv, ResearchAt
<1>17. ManagerTurnInv'
  <2> SUFFICES ASSUME cycles >= 1
               PROVE  AllProfiled' \/ Within(Cardinality(DueManagers'), ManagerTurns', Cardinality(Managers))
    BY <1>1 DEF ManagerTurnInv
  <2>1. ManagerTurns \in Int /\ ManagerTurns' = ManagerTurns + 1
    <3>1. cycles \in Nat
      BY DbConstants DEF DayInv, StoreInv
    <3> QED
      BY <1>1, <1>3, <1>16, <3>1 DEF ManagerTurns
  <2>2. AllProfiled \/ Within(Cardinality(DueManagers), ManagerTurns, Cardinality(Managers))
    BY DEF DayInv, ManagerTurnInv
  <2>3. CASE batch = due
    <3>1. ASSUME NEW x \in DOMAIN managers, x \notin DOMAIN profiles PROVE x \in batch
      BY <2>3, <3>1 DEF ProfileIsDue
    <3> QED
      BY <1>1, <1>9, <3>1 DEF AllProfiled
  <2>4. CASE Cardinality(batch) >= BatchLimit /\ Within(Cardinality(DueManagers), ManagerTurns, Cardinality(Managers))
    <3>1. at = day /\ day \in Nat
      BY <1>6 DEF DayInv, StoreInv
    <3>2. batch \subseteq DueManagers
      BY <1>7, <1>8, <3>1 DEF DueManagers
    <3>3. ASSUME NEW m \in DueManagers' PROVE m \in DueManagers \ batch
      <4>1. m \in Managers /\ ProfileIsDue(m, day)'
        BY DEF DueManagers
      <4>2. m \notin batch
        <5> SUFFICES ASSUME m \in batch PROVE FALSE
          OBVIOUS
        <5>1. m \in DOMAIN profiles' /\ profiles'[m].at = day
          BY <1>9, <1>10, <3>1
        <5>2. day - profiles'[m].at = 0
          BY <3>1, <5>1
        <5> QED
          BY <1>1, <4>1, <5>1, <5>2, DbConstants DEF ProfileIsDue
      <4>3. ProfileIsDue(m, day)
        BY <1>1, <1>9, <4>1, <4>2 DEF ProfileIsDue
      <4> QED
        BY <4>1, <4>2, <4>3 DEF DueManagers
    <3>4. Cardinality(DueManagers') + BatchLimit <= Cardinality(DueManagers)
      BY <2>4, <3>2, <3>3, DueCount, LessBy
    <3> QED
      BY <2>1, <2>4, <3>4, DueCount, DueCountAfter, Countable, Turns
  <2> QED
    BY <1>8, <1>12, <2>2, <2>3, <2>4
<1>18. FundTurnInv'
  <2>1. FundTurns' <= FundTurns
    <3>1. FundTurns' = FundTurns
      BY <1>1, <1>3, <1>16 DEF FundTurns
    <3> QED
      BY <1>1, <3>1, TurnsTyped DEF DayInv
  <2> QED
    BY <1>1, <2>1, FundTurnKept DEF DayInv
<1> QED
  BY <1>11, <1>14, <1>15, <1>17, <1>18 DEF DayInv

\* Steps that read or write no more than the tabs.
OnTheWay ==
  \/ Here = "read" /\ Here' = "publish_investors"
  \/ Here = "publish_investors" /\ Here' = "publish_funds"
  \/ Here = "publish_funds" /\ Here' = "persist"
  \/ Here = "read_investors" /\ Here' = "publish"

LEMMA OnTheWayDay ==
  ASSUME DayInv, OnTheWay, pc'["manual"] = "idle",
         Mine'.at = Mine.at, Mine'.fresh = Mine.fresh, Mine'.was = Mine.was, Mine'.got = Mine.got,
         UNCHANGED <<day, listed, cycles, funds, managers, descriptions, profiles, success, next>>
  PROVE  DayInv'
<1>1. Stays
  BY DEF Stays, OnTheWay, SyncAt, ResearchAt
<1>2. AllDescribed' = AllDescribed
  BY DEF AllDescribed
<1>3. PlaceInv' /\ FetchInv'
  BY <1>1, <1>2, PlaceKept, FetchKept DEF DayInv, OnTheWay
<1>4. StoreInv'
  BY DEF DayInv, StoreInv
<1>5. GotInv'
  BY DEF GotInv, OnTheWay
<1>6. /\ Here = "read_investors" => next = "research"
      /\ Here # "read_investors" => next = "sync"
  BY DEF DayInv, PlaceInv, OnTheWay, SyncAt, ResearchAt
<1>7. FundTurns' = FundTurns /\ ManagerTurns' = ManagerTurns
  BY <1>6 DEF FundTurns, ManagerTurns, OnTheWay
<1>8. FundTurnInv' /\ ManagerTurnInv'
  <2>1. FundTurns' <= FundTurns /\ ManagerTurns' <= ManagerTurns
    BY <1>7, TurnsTyped DEF DayInv
  <2> QED
    BY <2>1, FundTurnKept, ManagerTurnKept DEF DayInv
<1> QED
  BY <1>3, <1>4, <1>5, <1>8 DEF DayInv

LEMMA ReadStoreDay ==
  ASSUME DbShape, DayInv, ReadStore("loop")
  PROVE  DayInv'
<1> DEFINE step == IF Here = "read" THEN "publish_investors" ELSE "publish"
           q == [Mine EXCEPT !.fundRows = IF Here = "read" THEN FundRows ELSE {},
                             !.investorRows = InvestorRows]
<1>1. /\ Here \in {"read", "read_investors"} /\ Goto("loop", step, q)
      /\ UNCHANGED <<day, listed, cycles, funds, managers, descriptions, profiles, success, next>>
  BY DEF ReadStore, world, store, Here, Mine
<1>2. q.at = Mine.at /\ q.fresh = Mine.fresh /\ q.was = Mine.was /\ q.got = Mine.got
  BY DEF DbShape
<1> HIDE DEF q
<1>3. Here' = step /\ Mine' = q /\ pc'["manual"] = "idle"
  BY <1>1, Moves DEF DayInv, PlaceInv
<1>4. OnTheWay
  BY <1>1, <1>3 DEF OnTheWay
<1> QED
  BY <1>1, <1>2, <1>3, <1>4, OnTheWayDay

LEMMA PublishFundsDay ==
  ASSUME DbShape, DayInv, PublishFunds("loop")
  PROVE  DayInv'
<1>1. /\ Here = "publish_funds" /\ Goto("loop", "persist", Mine)
      /\ UNCHANGED <<day, listed, cycles, funds, managers, descriptions, profiles, success, next>>
  BY DEF PublishFunds, world, store, Here, Mine
<1>2. Here' = "persist" /\ Mine' = Mine /\ pc'["manual"] = "idle"
  BY <1>1, Moves DEF DayInv, PlaceInv
<1>3. OnTheWay
  BY <1>1, <1>2 DEF OnTheWay
<1> QED
  BY <1>1, <1>2, <1>3, OnTheWayDay

\* Turns are given up when a job is over, and none that was taken is counted twice.
LEMMA FundTurnsLeft ==
  ASSUME FundTurnInv, UNCHANGED <<day, funds, descriptions>>, FundTurns \in Int, FundTurns' \in Int,
         cycles' >= 1 => FundTurns' <= 0 \/ (cycles >= 1 /\ FundTurns' <= FundTurns)
  PROVE  FundTurnInv'
<1>1. DueFunds' = DueFunds /\ AllDescribed' = AllDescribed
  BY DEF DueFunds, AllDescribed, DescriptionIsDue
<1>2. Cardinality(DueFunds') = Cardinality(DueFunds)
  BY <1>1
<1> SUFFICES ASSUME cycles' >= 1
             PROVE  AllDescribed' \/ Within(Cardinality(DueFunds'), FundTurns', Cardinality(Ids))
  BY DEF FundTurnInv
<1>3. CASE FundTurns' <= 0
  BY <1>3, DueCountAfter, Countable, Turns
<1>4. CASE cycles >= 1 /\ FundTurns' <= FundTurns
  <2>1. ASSUME Within(Cardinality(DueFunds), FundTurns, Cardinality(Ids))
        PROVE  Within(Cardinality(DueFunds'), FundTurns', Cardinality(Ids))
    BY <1>2, <1>4, <2>1, DueCount, Countable, Turns
  <2> QED
    BY <1>1, <1>4, <2>1 DEF FundTurnInv
<1> QED
  BY <1>3, <1>4

LEMMA ManagerTurnsLeft ==
  ASSUME ManagerTurnInv, UNCHANGED <<day, managers, profiles>>, ManagerTurns \in Int, ManagerTurns' \in Int,
         cycles' >= 1 => ManagerTurns' <= 0 \/ (cycles >= 1 /\ ManagerTurns' <= ManagerTurns)
  PROVE  ManagerTurnInv'
<1>1. DueManagers' = DueManagers /\ AllProfiled' = AllProfiled
  BY DEF DueManagers, AllProfiled, ProfileIsDue
<1>2. Cardinality(DueManagers') = Cardinality(DueManagers)
  BY <1>1
<1> SUFFICES ASSUME cycles' >= 1
             PROVE  AllProfiled' \/ Within(Cardinality(DueManagers'), ManagerTurns', Cardinality(Managers))
  BY DEF ManagerTurnInv
<1>3. CASE ManagerTurns' <= 0
  BY <1>3, DueCountAfter, Countable, Turns
<1>4. CASE cycles >= 1 /\ ManagerTurns' <= ManagerTurns
  <2>1. ASSUME Within(Cardinality(DueManagers), ManagerTurns, Cardinality(Managers))
        PROVE  Within(Cardinality(DueManagers'), ManagerTurns', Cardinality(Managers))
    BY <1>2, <1>4, <2>1, DueCount, Countable, Turns
  <2> QED
    BY <1>1, <1>4, <2>1 DEF ManagerTurnInv
<1> QED
  BY <1>3, <1>4

\* Between two jobs the loop holds nothing.
LEMMA Resting ==
  ASSUME StoreInv, pc'["manual"] = "idle", Here' = "idle", Mine' = NoPlan, day' = day
  PROVE  PlaceInv'
<1>1. Mine'.at = 0 /\ Mine'.fresh = FALSE /\ Mine'.was = 0 /\ Mine'.got = <<>>
  BY DEF NoPlan
<1>2. DOMAIN Mine'.got = {}
  BY <1>1
<1>3. day' \in Nat
  BY DEF StoreInv
<1>4. /\ Mine'.at \in Nat /\ Mine'.at <= day' /\ Mine'.fresh \in BOOLEAN /\ Mine'.was \in Nat
  <2>1. Mine'.fresh \in BOOLEAN
    BY <1>1
  <2>2. Mine'.at \in Nat /\ Mine'.was \in Nat
    BY <1>1
  <2>3. Mine'.at <= day'
    BY <1>1, <1>3
  <2> QED
    BY <2>1, <2>2, <2>3
<1>5. DOMAIN Mine'.got \subseteq Ids /\ \A id \in DOMAIN Mine'.got : FundRow(Mine'.got[id])
  BY <1>2
<1>6. Here' \notin SyncAt /\ Here' \notin ResearchAt /\ Here' \in SyncAt \union ResearchAt \union {"idle"}
  BY DEF SyncAt, ResearchAt
<1> QED
  BY <1>4, <1>5, <1>6 DEF PlaceInv

\* A research ends with the investors' tab, and with it a cycle.
LEMMA PublishInvestorsDay ==
  ASSUME DbShape, DayInv, PublishInvestors("loop")
  PROVE  DayInv'
<1>1. UNCHANGED <<day, listed, funds, managers, descriptions, profiles, success>>
  BY DEF PublishInvestors, store
<1>2. CASE Here = "publish_investors"
  <2>1. Goto("loop", "publish_funds", Mine) /\ UNCHANGED <<next, cycles>>
    BY <1>2 DEF PublishInvestors, Here, Mine
  <2>2. Here' = "publish_funds" /\ Mine' = Mine /\ pc'["manual"] = "idle"
    BY <2>1, Moves DEF DayInv, PlaceInv
  <2>3. OnTheWay
    BY <1>2, <2>2 DEF OnTheWay
  <2> QED
    BY <1>1, <2>1, <2>2, <2>3, OnTheWayDay
<1>3. CASE Here = "publish"
  <2>1. next = "research" /\ Here \notin SyncAt
    BY <1>3 DEF DayInv, PlaceInv, ResearchAt, SyncAt
  <2>2. /\ Goto("loop", "idle", NoPlan) /\ next' = "sync"
        /\ cycles' = IF cycles < CyclesPerDay THEN cycles + 1 ELSE cycles
    BY <1>3, <2>1 DEF PublishInvestors, Finish, Here
  <2>3. Here' = "idle" /\ Mine' = NoPlan /\ pc'["manual"] = "idle"
    BY <2>2, Moves DEF DayInv, PlaceInv
  <2>4. cycles \in 0 .. CyclesPerDay /\ cycles' \in 0 .. CyclesPerDay /\ cycles' <= cycles + 1
    BY <2>2, DbConstants DEF DayInv, StoreInv
  <2>5. StoreInv'
    BY <1>1, <2>2, <2>4 DEF DayInv, StoreInv
  <2>6. PlaceInv'
    BY <1>1, <2>3, Resting DEF DayInv
  <2>7. Lately' = Lately /\ AllDescribed' = AllDescribed
    BY <1>1 DEF Lately, AllDescribed
  <2>8. FetchInv'
    <3>1. Here' \notin SyncAt /\ Here' # "store_funds" /\ Here' # "store_managers" /\ next' # "research"
      BY <2>2, <2>3 DEF SyncAt
    <3>2. cycles' >= 2 => Lately'
      <4>1. cycles' >= 2 => cycles >= 1
        BY <2>4, DbConstants
      <4> QED
        BY <2>1, <2>7, <4>1 DEF DayInv, FetchInv
    <3>3. Lately' \/ AllDescribed'
      BY <2>1, <2>7 DEF DayInv, FetchInv
    <3> QED
      BY <3>1, <3>2, <3>3 DEF FetchInv
  <2>9. GotInv'
    BY <2>3 DEF GotInv
  <2>10. /\ FundTurns = cycles /\ ManagerTurns = cycles
         /\ FundTurns' = cycles' - 1 /\ ManagerTurns' = cycles' - 1
    BY <1>3, <2>1, <2>2, <2>3, <2>4, DbConstants DEF FundTurns, ManagerTurns
  <2>11. FundTurnInv' /\ ManagerTurnInv'
    <3>1. cycles' - 1 <= 0 \/ (cycles >= 1 /\ cycles' - 1 <= cycles)
      <4>1. cycles \in Nat /\ cycles' \in Nat
        BY <2>4, DbConstants
      <4>2. cycles' <= cycles + 1
        BY <2>4
      <4>3. \A a, b \in Nat : b <= a + 1 => b - 1 <= 0 \/ (a >= 1 /\ b - 1 <= a)
        OBVIOUS
      <4> QED
        BY <4>1, <4>2, <4>3
    <3>2. cycles \in Int /\ cycles' - 1 \in Int
      BY <2>4, DbConstants
    <3>3. FundTurnInv'
      BY <1>1, <2>10, <3>1, <3>2, FundTurnsLeft DEF DayInv
    <3>4. ManagerTurnInv'
      BY <1>1, <2>10, <3>1, <3>2, ManagerTurnsLeft DEF DayInv
    <3> QED
      BY <3>3, <3>4
  <2> QED
    BY <2>5, <2>6, <2>8, <2>9, <2>11 DEF DayInv
<1> QED
  BY <1>2, <1>3 DEF PublishInvestors, Here

\* A sync ends with the state: what it fetched is of today, or else nothing was due.
LEMMA PersistStateDay ==
  ASSUME DbShape, DayInv, PersistState("loop")
  PROVE  DayInv'
<1>1. /\ Here = "persist" /\ UNCHANGED <<day, listed, funds, managers, descriptions, profiles>>
      /\ success' = IF Mine.fresh THEN Mine.was ELSE Mine.at
  BY DEF PersistState, Here, Mine
<1>2. next = "sync" /\ Here \in SyncAt
  BY <1>1 DEF DayInv, PlaceInv, SyncAt
<1>3. Goto("loop", "idle", NoPlan) /\ next' = "research" /\ cycles' = cycles
  BY <1>2 DEF PersistState, Finish
<1>4. Here' = "idle" /\ Mine' = NoPlan /\ pc'["manual"] = "idle"
  BY <1>3, Moves DEF DayInv, PlaceInv
<1>5. Mine.fresh \in BOOLEAN /\ Mine.at \in Nat /\ Mine.was \in Nat
  BY DEF DayInv, PlaceInv
<1>6. /\ Mine.fresh => success' = success
      /\ ~Mine.fresh => success' = day
  BY <1>1, <1>2 DEF DayInv, FetchInv
<1>7. StoreInv'
  <2>1. success' \in Nat
    BY <1>1, <1>5
  <2> QED
    BY <1>1, <1>3, <2>1 DEF DayInv, StoreInv
<1>8. PlaceInv'
  BY <1>1, <1>4, Resting DEF DayInv
<1>9. AllDescribed' = AllDescribed
  BY <1>1 DEF AllDescribed
<1>10. /\ Mine.fresh => Lately' = Lately
       /\ ~Mine.fresh => Lately'
  <2>1. day \in Nat \ {0} /\ day - day = 0
    BY DEF DayInv, StoreInv
  <2> QED
    BY <1>1, <1>6, <2>1, DbConstants DEF Lately
<1>11. FetchInv'
  <2>1. Here' \notin SyncAt /\ Here' # "store_funds" /\ Here' # "store_managers"
    BY <1>4 DEF SyncAt
  <2>2. cycles >= 1 => Lately'
    BY <1>2, <1>5, <1>10 DEF DayInv, FetchInv
  <2>3. cycles' >= 2 => cycles >= 1
    <3>1. cycles \in Nat
      BY DbConstants DEF DayInv, StoreInv
    <3> QED
      BY <1>3, <3>1
  <2>4. Lately' \/ AllDescribed'
    BY <1>2, <1>5, <1>9, <1>10 DEF DayInv, FetchInv
  <2> QED
    BY <1>3, <2>1, <2>2, <2>3, <2>4 DEF FetchInv
<1>12. GotInv'
  BY <1>4 DEF GotInv
<1>13. cycles \in Nat
  BY DbConstants DEF DayInv, StoreInv
<1>14. /\ FundTurns = cycles /\ ManagerTurns = cycles - 1
       /\ FundTurns' = cycles /\ ManagerTurns' = cycles - 1
  BY <1>1, <1>2, <1>3, <1>4, <1>13 DEF FundTurns, ManagerTurns
<1>15. FundTurnInv' /\ ManagerTurnInv'
  BY <1>1, <1>3, <1>13, <1>14, FundTurnsLeft, ManagerTurnsLeft DEF DayInv
<1> QED
  BY <1>7, <1>8, <1>11, <1>12, <1>15 DEF DayInv

\* A research starts.
LEMMA StartResearchDay ==
  ASSUME DbShape, DayInv, StartResearch("loop")
  PROVE  DayInv'
<1> DEFINE q == [NoPlan EXCEPT !.at = day]
<1>1. /\ Here = "idle" /\ next = "research" /\ Goto("loop", "search", q)
      /\ UNCHANGED <<day, listed, cycles, funds, managers, descriptions, profiles, success, next>>
  BY DEF StartResearch, May, world, store, Here
<1>2. q.at = day /\ q.fresh = FALSE /\ q.was = 0 /\ q.got = <<>>
  BY DEF NoPlan
<1> HIDE DEF q
<1>3. Here' = "search" /\ Mine' = q /\ pc'["manual"] = "idle"
  BY <1>1, Moves DEF DayInv, PlaceInv
<1>4. day \in Nat
  BY DEF DayInv, StoreInv
<1>5. StoreInv'
  BY <1>1 DEF DayInv, StoreInv
<1>6. PlaceInv'
  <2>1. Mine'.at = day /\ Mine'.was = 0 /\ Mine'.fresh = FALSE /\ DOMAIN Mine'.got = {}
    BY <1>2, <1>3
  <2>2. DOMAIN Mine'.got \subseteq Ids /\ \A id \in DOMAIN Mine'.got : FundRow(Mine'.got[id])
    BY <2>1
  <2>3. Here' \in ResearchAt /\ Here' \notin SyncAt
    BY <1>3 DEF ResearchAt, SyncAt
  <2>4. Mine'.at \in Nat /\ Mine'.at <= day' /\ Mine'.was \in Nat /\ Mine'.fresh \in BOOLEAN
    <3>1. Mine'.fresh \in BOOLEAN
      BY <2>1
    <3>2. Mine'.at \in Nat /\ Mine'.was \in Nat
      BY <1>4, <2>1
    <3>3. Mine'.at <= day'
      BY <1>1, <1>4, <2>1
    <3> QED
      BY <3>1, <3>2, <3>3
  <2> QED
    BY <1>1, <1>3, <2>1, <2>2, <2>3, <2>4 DEF PlaceInv
<1>7. Lately' = Lately /\ AllDescribed' = AllDescribed
  BY <1>1 DEF Lately, AllDescribed
<1>8. FetchInv'
  <2>1. Here' \notin SyncAt /\ Here \notin SyncAt /\ Here' # "store_funds" /\ Here' # "store_managers"
    BY <1>1, <1>3 DEF SyncAt
  <2> QED
    BY <1>1, <1>7, <2>1 DEF DayInv, FetchInv
<1>9. GotInv'
  BY <1>3 DEF GotInv
<1>10. FundTurns' = FundTurns /\ ManagerTurns' = ManagerTurns
  BY <1>1, <1>3 DEF FundTurns, ManagerTurns
<1>11. FundTurnInv' /\ ManagerTurnInv'
  <2>1. FundTurns' <= FundTurns /\ ManagerTurns' <= ManagerTurns
    BY <1>1, <1>10, TurnsTyped DEF DayInv
  <2> QED
    BY <1>1, <2>1, FundTurnKept, ManagerTurnKept DEF DayInv
<1> QED
  BY <1>5, <1>6, <1>8, <1>9, <1>11 DEF DayInv

\* What keeps everything but what KVIC lists keeps all else.
LEMMA SameDay ==
  ASSUME DayInv, StoreInv', UNCHANGED <<day, cycles, success, next, funds, managers, descriptions, profiles, pc, plan>>
  PROVE  DayInv'
<1>1. Here' = Here /\ Mine' = Mine
  BY DEF Here, Mine
<1>2. Lately' = Lately /\ AllDescribed' = AllDescribed /\ FundTurns' = FundTurns /\ ManagerTurns' = ManagerTurns
  BY <1>1 DEF Lately, AllDescribed, FundTurns, ManagerTurns
<1>3. PlaceInv'
  BY <1>1 DEF DayInv, PlaceInv
<1>4. FetchInv'
  BY <1>1, <1>2 DEF DayInv, FetchInv
<1>5. GotInv'
  BY <1>1, SameFunds, SameInvestors DEF DayInv, GotInv
<1>6. FundTurnInv' /\ ManagerTurnInv'
  <2>1. FundTurns' <= FundTurns /\ ManagerTurns' <= ManagerTurns
    BY <1>2, TurnsTyped DEF DayInv
  <2> QED
    BY <2>1, FundTurnKept, ManagerTurnKept DEF DayInv
<1> QED
  BY <1>3, <1>4, <1>5, <1>6 DEF DayInv

LEMMA RelistDay ==
  ASSUME DayInv, NEW f \in ToSet(Funds), NEW expiry \in {0, LaterExpiry}, Relist(f, expiry)
  PROVE  DayInv'
<1>1. /\ listed' = [listed EXCEPT ![f] = expiry]
      /\ UNCHANGED <<day, cycles, success, next, funds, managers, descriptions, profiles, pc, plan>>
  BY DEF Relist, store
<1>2. <<f, LaterExpiry>> \in Ids /\ expiry \in Nat
  BY InvestorDbAssumption DEF Ids
<1>3. /\ listed' = [g \in ToSet(Funds) |-> listed'[g]]
      /\ \A g \in ToSet(Funds) : listed'[g] = IF g = f THEN expiry ELSE listed[g]
  BY <1>1 DEF DayInv, StoreInv
<1>4. \A g \in ToSet(Funds) : listed'[g] \in Nat /\ (listed'[g] # 0 => <<g, listed'[g]>> \in Ids)
  BY <1>2, <1>3 DEF DayInv, StoreInv
<1>5. StoreInv'
  BY <1>1, <1>3, <1>4 DEF DayInv, StoreInv
<1> QED
  BY <1>1, <1>5, SameDay

\* A day of the loop has room for every fund, and for every manager.
RoomForAll ==
  /\ CyclesPerDay >= 2
  /\ (CyclesPerDay - 1) * BatchLimit >= Cardinality(Ids)
  /\ (CyclesPerDay - 1) * BatchLimit >= Cardinality(Managers)

LEMMA WithinLess ==
  ASSUME NEW n \in Nat, NEW k \in Int, NEW c \in Int, NEW all \in Nat, c <= k, Within(n, k, all)
  PROVE  Within(n, c, all)
BY Turns

\* When a day is over everybody has had a turn.
LEMMA EndOfDay ==
  ASSUME RoomForAll, DayInv, cycles = CyclesPerDay
  PROVE  AllDescribed /\ AllProfiled
<1>1. cycles >= 1 /\ cycles \in Nat /\ CyclesPerDay - 1 \in Int
  BY DbConstants
<1>2. FundTurns \in {CyclesPerDay - 1, CyclesPerDay} /\ ManagerTurns \in {CyclesPerDay - 1, CyclesPerDay}
  BY <1>1 DEF FundTurns, ManagerTurns
<1>3. /\ FundTurns \in Int /\ CyclesPerDay - 1 <= FundTurns
      /\ ManagerTurns \in Int /\ CyclesPerDay - 1 <= ManagerTurns
  <2> HIDE DEF FundTurns, ManagerTurns
  <2> QED
    BY <1>2, DbConstants
<1>4. AllDescribed
  <2>1. CASE Within(Cardinality(DueFunds), FundTurns, Cardinality(Ids))
    <3>1. Within(Cardinality(DueFunds), CyclesPerDay - 1, Cardinality(Ids))
      BY <1>1, <1>3, <2>1, DueCount, Countable, WithinLess
    <3>2. Cardinality(DueFunds) = 0
      BY <3>1, DueCount, Countable, Turns DEF RoomForAll
    <3>3. DueFunds = {}
      BY <3>2, DueCount, FS_EmptySet
    <3>4. ASSUME NEW id \in DOMAIN funds PROVE id \in DOMAIN descriptions
      <4>1. id \in Ids /\ id \notin DueFunds
        BY <3>3 DEF DayInv, StoreInv
      <4> QED
        BY <4>1 DEF DueFunds, DescriptionIsDue
    <3> QED
      BY <3>4 DEF AllDescribed
  <2> QED
    BY <1>1, <2>1 DEF DayInv, FundTurnInv
<1>5. AllProfiled
  <2>1. CASE Within(Cardinality(DueManagers), ManagerTurns, Cardinality(Managers))
    <3>1. Within(Cardinality(DueManagers), CyclesPerDay - 1, Cardinality(Managers))
      BY <1>1, <1>3, <2>1, DueCount, Countable, WithinLess
    <3>2. Cardinality(DueManagers) = 0
      BY <3>1, DueCount, Countable, Turns DEF RoomForAll
    <3>3. DueManagers = {}
      BY <3>2, DueCount, FS_EmptySet
    <3>4. ASSUME NEW m \in DOMAIN managers PROVE m \in DOMAIN profiles
      <4>1. m \in Managers /\ m \notin DueManagers
        BY <3>3 DEF DayInv, StoreInv
      <4> QED
        BY <4>1 DEF DueManagers, ProfileIsDue
    <3> QED
      BY <3>4 DEF AllProfiled
  <2> QED
    BY <1>1, <2>1 DEF DayInv, ManagerTurnInv
<1> QED
  BY <1>4, <1>5

\* Another day begins.
LEMMA TickDay ==
  ASSUME RoomForAll, DayInv, Tick
  PROVE  DayInv'
<1>1. /\ cycles = CyclesPerDay /\ day' = day + 1 /\ cycles' = 0
      /\ UNCHANGED <<listed, funds, managers, descriptions, profiles, success, next, pc, plan>>
  BY DEF Tick, store
<1>2. Here' = Here /\ Mine' = Mine
  BY <1>1 DEF Here, Mine
<1>3. AllDescribed' /\ AllDescribed
  BY <1>1, EndOfDay DEF AllDescribed
<1>4. day \in Nat \ {0} /\ CyclesPerDay \in Nat
  BY DbConstants DEF DayInv, StoreInv
<1>5. StoreInv'
  <2>1. day' \in Nat \ {0} /\ cycles' \in 0 .. CyclesPerDay
    BY <1>1, <1>4
  <2> QED
    BY <1>1, <2>1 DEF DayInv, StoreInv
<1>6. PlaceInv'
  <2>1. Mine'.at <= day'
    BY <1>1, <1>2, <1>4 DEF DayInv, PlaceInv
  <2>2. ~(cycles' >= 1)
    BY <1>1
  <2> QED
    BY <1>1, <1>2, <2>1, <2>2 DEF DayInv, PlaceInv
<1>7. FetchInv'
  <2>1. ~(Here \in SyncAt /\ ~Mine.fresh)
    BY <1>1, <1>4 DEF DayInv, FetchInv, RoomForAll
  <2>2. ~(cycles' >= 1) /\ ~(cycles' >= 2)
    BY <1>1
  <2> QED
    BY <1>1, <1>2, <1>3, <2>1, <2>2 DEF DayInv, FetchInv
<1>8. GotInv'
  BY <1>1, <1>2, SameFunds, SameInvestors DEF DayInv, GotInv
<1>9. FundTurnInv' /\ ManagerTurnInv'
  <2>1. ~(cycles' >= 1)
    BY <1>1
  <2> QED
    BY <2>1 DEF FundTurnInv, ManagerTurnInv
<1> QED
  BY <1>5, <1>6, <1>7, <1>8, <1>9 DEF DayInv

\* At the start nothing is stored.
LEMMA DbInitInv == ASSUME DbInit PROVE DbInv
<1>1. Here = "idle" /\ Mine = NoPlan /\ pc["manual"] = "idle"
  BY DEF DbInit, Here, Mine, Processes
<1>2. DbShape
  BY <1>1 DEF DbInit, DbShape, NoPlan
<1>3. StoreInv
  <2>1. /\ listed = [f \in ToSet(Funds) |-> listed[f]]
        /\ \A f \in ToSet(Funds) : listed[f] \in Nat /\ <<f, listed[f]>> \in Ids
    BY InvestorDbAssumption DEF DbInit, Ids
  <2>2. DOMAIN funds = {} /\ DOMAIN managers = {} /\ DOMAIN descriptions = {} /\ DOMAIN profiles = {}
    BY DEF DbInit
  <2>3. day \in Nat \ {0} /\ cycles \in 0 .. CyclesPerDay /\ success \in Nat /\ next \in {"sync", "research"}
    BY DbConstants DEF DbInit
  <2> QED
    BY <2>1, <2>2, <2>3 DEF StoreInv
<1>4. PlaceInv
  <2>1. Mine.at = 0 /\ Mine.fresh = FALSE /\ Mine.was = 0 /\ DOMAIN Mine.got = {}
    BY <1>1 DEF NoPlan
  <2>2. DOMAIN Mine.got \subseteq Ids /\ \A id \in DOMAIN Mine.got : FundRow(Mine.got[id])
    BY <2>1
  <2>3. Mine.fresh \in BOOLEAN
    BY <2>1
  <2>4. Mine.at \in Nat /\ Mine.was \in Nat
    BY <2>1
  <2>5. Mine.at <= day
    BY <2>1 DEF DbInit
  <2>6. Here \notin SyncAt /\ Here \notin ResearchAt /\ Here \in SyncAt \union ResearchAt \union {"idle"}
    BY <1>1 DEF SyncAt, ResearchAt
  <2> QED
    BY <1>1, <2>2, <2>3, <2>4, <2>5, <2>6 DEF PlaceInv
<1>5. FetchInv
  <2>1. AllDescribed
    BY DEF DbInit, AllDescribed
  <2>2. Here \notin SyncAt /\ Here # "store_funds" /\ Here # "store_managers"
    BY <1>1 DEF SyncAt
  <2>3. ~(cycles >= 1) /\ ~(cycles >= 2)
    BY DEF DbInit
  <2> QED
    BY <2>1, <2>2, <2>3 DEF FetchInv
<1>6. GotInv
  BY <1>1 DEF GotInv
<1>7. FundTurnInv /\ ManagerTurnInv
  <2>1. ~(cycles >= 1)
    BY DEF DbInit
  <2> QED
    BY <2>1 DEF FundTurnInv, ManagerTurnInv
<1> QED
  BY <1>2, <1>3, <1>4, <1>5, <1>6, <1>7 DEF DbInv, DayInv

\* Whatever step, of whatever process: what a process holds is a plan, and the
\* counts of faults and of calls by hand only grow.
Grown ==
  /\ bounds' = [changes |-> bounds'.changes, nothing |-> bounds'.nothing,
                manual |-> bounds'.manual, faults |-> bounds'.faults]
  /\ bounds'.manual \in Nat /\ bounds'.faults \in Nat
  /\ bounds'.manual >= bounds.manual /\ bounds'.faults >= bounds.faults

Planned(p) ==
  p = [at |-> p.at, fresh |-> p.fresh, was |-> p.was, got |-> p.got,
       found |-> p.found, fundRows |-> p.fundRows, investorRows |-> p.investorRows]

LEMMA GoesOn ==
  ASSUME DbShape, Grown, NEW u \in Processes, NEW step, NEW p, Goto(u, step, p), u = "loop" => Planned(p)
  PROVE  DbShape'
<1>1. pc' = [w \in Processes |-> pc'[w]] /\ plan' = [w \in Processes |-> plan'[w]]
  BY DEF DbShape, Goto
<1>2. Mine' = IF u = "loop" THEN p ELSE Mine
  BY DEF DbShape, Goto, Mine, Processes
<1>3. Planned(Mine')
  BY <1>2 DEF DbShape, Planned
<1> QED
  BY <1>1, <1>3 DEF DbShape, Grown, Planned

LEMMA CountGoesUp ==
  ASSUME DbShape, NEW what \in {"changes", "manual", "faults"}, Count(what)
  PROVE  /\ Grown
         /\ what = "manual" => bounds'.manual # 0
         /\ what = "faults" => bounds'.faults # 0
<1>1. /\ bounds.manual \in Nat /\ bounds.faults \in Nat
      /\ bounds = [changes |-> bounds.changes, nothing |-> bounds.nothing,
                   manual |-> bounds.manual, faults |-> bounds.faults]
      /\ bounds' = [bounds EXCEPT ![what] = @ + 1]
  BY DEF DbShape, Count
<1>2. CASE what = "changes"
  <2>1. bounds' = [changes |-> bounds.changes + 1, nothing |-> bounds.nothing,
                 manual |-> bounds.manual, faults |-> bounds.faults]
    BY <1>1, <1>2
  <2>2. /\ bounds.manual + 1 \in Nat /\ bounds.manual + 1 >= bounds.manual /\ bounds.manual + 1 # 0
        /\ bounds.faults + 1 \in Nat /\ bounds.faults + 1 >= bounds.faults /\ bounds.faults + 1 # 0
        /\ bounds.manual >= bounds.manual /\ bounds.faults >= bounds.faults
    BY <1>1
  <2> QED
    BY <1>1, <1>2, <2>1, <2>2 DEF Grown
<1>3. CASE what = "manual"
  <2>1. bounds' = [changes |-> bounds.changes, nothing |-> bounds.nothing,
                 manual |-> bounds.manual + 1, faults |-> bounds.faults]
    BY <1>1, <1>3
  <2>2. /\ bounds.manual + 1 \in Nat /\ bounds.manual + 1 >= bounds.manual /\ bounds.manual + 1 # 0
        /\ bounds.faults + 1 \in Nat /\ bounds.faults + 1 >= bounds.faults /\ bounds.faults + 1 # 0
        /\ bounds.manual >= bounds.manual /\ bounds.faults >= bounds.faults
    BY <1>1
  <2> QED
    BY <1>1, <1>3, <2>1, <2>2 DEF Grown
<1>4. CASE what = "faults"
  <2>1. bounds' = [changes |-> bounds.changes, nothing |-> bounds.nothing,
                 manual |-> bounds.manual, faults |-> bounds.faults + 1]
    BY <1>1, <1>4
  <2>2. /\ bounds.manual + 1 \in Nat /\ bounds.manual + 1 >= bounds.manual /\ bounds.manual + 1 # 0
        /\ bounds.faults + 1 \in Nat /\ bounds.faults + 1 >= bounds.faults /\ bounds.faults + 1 # 0
        /\ bounds.manual >= bounds.manual /\ bounds.faults >= bounds.faults
    BY <1>1
  <2> QED
    BY <1>1, <1>4, <2>1, <2>2 DEF Grown
<1> QED
  BY <1>2, <1>3, <1>4

LEMMA Uncounted ==
  ASSUME DbShape, UNCHANGED bounds
  PROVE  Grown
<1>1. /\ bounds.manual \in Nat /\ bounds.faults \in Nat
      /\ bounds = [changes |-> bounds.changes, nothing |-> bounds.nothing,
                   manual |-> bounds.manual, faults |-> bounds.faults]
  BY DEF DbShape
<1>2. bounds.manual >= bounds.manual /\ bounds.faults >= bounds.faults
  BY <1>1
<1> QED
  BY <1>1, <1>2 DEF Grown

LEMMA NothingFound ==
  ASSUME DbShape, NEW n, bounds' = [bounds EXCEPT !.nothing = n]
  PROVE  Grown
<1>1. /\ bounds.manual \in Nat /\ bounds.faults \in Nat
      /\ bounds = [changes |-> bounds.changes, nothing |-> bounds.nothing,
                   manual |-> bounds.manual, faults |-> bounds.faults]
  BY DEF DbShape
<1>2. bounds' = [changes |-> bounds.changes, nothing |-> n,
                 manual |-> bounds.manual, faults |-> bounds.faults]
  BY <1>1
<1>3. bounds.manual >= bounds.manual /\ bounds.faults >= bounds.faults
  BY <1>1
<1> QED
  BY <1>1, <1>2, <1>3 DEF Grown

\* Every step of a process leaves a plan and the counts; one by hand is counted
\* or goes on with a call that was.
LEMMA StepShape ==
  ASSUME DbShape, NEW u \in Processes, Step(u) \/ Die(u)
  PROVE  DbShape' /\ Grown
<1>1. NoPlan = [at |-> 0, fresh |-> FALSE, was |-> 0, got |-> <<>>, found |-> <<>>,
                fundRows |-> {}, investorRows |-> {}]
  BY DEF NoPlan
<1>2. Planned(NoPlan)
  BY <1>1 DEF Planned
<1>3. u = "loop" => Planned(plan[u])
  BY DEF DbShape, Mine, Planned
<1>4. ASSUME NEW name, May(u, name) PROVE Grown
  <2>1. CASE u = "loop"
    BY <1>4, <2>1, Uncounted DEF May
  <2>2. CASE u = "manual"
    BY <1>4, <2>2, CountGoesUp DEF May
  <2> QED
    BY <2>1, <2>2 DEF Processes
<1>5. ASSUME NEW step, Goto(u, step, plan[u]), UNCHANGED bounds PROVE DbShape' /\ Grown
  BY <1>3, <1>5, Uncounted, GoesOn
<1>6. ASSUME NEW step, Goto(u, step, NoPlan), Grown PROVE DbShape'
  BY <1>2, <1>6, GoesOn
<1>7. CASE StartSync(u)
  <2> DEFINE p == [NoPlan EXCEPT !.at = day, !.was = success, !.fresh = IsFresh(u)]
             q == IF p.fresh THEN [p EXCEPT !.got = funds] ELSE [p EXCEPT !.got = Fetched(day)]
             fresh == IsFresh(u)
             got == IF p.fresh THEN funds ELSE Fetched(day)
             step == IF p.fresh THEN "describe" ELSE "store_funds"
  <2>1. Goto(u, step, q)
    BY <1>7 DEF StartSync
  <2>2. Planned(q)
    <3> HIDE DEF fresh
    <3>1. p = [at |-> day, fresh |-> fresh, was |-> success, got |-> <<>>, found |-> <<>>,
               fundRows |-> {}, investorRows |-> {}]
      <4> DEFINE none == NoPlan
      <4>1. p = [none EXCEPT !.at = day, !.was = success, !.fresh = fresh]
        BY DEF fresh
      <4>2. none = [at |-> 0, fresh |-> FALSE, was |-> 0, got |-> <<>>, found |-> <<>>,
                    fundRows |-> {}, investorRows |-> {}]
        BY <1>1
      <4> HIDE DEF none, p
      <4> QED
        BY <4>1, <4>2
    <3>2. q = [p EXCEPT !.got = got]
      OBVIOUS
    <3> HIDE DEF p, q, got, fresh
    <3>3. q = [at |-> day, fresh |-> fresh, was |-> success, got |-> got, found |-> <<>>,
               fundRows |-> {}, investorRows |-> {}]
      BY <3>1, <3>2
    <3> QED
      BY <3>3 DEF Planned
  <2> HIDE DEF q, step
  <2>3. Grown
    BY <1>4, <1>7 DEF StartSync
  <2> QED
    BY <2>1, <2>2, <2>3, GoesOn
<1>8. CASE StartResearch(u)
  <2> DEFINE q == [NoPlan EXCEPT !.at = day]
  <2>1. Goto(u, "search", q)
    BY <1>8 DEF StartResearch
  <2>2. Planned(q)
    <3>1. q = [at |-> day, fresh |-> FALSE, was |-> 0, got |-> <<>>, found |-> <<>>,
               fundRows |-> {}, investorRows |-> {}]
      <4> DEFINE none == NoPlan
                 unread == FALSE
      <4>1. q = [none EXCEPT !.at = day]
        OBVIOUS
      <4>2. none = [at |-> 0, fresh |-> unread, was |-> 0, got |-> <<>>, found |-> <<>>,
                    fundRows |-> {}, investorRows |-> {}]
        BY <1>1
      <4> HIDE DEF none, q, unread
      <4>3. q = [at |-> day, fresh |-> unread, was |-> 0, got |-> <<>>, found |-> <<>>,
                 fundRows |-> {}, investorRows |-> {}]
        BY <4>1, <4>2
      <4> QED
        BY <4>3 DEF unread
    <3> HIDE DEF q
    <3> QED
      BY <3>1 DEF Planned
  <2> HIDE DEF q
  <2>3. Grown
    BY <1>4, <1>8 DEF StartResearch
  <2> QED
    BY <2>1, <2>2, <2>3, GoesOn
<1>9. CASE StoreFunds(u)
  BY <1>5, <1>9 DEF StoreFunds
<1>10. CASE StoreManagers(u)
  BY <1>5, <1>10 DEF StoreManagers
<1>11. CASE StoreDescriptions(u)
  BY <1>5, <1>11 DEF StoreDescriptions
<1>12. CASE StoreProfiles(u)
  BY <1>5, <1>12 DEF StoreProfiles
<1>13. CASE PublishFunds(u)
  BY <1>5, <1>13 DEF PublishFunds
<1>14. ASSUME NEW step, NEW found, Goto(u, step, [plan[u] EXCEPT !.found = found]),
              NEW n, bounds' = [bounds EXCEPT !.nothing = n]
       PROVE  DbShape' /\ Grown
  <2> DEFINE q == [plan[u] EXCEPT !.found = found]
  <2>1. u = "loop" => Planned(q)
    BY <1>3 DEF Planned
  <2>2. Goto(u, step, q)
    BY <1>14
  <2>3. Grown
    BY <1>14, NothingFound
  <2> HIDE DEF q
  <2> QED
    BY <2>1, <2>2, <2>3, GoesOn
<1>15. CASE Describe(u)
  <2>1. PICK found : /\ Goto(u, "store_descriptions", [plan[u] EXCEPT !.found = found])
                     /\ bounds' = [bounds EXCEPT !.nothing = @ + Empty(found)]
    BY <1>15 DEF Describe
  <2> QED
    BY <1>14, <2>1
<1>16. CASE Research(u)
  <2>1. PICK found : /\ Goto(u, "store_profiles", [plan[u] EXCEPT !.found = found])
                     /\ bounds' = [bounds EXCEPT !.nothing = @ + Empty(found)]
    BY <1>16 DEF Research
  <2> QED
    BY <1>14, <2>1
<1>17. CASE ReadStore(u)
  <2> DEFINE step == IF pc[u] = "read" THEN "publish_investors" ELSE "publish"
             fs == IF pc[u] = "read" THEN FundRows ELSE {}
             q == [plan[u] EXCEPT !.fundRows = fs, !.investorRows = InvestorRows]
  <2>1. Goto(u, step, q) /\ UNCHANGED bounds
    BY <1>17 DEF ReadStore
  <2> HIDE DEF step, fs
  <2>2. u = "loop" => Planned(q)
    <3> DEFINE rs == InvestorRows
               was == plan[u]
    <3>1. q = [was EXCEPT !.fundRows = fs, !.investorRows = rs]
      OBVIOUS
    <3>2. u = "loop" => Planned(was)
      BY <1>3
    <3> HIDE DEF rs, was, q
    <3> QED
      BY <3>1, <3>2 DEF Planned
  <2>3. Grown
    BY <2>1, Uncounted
  <2> HIDE DEF q
  <2> QED
    BY <2>1, <2>2, <2>3, GoesOn
<1>18. CASE PublishInvestors(u)
  <2>1. Goto(u, "idle", NoPlan) \/ Goto(u, "publish_funds", plan[u])
    BY <1>18 DEF PublishInvestors, Finish
  <2>2. UNCHANGED bounds
    BY <1>18 DEF PublishInvestors
  <2> QED
    BY <1>5, <1>6, <2>1, <2>2, Uncounted
<1>19. CASE PersistState(u)
  BY <1>6, <1>19, Uncounted DEF PersistState, Finish
<1>20. CASE Die(u)
  BY <1>6, <1>20, CountGoesUp DEF Die, Finish
<1> QED
  BY <1>7, <1>8, <1>9, <1>10, <1>11, <1>12, <1>13, <1>15, <1>16, <1>17, <1>18, <1>19, <1>20 DEF Step

\* In a day without faults and calls by hand the loop's steps are all there are.
LEMMA StepDay ==
  ASSUME DbShape, DayInv, NEW u \in Processes, Step(u) \/ Die(u), Undisturbed'
  PROVE  DayInv'
<1>1. bounds'.manual = 0 /\ bounds'.faults = 0
  BY DEF Undisturbed
<1>2. ~Die(u)
  BY <1>1, CountGoesUp DEF Die
<1>3. CASE u = "manual"
  <2>1. pc[u] = "idle"
    BY <1>3 DEF DayInv, PlaceInv
  <2>2. \A name : ~May(u, name)
    BY <1>1, <1>3, CountGoesUp DEF May
  <2> QED
    BY <1>2, <2>1, <2>2 DEF Step, StartSync, StoreFunds, StoreManagers, Describe, StoreDescriptions,
       StartResearch, Research, StoreProfiles, ReadStore, PublishInvestors, PublishFunds, PersistState
<1>4. CASE u = "loop"
  BY <1>2, <1>4, StartSyncDay, StoreFundsDay, StoreManagersDay, DescribeDay, StoreDescriptionsDay,
     StartResearchDay, ResearchDay, StoreProfilesDay, ReadStoreDay, PublishInvestorsDay, PublishFundsDay,
     PersistStateDay DEF Step
<1> QED
  BY <1>3, <1>4 DEF Processes

LEMMA DbNextInv ==
  ASSUME RoomForAll, DbInv, [DbNext]_dbVars
  PROVE  DbInv'
<1>0. DbShape
  BY DEF DbInv
<1>1. ASSUME Grown, Undisturbed' PROVE DayInv
  <2>1. bounds'.manual = 0 /\ bounds'.faults = 0 /\ bounds.manual \in Nat /\ bounds.faults \in Nat
    BY <1>1 DEF DbInv, DbShape, Undisturbed
  <2>2. bounds.manual = 0 /\ bounds.faults = 0
    BY <1>1, <2>1 DEF Grown
  <2> QED
    BY <2>2 DEF DbInv, Undisturbed
<1>2. ASSUME NEW u \in Processes, Step(u) \/ Die(u) PROVE DbInv'
  BY <1>0, <1>1, <1>2, StepShape, StepDay DEF DbInv
<1>3. ASSUME Grown, UNCHANGED <<pc, plan>> PROVE DbShape'
  BY <1>0, <1>3 DEF DbShape, Grown, Mine
<1>4. CASE Tick
  <2>1. Grown /\ UNCHANGED <<pc, plan>>
    BY <1>0, <1>4, Uncounted DEF Tick
  <2> QED
    BY <1>1, <1>3, <1>4, <2>1, TickDay DEF DbInv
<1>5. ASSUME NEW f \in ToSet(Funds), NEW expiry \in {0, LaterExpiry}, Relist(f, expiry) PROVE DbInv'
  <2>1. Grown /\ UNCHANGED <<pc, plan>>
    BY <1>0, <1>5, CountGoesUp DEF Relist
  <2> QED
    BY <1>1, <1>3, <1>5, <2>1, RelistDay DEF DbInv
<1>6. CASE UNCHANGED dbVars
  <2>1. UNCHANGED <<day, listed, cycles, success, next, funds, managers, descriptions, profiles, pc, plan, bounds>>
    BY <1>6 DEF dbVars, world, store
  <2>2. Grown
    BY <1>0, <2>1, Uncounted
  <2>3. ASSUME DayInv PROVE DayInv'
    <3>1. StoreInv'
      BY <2>1, <2>3 DEF DayInv, StoreInv
    <3> QED
      BY <2>1, <2>3, <3>1, SameDay
  <2> QED
    BY <1>1, <1>3, <2>1, <2>2, <2>3 DEF DbInv
<1> QED
  BY <1>2, <1>4, <1>5, <1>6 DEF DbNext

\* For every list of funds, every interval and every limit of a batch: if the loop's
\* cycles of a day, but for one that began the day before, have room for every
\* fund and every manager, and no call by hand and no death comes between, each
\* fund and manager that is stored when the day is over has been described or
\* researched, however often searches found nothing and whatever KVIC changed.
THEOREM EverybodysTurn == ASSUME RoomForAll PROVE DbSpec => TurnEveryDay
<1>1. DbInv /\ [DbNext]_dbVars =>
        [day' > day /\ bounds.faults = 0 /\ bounds.manual = 0 =>
           DOMAIN funds \subseteq DOMAIN descriptions /\ DOMAIN managers \subseteq DOMAIN profiles]_dbVars
  <2> SUFFICES ASSUME DbInv, DbNext, day' > day, Undisturbed
               PROVE  AllDescribed /\ AllProfiled
    BY DEF Undisturbed, AllDescribed, AllProfiled
  <2>1. DayInv /\ day \in Nat
    BY DEF DbInv, DayInv, StoreInv
  <2>2. CASE Tick
    BY <2>1, <2>2, EndOfDay DEF Tick
  <2>3. CASE day' = day
    BY <2>1, <2>3
  <2> QED
    BY <2>2, <2>3 DEF DbNext, Step, StartSync, StoreFunds, StoreManagers, Describe, StoreDescriptions,
       StartResearch, Research, StoreProfiles, ReadStore, PublishInvestors, PublishFunds, PersistState,
       Die, Relist, world
<1>2. DbInit => DbInv
  BY DbInitInv
<1>3. DbInv /\ [DbNext]_dbVars => DbInv'
  BY DbNextInv
<1> QED
  BY <1>1, <1>2, <1>3, PTL DEF DbSpec, TurnEveryDay
=============================================================================
