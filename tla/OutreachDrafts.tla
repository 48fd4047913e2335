--------------------------- MODULE OutreachDrafts ---------------------------
(***************************************************************************)
(* draft_outreach_emails over AppsScriptDraftClient and the Apps Script    *)
(* gateway that creates the Gmail drafts.  The job is one process of the   *)
(* agent loop; the gateway serves each request in an execution of its own, *)
(* which goes on when the client has given up on it.  The results of a     *)
(* whole call are written at its end: first to outreach_email_drafts, then *)
(* to the "Outreach Drafts" tab.                                           *)
(*                                                                         *)
(* Abstractions: a contact is the normalised (company, email) pair of a    *)
(* candidate with a valid address; the order of the candidates is any;     *)
(* the signature, digest and age of a request are always in order.         *)
(***************************************************************************)
EXTENDS Integers, FiniteSets

CONSTANTS
  Contacts,    \* the candidates' keys
  Rejected,    \* those of which Gmail never takes a draft
  Executions,  \* bound: executions of the gateway at one time
  MaxItems,    \* OUTREACH_BATCH_LIMIT, attempts of one call
  MaxPerDay,   \* HERMES_DRAFT_MAX_PER_DAY
  MaxFaults    \* bound: lost answers, requests not served, locks not got, deaths

ASSUME OutreachAssumption ==
  /\ Contacts # {} /\ Rejected \subseteq Contacts
  /\ Executions # {} /\ IsFiniteSet(Executions)
  /\ MaxItems \in Nat \ {0} /\ MaxPerDay \in Nat \ {0} /\ MaxFaults \in Nat

VARIABLES
  db, tab,     \* status of the contact's row in the table and in the tab
  point,       \* where the job is
  todo,        \* contacts it has not looked at
  attempted,   \* create_draft calls of this run
  outcome,     \* draft_rows of this run, "none" if not attempted
  asked,       \* the execution it waits for, and for whom
  stage,       \* each execution: "free", "received", "checked", "created",
               \* "ok" or "refused"
  contact,     \* whom the execution's draft is for
  counter,     \* the script property draft_count_<today>
  gmail,       \* drafts in the mailbox, per contact
  today,       \* history: drafts created since the day began
  uncounted,   \* history: of those, the ones whose increment failed
  lost,        \* history: answers lost after the request, per contact
  faults

job     == <<point, todo, attempted, outcome, asked>>
gateway == <<stage, contact, counter, gmail, today, uncounted>>
vars    == <<db, tab, job, gateway, lost, faults>>

Statuses == {"none", "draft_created", "error"}
Nothing  == [c \in Contacts |-> "none"]
Waiting  == {c \in Contacts : \E x \in Executions : asked = <<x, c>>}
-----------------------------------------------------------------------------
(* The gateway, one execution.                                             *)

\* Mutation of Check: the limit is not enforced.
CheckNothing(x) ==
  /\ stage[x] = "received"
  /\ stage' = [stage EXCEPT ![x] = "checked"]
  /\ UNCHANGED <<contact, counter, gmail, today, uncounted>>

\* validatePayload: enforceDailyLimit reads the counter without the lock.
Check(x) ==
  /\ stage[x] = "received"
  /\ stage' = [stage EXCEPT ![x] = IF counter >= MaxPerDay THEN "refused" ELSE "checked"]
  /\ UNCHANGED <<contact, counter, gmail, today, uncounted>>

\* GmailApp.createDraft
CreateDraft(x) ==
  /\ stage[x] = "checked" /\ contact[x] \notin Rejected
  /\ stage' = [stage EXCEPT ![x] = "created"]
  /\ gmail' = [gmail EXCEPT ![contact[x]] = @ + 1]
  /\ today' = today + 1
  /\ UNCHANGED <<contact, counter, uncounted>>

\* It raises: the answer says ok: false, there is no draft and nothing is counted.
CreateRaises(x) ==
  /\ stage[x] = "checked"
  /\ stage' = [stage EXCEPT ![x] = "refused"]
  /\ UNCHANGED <<contact, counter, gmail, today, uncounted>>

\* incrementDailyCounter, under the script lock.
Increment(x) ==
  /\ stage[x] = "created"
  /\ stage' = [stage EXCEPT ![x] = "ok"]
  /\ counter' = counter + 1
  /\ UNCHANGED <<contact, gmail, today, uncounted>>

\* waitLock(5000) raises: the draft exists and the answer says ok: false.
IncrementFails(x) ==
  /\ stage[x] = "created"
  /\ stage' = [stage EXCEPT ![x] = "refused"]
  /\ uncounted' = uncounted + 1
  /\ UNCHANGED <<contact, counter, gmail, today>>

\* The key of the counter is the date in Seoul.
NewDay ==
  /\ counter > 0 \/ today > 0
  /\ counter' = 0 /\ today' = 0 /\ uncounted' = 0
  /\ UNCHANGED <<db, tab, job, stage, contact, gmail, lost, faults>>
-----------------------------------------------------------------------------
(* draft_outreach_emails                                                   *)

\* Mutation of Existing: the tab alone says what was drafted.
ExistingInTab == {c \in Contacts : tab[c] = "draft_created"}

\* Mutation of Existing: a failed attempt is taken for a draft.
ExistingAnyRow == {c \in Contacts : db[c] # "none" \/ tab[c] # "none"}

\* _existing_draft_keys
Existing == {c \in Contacts : db[c] = "draft_created" \/ tab[c] = "draft_created"}

Start ==
  /\ point = "idle"
  /\ todo' = Contacts \ Existing
  /\ attempted' = 0
  /\ outcome' = Nothing
  /\ point' = "loop"
  /\ UNCHANGED <<db, tab, asked, gateway, lost, faults>>

\* create_draft posts the request.
Request(c, x) ==
  /\ point = "loop"
  /\ c \in todo /\ attempted < MaxItems
  /\ stage[x] = "free"
  /\ todo' = todo \ {c}
  /\ attempted' = attempted + 1
  /\ asked' = <<x, c>>
  /\ stage' = [stage EXCEPT ![x] = "received"]
  /\ contact' = [contact EXCEPT ![x] = c]
  /\ point' = "wait"
  /\ UNCHANGED <<db, tab, outcome, counter, gmail, today, uncounted, lost, faults>>

\* The job has its answer, or an exception, about c.
Resume(c, status) ==
  /\ outcome' = [outcome EXCEPT ![c] = status]
  /\ asked' = <<>>
  /\ point' = "loop"
  /\ UNCHANGED <<todo, attempted>>

\* The answer arrives.
Answer(c, x) ==
  /\ asked = <<x, c>> /\ stage[x] \in {"ok", "refused"}
  /\ stage' = [stage EXCEPT ![x] = "free"]
  /\ Resume(c, IF stage[x] = "ok" THEN "draft_created" ELSE "error")
  /\ UNCHANGED <<db, tab, contact, counter, gmail, today, uncounted, lost, faults>>

\* timeout_seconds are over, or the connection breaks; the execution goes on.
TimeOut(c, x) ==
  /\ asked = <<x, c>>
  /\ faults < MaxFaults /\ faults' = faults + 1
  /\ lost' = [lost EXCEPT ![c] = @ + 1]
  /\ Resume(c, "error")
  /\ UNCHANGED <<db, tab, gateway>>

\* The request never reaches the gateway.
Unreachable(c, x) ==
  /\ asked = <<x, c>> /\ stage[x] = "received"
  /\ faults < MaxFaults /\ faults' = faults + 1
  /\ stage' = [stage EXCEPT ![x] = "free"]
  /\ Resume(c, "error")
  /\ UNCHANGED <<db, tab, contact, counter, gmail, today, uncounted, lost>>

\* An execution nobody waits for any more ends.
Abandoned(x) ==
  /\ stage[x] \in {"ok", "refused"} /\ asked # <<x, contact[x]>>
  /\ stage' = [stage EXCEPT ![x] = "free"]
  /\ UNCHANGED <<db, tab, job, contact, counter, gmail, today, uncounted, lost, faults>>

\* The loop is over: one upsert of all its rows.
Log ==
  /\ point = "loop"
  /\ todo = {} \/ attempted = MaxItems
  /\ db' = [c \in Contacts |-> IF outcome[c] = "none" THEN db[c] ELSE outcome[c]]
  /\ point' = "publish"
  /\ UNCHANGED <<tab, todo, attempted, outcome, asked, gateway, lost, faults>>

\* The same rows go to the tab.
Publish ==
  /\ point = "publish"
  /\ tab' = [c \in Contacts |-> IF outcome[c] = "none" THEN tab[c] ELSE outcome[c]]
  /\ point' = "idle"
  /\ UNCHANGED <<db, todo, attempted, outcome, asked, gateway, lost, faults>>

\* The job dies, or the store or the sheet raises.  What it had drafted and
\* not logged, and the answer it waits for, are lost.
Crash ==
  /\ point # "idle"
  /\ faults < MaxFaults /\ faults' = faults + 1
  /\ lost' = [c \in Contacts |->
       IF c \in Waiting \/ (point \in {"loop", "wait"} /\ outcome[c] = "draft_created")
         THEN lost[c] + 1 ELSE lost[c]]
  /\ point' = "idle" /\ asked' = <<>>
  /\ outcome' = Nothing /\ todo' = {} /\ attempted' = 0
  /\ UNCHANGED <<db, tab, gateway>>

-----------------------------------------------------------------------------
Init ==
  /\ db = Nothing /\ tab = Nothing
  /\ point = "idle" /\ todo = {} /\ attempted = 0 /\ outcome = Nothing /\ asked = <<>>
  /\ stage = [x \in Executions |-> "free"]
  /\ contact = [x \in Executions |-> CHOOSE c \in Contacts : TRUE]
  /\ counter = 0 /\ gmail = [c \in Contacts |-> 0]
  /\ today = 0 /\ uncounted = 0
  /\ lost = [c \in Contacts |-> 0]
  /\ faults = 0

Gateway(x) ==
  \/ Check(x) \/ CreateDraft(x) \/ Increment(x)
  \/ contact[x] \in Rejected /\ CreateRaises(x)

GmailFault(x) ==
  /\ contact[x] \notin Rejected /\ CreateRaises(x)
  /\ faults < MaxFaults /\ faults' = faults + 1
  /\ UNCHANGED <<db, tab, job, lost>>

LockTimeout(x) ==
  /\ IncrementFails(x)
  /\ faults < MaxFaults /\ faults' = faults + 1
  /\ lost' = [lost EXCEPT ![contact[x]] = @ + 1]
  /\ UNCHANGED <<db, tab, job>>

Job ==
  \/ Start \/ Log \/ Publish
  \/ \E c \in Contacts, x \in Executions : Request(c, x) \/ Answer(c, x)

Next ==
  \/ NewDay \/ Job \/ Crash
  \/ \E x \in Executions :
       \/ Gateway(x) /\ UNCHANGED <<db, tab, job, lost, faults>>
       \/ GmailFault(x) \/ LockTimeout(x) \/ Abandoned(x)
  \/ \E c \in Contacts, x \in Executions : TimeOut(c, x) \/ Unreachable(c, x)

Spec == Init /\ [][Next]_vars

\* The loop runs the job again and again, executions end, days pass.
Fairness ==
  /\ WF_vars(Job) /\ WF_vars(NewDay)
  /\ \A x \in Executions :
       WF_vars((Gateway(x) /\ UNCHANGED <<db, tab, job, lost, faults>>) \/ Abandoned(x))

FairSpec == Spec /\ Fairness
-----------------------------------------------------------------------------
(* Properties.                                                             *)

\* A contact gets a second draft only if the answer about an earlier one was
\* lost on its way into the table: no crossing of late executions, new runs,
\* batch limits and the split table and tab makes one otherwise.
DuplicatesHaveACause == \A c \in Contacts : gmail[c] <= 1 + lost[c]

\* The daily limit is only overrun by executions that passed its check side
\* by side, and by drafts whose increment failed.
DailyLimit == today <= MaxPerDay + (Cardinality(Executions) - 1) + uncounted

\* Once faults stop, every candidate ends up drafted and logged for good, whatever
\* limits of batch and day stand in between; but for those whom Gmail rejects, and
\* if they are fewer than a run attempts: an attempt that failed counts and is made
\* again in every run, so that as many of them as OUTREACH_BATCH_LIMIT can keep the
\* rest from their turn for ever.
EveryoneDrafted ==
  Cardinality(Rejected) < MaxItems =>
    \A c \in Contacts \ Rejected : <>[](db[c] = "draft_created")
=============================================================================
