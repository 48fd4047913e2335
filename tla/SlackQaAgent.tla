---------------------------- MODULE SlackQaAgent ----------------------------
(***************************************************************************)
(* scripts/slack_qa_realtime_agent.py, which answers each QA message of    *)
(* one Slack channel in a reply to its thread, has a GitHub issue created  *)
(* and posts a notice about it to the channel.  It learns of messages by   *)
(* polling the history of the channel, as it is operated, or, with         *)
(* --socket-mode, from events that threads handle as they come.  Keys of   *)
(* processed messages are kept in memory and in the state file.            *)
(*                                                                         *)
(* A message is its position in the channel, which stands for its ts.  All *)
(* that matters of its text is whether is_qa_message holds of it and which *)
(* its first 80 characters are, as they are in the dedupe_key: a member    *)
(* who edits them gives the message another key.  The event of an edit has *)
(* no text of its own, so that nothing listens to it in socket mode.  The  *)
(* process may die, by an exception of Slack or of the hand-off to Hermes  *)
(* or otherwise, at any point; launchd starts it again.                    *)
(***************************************************************************)
EXTENDS Integers, Sequences, FiniteSets

CONSTANTS
  Modes,          \* "poll", and "socket" with --socket-mode
  Limit,          \* --limit, messages of one history read
  NoticeIsQa,     \* is_qa_message of a notice, which quotes the QA message
  Threads,        \* threads of the socket client that handle events
  MaxDeliveries,  \* bound: times that Slack delivers one event
  MaxUser,        \* bound: messages that users post
  MaxMessages,    \* bound: messages in the channel
  MaxEdits,       \* bound: edits
  MaxDeaths       \* bound: deaths of the process

ASSUME SlackQaAssumption ==
  /\ Modes \subseteq {"poll", "socket"}
  /\ Limit \in Nat \ {0}
  /\ NoticeIsQa \subseteq BOOLEAN
  /\ MaxDeliveries \in Nat \ {0}
  /\ MaxUser \in Nat /\ MaxMessages \in Nat
  /\ MaxEdits \in Nat /\ MaxDeaths \in Nat

VARIABLES
  mode,       \* of the process, one of Modes
  delegate,   \* --delegate: "hermes" or "local"
  tickets,    \* --create-github-issue
  ignore,     \* --ignore-existing-on-start, which socket mode does not look at
  channel,    \* its messages: by whom, is_qa_message of the text, the start
              \* of the text, and how often it was edited
  replies,    \* replies in the thread of each message
  issues,     \* GitHub issues created for each message
  owed,       \* deliveries to come of the event of each message
  file,       \* keys in the state file
  readable,   \* it holds JSON
  point,      \* where the process is, "down" if it does not run
  seen,       \* processed_keys
  history,    \* the channel as this history read returned it
  batch,      \* its messages still to be looked at
  newly,      \* newly_processed
  current,    \* the message it is posting about, 0 if none
  noticed,    \* its plan has a channel notice
  handler,    \* what each thread of the socket client is doing
  unkeyed,    \* messages that came again, or failed, before their key was noted
  clash,      \* a key was noted while another thread was saving
  deaths

options == <<mode, delegate, tickets, ignore>>
slack   == <<channel, replies, issues>>
state   == <<file, readable>>
loop    == <<history, batch, newly, current, noticed>>
process == <<point, seen, loop>>
socket  == <<owed, handler, unkeyed, clash>>
vars    == <<options, slack, state, process, socket, deaths>>

Ids == 1 .. MaxMessages
Posted == 1 .. Len(channel)
IsQa(i) == channel[i].qa

\* Mutation of Window: the oldest messages.
WindowOldest == {i \in Posted : i <= Limit}

\* conversations_history: the newest messages of the channel.
Window == {i \in Posted : i > Len(channel) - Limit}

\* dedupe_key, of a message as it is and as the history read returned it.
Key(i) == <<i, channel[i].text>>
KeyRead(i) == <<i, history[i].text>>

IsNext(i) == i \in batch /\ \A j \in batch : i <= j
IsDue(i) == IsNext(i) /\ history[i].qa /\ KeyRead(i) \notin seen \union newly

Message(by, qa) == [by |-> by, qa |-> qa, text |-> 0, edits |-> 0]

\* build_slack_issue_reply, in the channel.  In socket mode the handler leaves
\* its event at once, whatever its text, so that none is counted.
Notice ==
  /\ Len(channel) < MaxMessages
  /\ \E qa \in IF point = "listen" THEN {FALSE} ELSE NoticeIsQa :
       channel' = Append(channel, Message("bot", qa))

\* A message that Hermes itself handles to the end.
HandsOff == delegate = "hermes" /\ tickets

Idle == [at |-> "idle", msg |-> 0, keys |-> {}, noticed |-> FALSE]
-----------------------------------------------------------------------------
\* Somebody posts to the channel.  An event comes, perhaps more than once, to
\* the process that listens, and is lost if there is none.
UserPosts(qa) ==
  /\ Cardinality({i \in Posted : channel[i].by = "user"}) < MaxUser
  /\ Len(channel) < MaxMessages
  /\ channel' = Append(channel, Message("user", qa))
  /\ \E n \in IF point = "listen" THEN 1 .. MaxDeliveries ELSE {0} :
        owed' = [owed EXCEPT ![Len(channel')] = n]
  /\ UNCHANGED <<options, replies, issues, state, process, handler, unkeyed, clash, deaths>>

Reworded(m, qa, text) == [m EXCEPT !.qa = qa, !.text = text, !.edits = @ + 1]

Edits == {e \in Posted \X (1 .. MaxEdits) : e[2] <= channel[e[1]].edits}

\* Its author changes a message: its first 80 characters, perhaps back to what
\* they were, or that it is a QA message.
UserEdits(i, qa, text) ==
  /\ mode = "poll"
  /\ Cardinality(Edits) < MaxEdits
  /\ i \in Posted /\ channel[i].by = "user"
  /\ channel[i].qa # qa \/ channel[i].text # text
  /\ channel' = [channel EXCEPT ![i] = Reworded(@, qa, text)]
  /\ UNCHANGED <<options, replies, issues, state, process, socket, deaths>>

\* main and the start of _poll_history: with ignore, the QA messages there
\* get marked as processed without an answer.
Launch ==
  /\ point = "down" /\ mode = "poll"
  /\ readable
  /\ seen' = file \union (IF ignore THEN {Key(i) : i \in {j \in Window : IsQa(j)}} ELSE {})
  /\ file' = seen'
  /\ point' = "sleep"
  /\ UNCHANGED <<options, slack, readable, loop, socket, deaths>>

\* The history read of _process_recent_history.
Read ==
  /\ point = "sleep"
  /\ history' = channel
  /\ batch' = Window
  /\ newly' = {}
  /\ point' = "look"
  /\ UNCHANGED <<options, slack, state, seen, current, noticed, socket, deaths>>

\* _plan_message returns None: not a QA message, or processed before.
Skip(i) ==
  /\ point = "look"
  /\ IsNext(i) /\ ~IsDue(i)
  /\ batch' = batch \ {i}
  /\ UNCHANGED <<options, slack, state, point, seen, history, newly, current, noticed, socket, deaths>>

\* A draft of the process's own.  Its issue is created, and then there is a
\* notice, or the failure goes into the draft.
Draft(i, notice) ==
  /\ ~HandsOff
  /\ \/ tickets /\ issues' = [issues EXCEPT ![i] = @ + 1] /\ notice
     \/ UNCHANGED issues /\ ~notice

\* _plan_message with --delegate local, or with no issue to create: Hermes
\* then only writes the draft, and has a local one in its place if it fails.
PlanLocal(i) ==
  /\ point = "look"
  /\ IsDue(i)
  /\ \E notice \in BOOLEAN : Draft(i, notice) /\ noticed' = notice
  /\ batch' = batch \ {i} /\ newly' = newly \union {KeyRead(i)}
  /\ current' = i
  /\ point' = "reply"
  /\ UNCHANGED <<options, channel, replies, state, seen, history, socket, deaths>>

\* _post_plan, first message.
Reply ==
  /\ point = "reply"
  /\ replies' = [replies EXCEPT ![current] = @ + 1]
  /\ point' = IF noticed THEN "notice" ELSE "look"
  /\ current' = 0 /\ noticed' = FALSE
  /\ UNCHANGED <<options, channel, issues, state, seen, history, batch, newly, socket, deaths>>

\* _post_plan, second message.
PostNotice ==
  /\ point = "notice"
  /\ Notice
  /\ point' = "look"
  /\ UNCHANGED <<options, replies, issues, state, seen, loop, socket, deaths>>

\* run_hermes_qa_handoff with issues on: Hermes itself creates the issue and
\* posts both messages, as build_hermes_qa_execution_prompt tells it to.
Hermes(i) ==
  /\ HandsOff
  /\ issues' = [issues EXCEPT ![i] = @ + 1]
  /\ replies' = [replies EXCEPT ![i] = @ + 1]
  /\ Notice

HandOff(i) ==
  /\ point = "look"
  /\ IsDue(i)
  /\ Hermes(i)
  /\ batch' = batch \ {i} /\ newly' = newly \union {KeyRead(i)}
  /\ UNCHANGED <<options, state, point, seen, history, current, noticed, socket, deaths>>

\* Hermes fails or takes too long, after any of its steps.
HermesFails(i) ==
  /\ HandsOff
  /\ \/ UNCHANGED slack
     \/ issues' = [issues EXCEPT ![i] = @ + 1] /\ UNCHANGED <<channel, replies>>
     \/ /\ issues' = [issues EXCEPT ![i] = @ + 1]
        /\ replies' = [replies EXCEPT ![i] = @ + 1]
        /\ UNCHANGED channel
     \/ Hermes(i)

\* What is in memory goes; events not taken yet come to the next process.
Dies ==
  /\ deaths < MaxDeaths /\ deaths' = deaths + 1
  /\ point' = "down" /\ seen' = {} /\ history' = <<>> /\ batch' = {} /\ newly' = {}
  /\ current' = 0 /\ noticed' = FALSE
  /\ handler' = [h \in Threads |-> Idle] /\ clash' = FALSE
  /\ UNCHANGED <<owed, unkeyed>>

\* With issues on, _plan_message raises and nothing in the loop catches it.
HandOffFails(i) ==
  /\ point = "look"
  /\ IsDue(i)
  /\ HermesFails(i)
  /\ Dies
  /\ UNCHANGED <<options, state>>

\* Mutation of Save: the keys do not stay in memory.
SaveForgets ==
  /\ point = "look" /\ batch = {}
  /\ file' = IF newly = {} THEN file ELSE seen \union newly
  /\ point' = "sleep" /\ history' = <<>> /\ newly' = {}
  /\ UNCHANGED <<options, slack, readable, seen, batch, current, noticed, socket, deaths>>

\* The end of a poll.
Save ==
  /\ point = "look" /\ batch = {}
  /\ seen' = seen \union newly
  /\ file' = IF newly = {} THEN file ELSE seen'
  /\ point' = "sleep" /\ history' = <<>> /\ newly' = {}
  /\ UNCHANGED <<options, slack, readable, batch, current, noticed, socket, deaths>>

\* The process is killed, or a call to Slack raises.  write_text truncates
\* the file before it writes, so that the death may leave no JSON behind.
Die ==
  /\ point # "down"
  /\ Dies
  /\ readable' \in IF point = "look" /\ batch = {} /\ newly # {} THEN BOOLEAN ELSE {readable}
  /\ UNCHANGED <<options, slack, file>>
-----------------------------------------------------------------------------
(* Socket mode: the threads of the socket client run                       *)
(* handle_socket_mode_request, all of them with the same processed_keys.   *)

\* main and the start of _listen_socket_mode.
Listen ==
  /\ point = "down" /\ mode = "socket"
  /\ readable
  /\ seen' = file
  /\ point' = "listen"
  /\ UNCHANGED <<options, slack, state, loop, socket, deaths>>

\* The agent's own messages are not answered here.
Answerable(i) == channel[i].by = "user" /\ IsQa(i) /\ Key(i) \notin seen

\* The handler returns at once.
Ignore(i) ==
  /\ point = "listen" /\ i \in Posted /\ owed[i] > 0
  /\ ~Answerable(i)
  /\ owed' = [owed EXCEPT ![i] = @ - 1]
  /\ UNCHANGED <<options, slack, state, process, handler, unkeyed, clash, deaths>>

\* The handler goes on to plan, for as long as Hermes takes.
Take(h, i) ==
  /\ point = "listen" /\ i \in Posted /\ owed[i] > 0
  /\ handler[h] = Idle
  /\ Answerable(i)
  /\ owed' = [owed EXCEPT ![i] = @ - 1]
  /\ unkeyed' = IF \E g \in Threads : handler[g].at \in {"plan", "note"} /\ handler[g].msg = i
                THEN unkeyed \union {i}
                ELSE unkeyed
  /\ handler' = [handler EXCEPT ![h] = [at |-> "plan", msg |-> i, keys |-> {}, noticed |-> FALSE]]
  /\ UNCHANGED <<options, slack, state, process, clash, deaths>>

Planning(h) == handler[h].at = "plan"

\* _plan_message returns a draft.
PlanEvent(h) ==
  /\ Planning(h)
  /\ \E notice \in BOOLEAN :
       /\ Draft(handler[h].msg, notice)
       /\ handler' = [handler EXCEPT ![h].at = "note", ![h].noticed = notice]
  /\ UNCHANGED <<options, channel, replies, state, process, owed, unkeyed, clash, deaths>>

\* _plan_message returns when Hermes has done everything.
HandOffEvent(h) ==
  /\ Planning(h)
  /\ Hermes(handler[h].msg)
  /\ handler' = [handler EXCEPT ![h].at = "note"]
  /\ UNCHANGED <<options, state, process, owed, unkeyed, clash, deaths>>

\* _plan_message raises: the client logs it, and nobody has the key.
EventFails(h) ==
  /\ Planning(h)
  /\ HermesFails(handler[h].msg)
  /\ unkeyed' = unkeyed \union {handler[h].msg}
  /\ handler' = [handler EXCEPT ![h] = Idle]
  /\ UNCHANGED <<options, state, process, owed, clash, deaths>>

Saving(h) == handler[h].at \in {"truncate", "write"}

\* processed_keys.add, before anything of its own is posted.
Note(h) ==
  /\ handler[h].at = "note"
  /\ seen' = seen \union {Key(handler[h].msg)}
  /\ clash' = (clash \/ \E g \in Threads : Saving(g))
  /\ handler' = [handler EXCEPT ![h].at = "dump"]
  /\ UNCHANGED <<options, slack, state, point, loop, owed, unkeyed, deaths>>

\* Mutation of Dump: the keys as they were before the thread noted its own.
DumpEarlier(h) ==
  /\ handler[h].at = "dump"
  /\ handler' = [handler EXCEPT ![h].at = "truncate", ![h].keys = seen \ {Key(handler[h].msg)}]
  /\ UNCHANGED <<options, slack, state, process, owed, unkeyed, clash, deaths>>

\* _save_processed_keys, the keys as JSON.
Dump(h) ==
  /\ handler[h].at = "dump"
  /\ handler' = [handler EXCEPT ![h].at = "truncate", ![h].keys = seen]
  /\ UNCHANGED <<options, slack, state, process, owed, unkeyed, clash, deaths>>

\* _save_processed_keys, the file is opened.
Truncate(h) ==
  /\ handler[h].at = "truncate"
  /\ file' = {} /\ readable' = FALSE
  /\ handler' = [handler EXCEPT ![h].at = "write"]
  /\ UNCHANGED <<options, slack, process, owed, unkeyed, clash, deaths>>

\* _save_processed_keys, the file is written.  The end of a longer text that
\* another thread wrote since it was truncated stays behind.
Write(h) ==
  /\ handler[h].at = "write"
  /\ IF file \subseteq handler[h].keys
     THEN file' = handler[h].keys /\ readable' = TRUE
     ELSE readable' = FALSE /\ UNCHANGED file
  /\ handler' = [handler EXCEPT ![h] = IF HandsOff THEN Idle ELSE [@ EXCEPT !.at = "reply"]]
  /\ UNCHANGED <<options, slack, process, owed, unkeyed, clash, deaths>>

\* _post_plan in a handler, first message.
ReplyToEvent(h) ==
  /\ handler[h].at = "reply"
  /\ replies' = [replies EXCEPT ![handler[h].msg] = @ + 1]
  /\ handler' = [handler EXCEPT ![h] = IF @.noticed THEN [@ EXCEPT !.at = "notice"] ELSE Idle]
  /\ UNCHANGED <<options, channel, issues, state, process, owed, unkeyed, clash, deaths>>

\* _post_plan in a handler, second message.
NoticeOfEvent(h) ==
  /\ handler[h].at = "notice"
  /\ Notice
  /\ handler' = [handler EXCEPT ![h] = Idle]
  /\ UNCHANGED <<options, replies, issues, state, process, owed, unkeyed, clash, deaths>>
-----------------------------------------------------------------------------
Init ==
  /\ mode \in Modes
  /\ delegate \in {"hermes", "local"} /\ tickets \in BOOLEAN
  /\ (~tickets => delegate = "local")   \* both then make a draft
  /\ ignore \in BOOLEAN /\ (mode = "socket" => ~ignore)
  /\ channel = <<>>
  /\ replies = [i \in Ids |-> 0] /\ issues = [i \in Ids |-> 0]
  /\ file = {} /\ readable = TRUE
  /\ point = "down" /\ seen = {} /\ history = <<>> /\ batch = {} /\ newly = {}
  /\ current = 0 /\ noticed = FALSE
  /\ owed = [i \in Ids |-> 0] /\ handler = [h \in Threads |-> Idle]
  /\ unkeyed = {} /\ clash = FALSE
  /\ deaths = 0

Poll ==
  \/ Launch \/ Read \/ Reply \/ PostNotice \/ Save
  \/ \E i \in Ids : Skip(i) \/ PlanLocal(i) \/ HandOff(i)

\* The steps of one thread with the event it has taken.
Handle(h) ==
  \/ PlanEvent(h) \/ HandOffEvent(h) \/ Note(h) \/ Dump(h) \/ Truncate(h) \/ Write(h)
  \/ ReplyToEvent(h) \/ NoticeOfEvent(h)

Deliver ==
  \/ Listen
  \/ \E i \in Ids : Ignore(i) \/ \E h \in Threads : Take(h, i)

Next ==
  \/ Poll \/ Deliver \/ Die
  \/ \E qa \in BOOLEAN : UserPosts(qa)
  \/ \E i \in Ids, qa \in BOOLEAN, text \in 0 .. MaxEdits : UserEdits(i, qa, text)
  \/ \E i \in Ids : HandOffFails(i)
  \/ \E h \in Threads : Handle(h) \/ EventFails(h)

Spec == Init /\ [][Next]_vars

\* The loop polls for ever, and launchd restarts it; in socket mode events
\* are delivered and each thread goes on with what it has taken.
Fairness ==
  /\ WF_vars(Poll)
  /\ WF_vars(Deliver)
  /\ \A h \in Threads : WF_vars(Handle(h))

FairSpec == Spec /\ Fairness
-----------------------------------------------------------------------------
(* Properties.                                                             *)

\* A message gets a second reply or issue only for a cause.  Polling: a death
\* that forgot the first, or an edit that gave the message another key; where
\* existing messages are ignored on a start, only an edit.  In socket mode: a death, or an event that came again before the
\* first handler had noted the key, which a failed hand-off never does.
RepliesHaveACause ==
  \A i \in Posted :
    /\ mode = "poll" => LET most == 1 + channel[i].edits + (IF ignore THEN 0 ELSE deaths)
                        IN replies[i] <= most /\ issues[i] <= most
    /\ mode = "socket" /\ deaths = 0 /\ i \notin unkeyed => replies[i] <= 1 /\ issues[i] <= 1

\* Whenever no thread is saving, the state file holds the keys that the
\* process knows, unless a key was noted while another thread was saving: the
\* file may then lack a key, or hold no JSON, and stop the next start.
FileHasTheKeys ==
  (\A h \in Threads : handler[h].at \notin {"dump", "truncate", "write"})
    => (point = "listen" /\ ~clash => readable /\ file = seen)

\* Polling, every QA message is answered in the end if existing messages are
\* not ignored, the state file stays readable, the message does not scroll out
\* of the history that one read returns, and no edit makes it another one.  In socket mode one whose event
\* is on its way is, unless the process dies or the hand-off fails.
AnsweredInTheEnd ==
  \A i \in Ids :
    (i <= Len(channel) /\ IF mode = "poll" THEN ~ignore /\ IsQa(i)
                                           ELSE owed[i] > 0 /\ Answerable(i))
      ~> \/ replies[i] > 0
         \/ Len(channel) = MaxMessages
         \/ mode = "poll" /\ (~readable \/ i <= Len(channel) - Limit)
         \/ mode = "poll" /\ i \in Posted /\ ~IsQa(i)
         \/ mode = "socket" /\ (deaths > 0 \/ i \in unkeyed)
=============================================================================
