-------------------------- MODULE SlackQaAgentProofs --------------------------
(***************************************************************************)
(* Two promises of SlackQaAgent, for any number of threads, messages,      *)
(* deliveries and deaths, and any size of a history read: the state file   *)
(* holds every key whenever no thread is saving and none was noted while   *)
(* one was, and a message is answered a second time only for a cause.      *)
(***************************************************************************)
EXTENDS SlackQaAgent, TLAPS

Busy(h) == handler[h].at \in {"dump", "truncate", "write"}

Points == {"idle", "plan", "note", "dump", "truncate", "write", "reply", "notice"}

Keys == Nat \X Nat

HandlerType == [at : Points, msg : Nat, keys : SUBSET Keys, noticed : BOOLEAN]

MessageType == [by : {"user", "bot"}, qa : BOOLEAN, text : Nat, edits : Nat]

\* The types of what the argument is about, and that a thread works on a
\* message of the channel.
Types == handler \in [Threads -> HandlerType]

KeyTypes ==
  /\ channel \in Seq(MessageType) /\ history \in Seq(MessageType)
  /\ batch \subseteq 1 .. Len(history)
  /\ seen \in SUBSET Keys /\ file \in SUBSET Keys /\ newly \in SUBSET Keys
  /\ \A h \in Threads : handler[h].at # "idle" => handler[h].msg \in Posted

\* Threads work only while the process listens.
IdleElsewhere == point # "listen" => \A h \in Threads : handler[h] = Idle

\* As long as no key is noted while a thread is saving, every thread that is
\* saving is about to write all of them.
SavesAll == ~clash => \A h \in Threads : Saving(h) => handler[h].keys = seen

\* What the file lacks, a thread is going to write.
LackIsDue ==
  point = "listen" /\ ~clash =>
    /\ file \subseteq seen
    /\ (\A h \in Threads : ~Busy(h)) => readable /\ file = seen

FileInv == Types /\ IdleElsewhere /\ SavesAll /\ LackIsDue

KeysInv == KeyTypes /\ FileInv

\* At the start no thread works and there are no keys.
LEMMA KeysInit == Init => KeysInv
<1> SUFFICES ASSUME Init PROVE KeysInv
  OBVIOUS
<1>1. Types
  <2>1. Idle \in HandlerType
    BY DEF Idle, HandlerType, Points
  <2> QED
    BY <2>1 DEF Init, Types
<1>2. IdleElsewhere
  BY DEF Init, IdleElsewhere
<1>3. SavesAll
  BY DEF Init, SavesAll, Saving, Idle
<1>4. LackIsDue
  BY DEF Init, LackIsDue
<1>5. KeyTypes
  BY DEF Init, KeyTypes, Idle
<1> QED
  BY <1>1, <1>2, <1>3, <1>4, <1>5 DEF KeysInv, FileInv

\* The parts of a message that are numbers.
LEMMA MessageFields ==
  ASSUME NEW m \in MessageType
  PROVE  m.edits \in Nat /\ m.text \in Nat
BY DEF MessageType

\* An edit leaves a message a message.
LEMMA RewordedType ==
  ASSUME NEW m \in MessageType, NEW qa \in BOOLEAN, NEW text \in Nat
  PROVE  /\ Reworded(m, qa, text) \in MessageType
         /\ Reworded(m, qa, text).edits = m.edits + 1
<1>1. Reworded(m, qa, text) \in MessageType
  <2>1. m.edits + 1 \in Nat
    BY MessageFields
  <2> QED
    BY <2>1 DEF Reworded, MessageType
<1>2. Reworded(m, qa, text).edits = m.edits + 1
  BY DEF Reworded, MessageType
<1> QED
  BY <1>1, <1>2

\* The channel only grows; its messages change by edits, and by no others.
LEMMA ChannelGrows ==
  ASSUME channel \in Seq(MessageType), [Next]_vars
  PROVE  /\ channel' \in Seq(MessageType) /\ Len(channel) <= Len(channel')
         /\ \A i \in Posted : channel'[i].edits >= channel[i].edits
         /\ \/ channel' = channel
            \/ \E m \in MessageType : /\ channel' = Append(channel, m) /\ m.edits = 0
                                      /\ Len(channel) < MaxMessages
            \/ \E i \in Ids, qa \in BOOLEAN, text \in 0 .. MaxEdits : UserEdits(i, qa, text)
<1> DEFINE Grows == \E m \in MessageType : /\ channel' = Append(channel, m) /\ m.edits = 0
                                           /\ Len(channel) < MaxMessages
           Edit == \E i \in Ids, qa \in BOOLEAN, text \in 0 .. MaxEdits : UserEdits(i, qa, text)
<1>1. Notice => Grows
  <2> SUFFICES ASSUME Notice PROVE Grows
    OBVIOUS
  <2>1. PICK qa \in BOOLEAN : channel' = Append(channel, Message("bot", qa))
    BY SlackQaAssumption DEF Notice
  <2>2. Message("bot", qa) \in MessageType /\ Message("bot", qa).edits = 0
    BY DEF MessageType, Message
  <2> QED
    BY <2>1, <2>2 DEF Notice
<1>2. (\E qa \in BOOLEAN : UserPosts(qa)) => Grows
  <2> SUFFICES ASSUME NEW qa \in BOOLEAN, UserPosts(qa) PROVE Grows
    OBVIOUS
  <2>1. Message("user", qa) \in MessageType /\ Message("user", qa).edits = 0
    BY DEF MessageType, Message
  <2> QED
    BY <2>1 DEF UserPosts
<1> HIDE DEF Grows, Edit
<1>3. channel' = channel \/ Grows \/ Edit
  <2>1. CASE UNCHANGED vars
    BY <2>1 DEF vars, slack
  <2>2. CASE Poll
    BY <1>1, <2>2
       DEF Poll, Launch, Read, Reply, PostNotice, Save, Skip, PlanLocal, HandOff, Hermes, slack
  <2>3. CASE Deliver
    BY <2>3 DEF Deliver, Listen, Ignore, Take, slack
  <2>4. CASE Die \/ \E i \in Ids : HandOffFails(i)
    BY <1>1, <2>4 DEF Die, HandOffFails, HermesFails, Hermes, slack
  <2>5. CASE \E h \in Threads : Handle(h) \/ EventFails(h)
    BY <1>1, <2>5
       DEF Handle, EventFails, HermesFails, PlanEvent, HandOffEvent, Hermes, Note, Dump, Truncate,
           Write, ReplyToEvent, NoticeOfEvent, slack
  <2> QED
    BY <1>2, <2>1, <2>2, <2>3, <2>4, <2>5 DEF Next, Edit
<1>4. CASE channel' = channel
  <2>1. \A i \in Posted : channel[i] \in MessageType
    BY DEF Posted
  <2>2. \A i \in Posted : channel[i].edits \in Nat
    BY <2>1, MessageFields
  <2>3. \A i \in Posted : channel'[i].edits >= channel[i].edits
    BY <1>4, <2>2
  <2> QED
    BY <1>3, <1>4, <2>3 DEF Grows, Edit
<1>5. CASE Grows
  <2>1. PICK m \in MessageType : channel' = Append(channel, m)
    BY <1>5 DEF Grows
  <2>2. channel' \in Seq(MessageType) /\ Len(channel') = Len(channel) + 1
    BY <2>1
  <2>3. \A i \in Posted : channel'[i] = channel[i] /\ channel[i] \in MessageType
    BY <2>1 DEF Posted
  <2>4. \A i \in Posted : channel[i].edits \in Nat
    BY <2>3, MessageFields
  <2>5. \A i \in Posted : channel'[i].edits >= channel[i].edits
    BY <2>3, <2>4
  <2>6. Len(channel) <= Len(channel')
    BY <2>2
  <2> QED
    BY <1>3, <2>2, <2>5, <2>6 DEF Grows, Edit
<1>6. CASE Edit
  <2>1. PICK i \in Ids, qa \in BOOLEAN, text \in 0 .. MaxEdits : UserEdits(i, qa, text)
    BY <1>6 DEF Edit
  <2> DEFINE m == Reworded(channel[i], qa, text)
  <2>2. i \in Posted /\ channel' = [channel EXCEPT ![i] = m]
    BY <2>1 DEF UserEdits
  <2>3. channel[i] \in MessageType
    BY <2>2 DEF Posted
  <2>4. m \in MessageType /\ m.edits = channel[i].edits + 1
    <3>1. text \in Nat
      BY SlackQaAssumption
    <3> QED
      BY <2>3, <3>1, RewordedType
  <2>5. channel' \in Seq(MessageType) /\ Len(channel') = Len(channel)
    BY <2>2, <2>4 DEF Posted
  <2>6. \A j \in Posted : /\ channel'[j] = IF j = i THEN m ELSE channel[j]
                          /\ channel[j] \in MessageType
    BY <2>2, <2>4 DEF Posted
  <2>7. \A j \in Posted : channel[j].edits \in Nat
    BY <2>6, MessageFields
  <2>8. \A j \in Posted : channel'[j].edits >= channel[j].edits
    BY <2>4, <2>6, <2>7
  <2> QED
    BY <1>3, <2>5, <2>8 DEF Grows, Edit
<1> QED
  BY <1>3, <1>4, <1>5, <1>6 DEF Grows, Edit

\* Whatever becomes a key is one.
LEMMA KeyTypesStep ==
  ASSUME KeysInv, [Next]_vars
  PROVE  KeyTypes'
<1>1. /\ channel \in Seq(MessageType) /\ history \in Seq(MessageType)
      /\ batch \subseteq 1 .. Len(history)
      /\ seen \in SUBSET Keys /\ file \in SUBSET Keys /\ newly \in SUBSET Keys
      /\ handler \in [Threads -> HandlerType]
      /\ \A h \in Threads : handler[h].at # "idle" => handler[h].msg \in Posted
  BY DEF KeysInv, KeyTypes, FileInv, Types
<1>2. channel' \in Seq(MessageType) /\ Posted \subseteq Posted'
  <2>1. channel' \in Seq(MessageType) /\ Len(channel) <= Len(channel')
    BY <1>1, ChannelGrows
  <2>2. Len(channel) \in Nat /\ Len(channel') \in Nat
    BY <1>1, <2>1
  <2> QED
    BY <2>1, <2>2 DEF Posted
<1>3. ASSUME NEW i \in Posted PROVE Key(i) \in Keys
  <2>1. channel[i].text \in Nat /\ i \in Nat
    BY <1>1, MessageFields DEF Posted
  <2> QED
    BY <2>1 DEF Key, Keys
<1>4. ASSUME NEW i \in batch PROVE KeyRead(i) \in Keys
  <2>1. history[i].text \in Nat /\ i \in Nat
    BY <1>1, MessageFields
  <2> QED
    BY <2>1 DEF KeyRead, Keys
<1>5. /\ history' \in Seq(MessageType) /\ batch' \subseteq 1 .. Len(history')
      /\ newly' \in SUBSET Keys
  <2>1. CASE UNCHANGED <<history, batch, newly>>
    BY <1>1, <2>1
  <2>2. CASE Read
    BY <1>1, <2>2 DEF Read, Window, Posted
  <2>3. CASE Save
    BY <2>3 DEF Save
  <2>4. CASE \E i \in Ids : Skip(i) \/ PlanLocal(i) \/ HandOff(i)
    BY <1>1, <1>4, <2>4 DEF Skip, PlanLocal, HandOff, IsDue, IsNext
  <2>5. CASE Die \/ \E i \in Ids : HandOffFails(i)
    <3>1. history' = <<>> /\ batch' = {} /\ newly' = {}
      BY <2>5 DEF Die, HandOffFails, Dies
    <3> QED
      BY <3>1
  <2>6. CASE Launch \/ Reply \/ PostNotice \/ Deliver \/ (\E h \in Threads : Handle(h) \/ EventFails(h))
    BY <2>1, <2>6
       DEF Launch, Reply, PostNotice, Deliver, Listen, Ignore, Take, Handle, EventFails, PlanEvent,
           HandOffEvent, Note, Dump, Truncate, Write, ReplyToEvent, NoticeOfEvent, process, loop
  <2>7. CASE \/ UNCHANGED vars \/ \E qa \in BOOLEAN : UserPosts(qa)
             \/ \E i \in Ids, qa \in BOOLEAN, text \in 0 .. MaxEdits : UserEdits(i, qa, text)
    BY <2>1, <2>7 DEF vars, UserPosts, UserEdits, process, loop
  <2> QED
    BY <2>2, <2>3, <2>4, <2>5, <2>6, <2>7 DEF Next, Poll
<1>6. seen' \in SUBSET Keys /\ file' \in SUBSET Keys
  <2>1. CASE UNCHANGED <<seen, file>>
    BY <1>1, <2>1
  <2>2. CASE Launch
    <3>1. Window \subseteq Posted
      BY DEF Window
    <3> QED
      BY <1>1, <1>3, <2>2, <3>1 DEF Launch
  <2>3. CASE Save \/ Listen
    BY <1>1, <2>3 DEF Save, Listen, state
  <2>4. CASE Die \/ \E i \in Ids : HandOffFails(i)
    BY <1>1, <2>4 DEF Die, HandOffFails, Dies, state
  <2>5. ASSUME NEW h \in Threads, Handle(h) \/ EventFails(h)
        PROVE  seen' \in SUBSET Keys /\ file' \in SUBSET Keys
    <3>1. CASE Note(h)
      BY <1>1, <1>3, <3>1 DEF Note, state
    <3>2. CASE Truncate(h) \/ Write(h)
      BY <1>1, <3>2 DEF Truncate, Write, process, HandlerType
    <3> QED
      BY <2>1, <2>5, <3>1, <3>2
         DEF Handle, EventFails, PlanEvent, HandOffEvent, Dump, ReplyToEvent, NoticeOfEvent, state,
             process
  <2>6. CASE \/ Read \/ Reply \/ PostNotice
             \/ \E i \in Ids : Skip(i) \/ PlanLocal(i) \/ HandOff(i) \/ Ignore(i)
                                 \/ \E h \in Threads : Take(h, i)
    BY <2>1, <2>6 DEF Read, Reply, PostNotice, Skip, PlanLocal, HandOff, Ignore, Take, state, process
  <2>7. CASE \/ UNCHANGED vars \/ \E qa \in BOOLEAN : UserPosts(qa)
             \/ \E i \in Ids, qa \in BOOLEAN, text \in 0 .. MaxEdits : UserEdits(i, qa, text)
    BY <2>1, <2>7 DEF vars, UserPosts, UserEdits, process, state
  <2> QED
    BY <2>2, <2>3, <2>4, <2>5, <2>6, <2>7 DEF Next, Poll, Deliver
<1>7. ASSUME NEW g \in Threads, handler'[g].at # "idle"
      PROVE  handler'[g].msg \in Posted'
  <2>1. CASE handler' = handler
    BY <1>1, <1>2, <1>7, <2>1
  <2>2. CASE Die \/ \E i \in Ids : HandOffFails(i)
    BY <1>7, <2>2 DEF Die, HandOffFails, Dies, Idle
  <2>3. ASSUME NEW h \in Threads, NEW i \in Ids, Take(h, i)
        PROVE  handler'[g].msg \in Posted'
    BY <1>1, <1>2, <1>7, <2>3 DEF Take
  <2>4. ASSUME NEW h \in Threads, Handle(h) \/ EventFails(h)
        PROVE  handler'[g].msg \in Posted'
    <3>1. \A f \in Threads \ {h} : handler'[f] = handler[f]
      BY <1>1, <2>4 DEF Handle, EventFails, PlanEvent, HandOffEvent, Note, Dump, Truncate, Write,
                        ReplyToEvent, NoticeOfEvent
    <3>2. handler'[h] = Idle \/ handler'[h].msg = handler[h].msg
      BY <1>1, <2>4 DEF Handle, EventFails, PlanEvent, HandOffEvent, Note, Dump, Truncate, Write,
                        ReplyToEvent, NoticeOfEvent, HandlerType
    <3>3. handler[h].at # "idle"
      BY <2>4 DEF Handle, EventFails, Planning, PlanEvent, HandOffEvent, Note, Dump, Truncate,
                  Write, ReplyToEvent, NoticeOfEvent
    <3> QED
      BY <1>1, <1>2, <1>7, <3>1, <3>2, <3>3 DEF Idle
  <2>5. CASE Poll \/ Listen \/ \E i \in Ids : Ignore(i)
    BY <2>1, <2>5 DEF Poll, Launch, Read, Reply, PostNotice, Save, Skip, PlanLocal, HandOff, Listen,
                      Ignore, socket
  <2>6. CASE \/ UNCHANGED vars \/ \E qa \in BOOLEAN : UserPosts(qa)
             \/ \E i \in Ids, qa \in BOOLEAN, text \in 0 .. MaxEdits : UserEdits(i, qa, text)
    BY <2>1, <2>6 DEF vars, UserPosts, UserEdits, socket
  <2> QED
    BY <2>2, <2>3, <2>4, <2>5, <2>6 DEF Next, Deliver
<1> QED
  BY <1>2, <1>5, <1>6, <1>7 DEF KeyTypes

\* A step that touches neither threads nor keys keeps the invariant, if the
\* process does not listen after it or did before.
LEMMA KeysFrame ==
  ASSUME KeysInv, UNCHANGED <<handler, clash>>,
         (point # "listen" /\ point' # "listen") \/ UNCHANGED <<point, seen, file, readable>>
  PROVE  FileInv'
<1>1. CASE point # "listen" /\ point' # "listen"
  <2>1. Types'
    BY DEF KeysInv, FileInv, Types
  <2>2. IdleElsewhere'
    BY <1>1 DEF KeysInv, FileInv, IdleElsewhere, Idle
  <2>3. SavesAll'
    BY <1>1 DEF KeysInv, FileInv, IdleElsewhere, SavesAll, Saving, Idle
  <2>4. LackIsDue'
    BY <1>1 DEF LackIsDue
  <2> QED
    BY <2>1, <2>2, <2>3, <2>4 DEF KeysInv, FileInv
<1>2. CASE UNCHANGED <<point, seen, file, readable>>
  BY <1>2 DEF KeysInv, FileInv, Types, IdleElsewhere, SavesAll, LackIsDue, Saving, Busy, Idle
<1> QED
  BY <1>1, <1>2

\* Polling, and the channel, touch no thread; the process does not listen.
LEMMA KeysPoll ==
  ASSUME KeysInv,
         Read \/ Reply \/ PostNotice \/ (\E qa \in BOOLEAN : UserPosts(qa))
           \/ (\E i \in Ids, qa \in BOOLEAN, text \in 0 .. MaxEdits : UserEdits(i, qa, text))
           \/ (\E i \in Ids : Skip(i) \/ PlanLocal(i) \/ HandOff(i) \/ Ignore(i))
  PROVE  FileInv'
<1>1. /\ UNCHANGED <<handler, clash, seen, file, readable>>
      /\ (point # "listen" /\ point' # "listen") \/ UNCHANGED point
  BY DEF Read, Reply, PostNotice, UserPosts, UserEdits, Skip, PlanLocal, HandOff, Ignore, socket,
         state, process, loop
<1> QED
  BY <1>1, KeysFrame

\* The steps that end a poll or start polling write keys of messages.
LEMMA KeysSave ==
  ASSUME KeysInv, Launch \/ Save
  PROVE  FileInv'
<1>1. UNCHANGED <<handler, clash>> /\ point # "listen" /\ point' # "listen"
  BY DEF Launch, Save, socket
<1> QED
  BY <1>1, KeysFrame

\* A death leaves no thread at work and no keys in memory.
LEMMA KeysDies ==
  ASSUME KeysInv, Die \/ (\E i \in Ids : HandOffFails(i))
  PROVE  FileInv'
<1>1. handler' = [h \in Threads |-> Idle] /\ point' = "down"
  BY DEF Die, HandOffFails, Dies, state
<1>2. Types'
  <2>1. Idle \in HandlerType
    BY DEF Idle, HandlerType, Points
  <2> QED
    BY <1>1, <2>1 DEF KeysInv, FileInv, Types
<1>3. IdleElsewhere' /\ SavesAll' /\ LackIsDue'
  BY <1>1 DEF IdleElsewhere, SavesAll, LackIsDue, Saving, Idle
<1> QED
  BY <1>2, <1>3 DEF KeysInv, FileInv

\* The process that starts to listen knows what the file holds.
LEMMA KeysListen ==
  ASSUME KeysInv, Listen
  PROVE  FileInv'
<1>1. /\ point = "down" /\ point' = "listen" /\ seen' = file /\ readable
      /\ UNCHANGED <<file, readable, handler, clash>>
  BY DEF Listen, state, loop, socket
<1>2. \A h \in Threads : handler[h] = Idle
  BY <1>1 DEF KeysInv, FileInv, IdleElsewhere
<1>3. Types'
  BY <1>1 DEF KeysInv, FileInv, Types
<1>4. IdleElsewhere' /\ SavesAll' /\ LackIsDue'
  BY <1>1, <1>2 DEF IdleElsewhere, SavesAll, LackIsDue, Saving, Idle
<1> QED
  BY <1>3, <1>4 DEF KeysInv, FileInv

\* A step of a thread that is not saving before it nor after it, and leaves
\* keys and file alone.
LEMMA KeysApart ==
  ASSUME KeysInv, NEW h \in Threads, NEW r \in HandlerType, point = "listen",
         ~Busy(h), r.at \notin {"dump", "truncate", "write"},
         handler' = [handler EXCEPT ![h] = r],
         UNCHANGED <<point, seen, state, clash>>
  PROVE  FileInv'
<1>1. Types'
  BY DEF KeysInv, FileInv, Types, state
<1>2. \A g \in Threads : handler'[g] = IF g = h THEN r ELSE handler[g]
  BY DEF KeysInv, FileInv, Types
<1>3. IdleElsewhere'
  BY DEF IdleElsewhere
<1>4. SavesAll'
  BY <1>2 DEF KeysInv, FileInv, SavesAll, Saving
<1>5. LackIsDue'
  BY <1>2 DEF KeysInv, FileInv, LackIsDue, Busy, state
<1> QED
  BY <1>1, <1>3, <1>4, <1>5 DEF KeysInv, FileInv

\* Only a process that listens has a thread at work.
LEMMA WorksInListen ==
  ASSUME KeysInv, NEW h \in Threads, handler[h].at # "idle"
  PROVE  point = "listen"
BY DEF KeysInv, FileInv, IdleElsewhere, Idle

\* A thread takes an event, plans it, and posts about it.
LEMMA KeysHandle ==
  ASSUME KeysInv, NEW h \in Threads,
         (\E i \in Ids : Take(h, i)) \/ PlanEvent(h) \/ HandOffEvent(h) \/ EventFails(h)
           \/ ReplyToEvent(h) \/ NoticeOfEvent(h)
  PROVE  FileInv'
<1>1. point = "listen"
  BY WorksInListen
     DEF Take, PlanEvent, HandOffEvent, EventFails, ReplyToEvent, NoticeOfEvent, Planning
<1>2. UNCHANGED <<point, seen, state, clash>>
  BY DEF Take, PlanEvent, HandOffEvent, EventFails, ReplyToEvent, NoticeOfEvent, process, loop
<1>3. ~Busy(h)
  <2>1. ASSUME NEW i \in Ids, Take(h, i) PROVE handler[h].at = "idle"
    <3>1. handler[h] = Idle
      BY <2>1 DEF Take
    <3> QED
      BY <3>1 DEF Idle
  <2>2. PlanEvent(h) \/ HandOffEvent(h) \/ EventFails(h) => handler[h].at = "plan"
    BY DEF PlanEvent, HandOffEvent, EventFails, Planning
  <2>3. ReplyToEvent(h) \/ NoticeOfEvent(h) => handler[h].at \in {"reply", "notice"}
    BY DEF ReplyToEvent, NoticeOfEvent
  <2> QED
    BY <2>1, <2>2, <2>3 DEF Busy
<1>4. handler[h] \in HandlerType /\ Idle \in HandlerType
  BY DEF KeysInv, FileInv, Types, Idle, HandlerType, Points
<1>5. \E r \in HandlerType : /\ r.at \notin {"dump", "truncate", "write"}
                            /\ handler' = [handler EXCEPT ![h] = r]
  <2>1. CASE \E i \in Ids : Take(h, i)
    <3>1. PICK i \in Ids : Take(h, i)
      BY <2>1
    <3>2. i \in Nat
      BY SlackQaAssumption DEF Ids
    <3>3. [at |-> "plan", msg |-> i, keys |-> {}, noticed |-> FALSE] \in HandlerType
      BY <3>2 DEF HandlerType, Points
    <3> QED
      BY <3>1, <3>3 DEF Take
  <2>2. CASE PlanEvent(h)
    <3>1. PICK notice \in BOOLEAN :
            handler' = [handler EXCEPT ![h].at = "note", ![h].noticed = notice]
      BY <2>2 DEF PlanEvent
    <3>2. [handler[h] EXCEPT !.at = "note", !.noticed = notice] \in HandlerType
      BY <1>4 DEF HandlerType, Points
    <3>3. handler' = [handler EXCEPT ![h] = [handler[h] EXCEPT !.at = "note", !.noticed = notice]]
      BY <3>1 DEF KeysInv, FileInv, Types
    <3> QED
      BY <1>4, <3>2, <3>3 DEF HandlerType
  <2>3. CASE HandOffEvent(h)
    <3>1. [handler[h] EXCEPT !.at = "note"] \in HandlerType
      BY <1>4 DEF HandlerType, Points
    <3> QED
      BY <1>4, <2>3, <3>1 DEF HandOffEvent, HandlerType
  <2>4. CASE EventFails(h) \/ NoticeOfEvent(h)
    BY <1>4, <2>4 DEF EventFails, NoticeOfEvent, Idle
  <2>5. CASE ReplyToEvent(h)
    <3>1. [handler[h] EXCEPT !.at = "notice"] \in HandlerType
      BY <1>4 DEF HandlerType, Points
    <3> QED
      BY <1>4, <2>5, <3>1 DEF ReplyToEvent, HandlerType, Idle
  <2> QED
    BY <2>1, <2>2, <2>3, <2>4, <2>5
<1> QED
  BY <1>1, <1>2, <1>3, <1>5, KeysApart

\* A thread notes a key and saves it.
LEMMA KeysSaving ==
  ASSUME KeysInv, NEW h \in Threads, Note(h) \/ Dump(h) \/ Truncate(h) \/ Write(h)
  PROVE  FileInv'
<1>1. point = "listen" /\ point' = "listen"
  BY WorksInListen DEF Note, Dump, Truncate, Write, process, loop
<1>2. IdleElsewhere'
  BY <1>1 DEF IdleElsewhere
<1>3. handler \in [Threads -> HandlerType] /\ handler[h] \in HandlerType /\ Idle \in HandlerType
  BY DEF KeysInv, FileInv, Types, Idle, HandlerType, Points
<1>4. CASE Note(h)
  <2>1. /\ seen' = seen \union {Key(handler[h].msg)} /\ UNCHANGED <<file, readable>>
        /\ clash' = (clash \/ \E g \in Threads : Saving(g))
        /\ handler' = [handler EXCEPT ![h].at = "dump"]
    BY <1>4 DEF Note, state
  <2>2. [handler[h] EXCEPT !.at = "dump"] \in HandlerType 
    BY <1>3 DEF HandlerType, Points
  <2>3. Types'
    BY <1>1, <1>3, <2>1, <2>2 DEF KeysInv, FileInv, Types
  <2>4. handler'[h].at = "dump" /\ \A g \in Threads \ {h} : handler'[g] = handler[g]
    BY <1>3, <2>1 DEF HandlerType
  <2>5. SavesAll'
    BY <2>1, <2>4 DEF SavesAll, Saving
  <2>6. LackIsDue'
    BY <1>1, <2>1, <2>4 DEF KeysInv, FileInv, LackIsDue, Busy
  <2> QED
    BY <1>2, <2>3, <2>5, <2>6 DEF KeysInv, FileInv
<1>5. CASE Dump(h)
  <2>1. /\ UNCHANGED <<seen, file, readable, clash>>
        /\ handler[h].at = "dump"
        /\ handler' = [handler EXCEPT ![h].at = "truncate", ![h].keys = seen]
    BY <1>5 DEF Dump, state, process
  <2>2. [handler[h] EXCEPT !.at = "truncate", !.keys = seen] \in HandlerType
    BY <1>3 DEF HandlerType, Points, KeysInv, KeyTypes
  <2>3. Types'
    BY <1>1, <1>3, <2>1, <2>2 DEF KeysInv, FileInv, Types
  <2>4. /\ handler'[h].at = "truncate" /\ handler'[h].keys = seen
        /\ \A g \in Threads \ {h} : handler'[g] = handler[g]
    BY <1>3, <2>1 DEF HandlerType
  <2>5. SavesAll'
    BY <2>1, <2>4 DEF KeysInv, FileInv, SavesAll, Saving
  <2>6. LackIsDue'
    BY <1>1, <2>1, <2>4 DEF KeysInv, FileInv, LackIsDue, Busy
  <2> QED
    BY <1>2, <2>3, <2>5, <2>6 DEF KeysInv, FileInv
<1>6. CASE Truncate(h)
  <2>1. /\ UNCHANGED <<seen, clash>> /\ file' = {}
        /\ handler[h].at = "truncate"
        /\ handler' = [handler EXCEPT ![h].at = "write"]
    BY <1>6 DEF Truncate, process
  <2>2. [handler[h] EXCEPT !.at = "write"] \in HandlerType
    BY <1>3 DEF HandlerType, Points
  <2>3. Types'
    BY <1>1, <1>3, <2>1, <2>2 DEF KeysInv, FileInv, Types
  <2>4. /\ handler'[h].at = "write" /\ handler'[h].keys = handler[h].keys
        /\ \A g \in Threads \ {h} : handler'[g] = handler[g]
    BY <1>3, <2>1 DEF HandlerType
  <2>5. SavesAll'
    BY <2>1, <2>4 DEF KeysInv, FileInv, SavesAll, Saving
  <2>6. LackIsDue'
    BY <1>1, <2>1, <2>4 DEF LackIsDue, Busy
  <2> QED
    BY <1>2, <2>3, <2>5, <2>6 DEF KeysInv, FileInv
<1>7. CASE Write(h)
  <2>1. /\ UNCHANGED <<seen, clash>> /\ handler[h].at = "write"
        /\ IF file \subseteq handler[h].keys
           THEN file' = handler[h].keys /\ readable' = TRUE
           ELSE file' = file
    BY <1>7 DEF Write, process
  <2>2. PICK r \in HandlerType : /\ r.at \notin {"dump", "truncate", "write"}
                                /\ handler' = [handler EXCEPT ![h] = r]
    <3>1. [handler[h] EXCEPT !.at = "reply"] \in HandlerType
      BY <1>3 DEF HandlerType, Points
    <3> QED
      BY <1>3, <1>7, <3>1 DEF Write, HandlerType, Idle
  <2>3. Types'
    BY <1>1, <1>3, <2>1, <2>2 DEF KeysInv, FileInv, Types, HandlerType
  <2>4. handler'[h] = r /\ \A g \in Threads \ {h} : handler'[g] = handler[g]
    BY <1>3, <2>2
  <2>5. SavesAll'
    BY <2>1, <2>2, <2>4 DEF KeysInv, FileInv, SavesAll, Saving
  <2>6. LackIsDue'
    <3> SUFFICES ASSUME ~clash PROVE file' \subseteq seen' /\ readable' /\ file' = seen'
      BY <2>1 DEF LackIsDue
    <3>1. handler[h].keys = seen
      BY <2>1 DEF KeysInv, FileInv, SavesAll, Saving
    <3>2. file \subseteq seen
      BY <1>1 DEF KeysInv, FileInv, LackIsDue
    <3> QED
      BY <2>1, <3>1, <3>2
  <2> QED
    BY <1>2, <2>3, <2>5, <2>6 DEF KeysInv, FileInv
<1> QED
  BY <1>4, <1>5, <1>6, <1>7

\* The invariant holds of every step.
LEMMA KeysStep ==
  ASSUME KeysInv, [Next]_vars
  PROVE  KeysInv'
<1>1. CASE UNCHANGED vars
  <2>1. UNCHANGED <<handler, clash, point, seen, file, readable>>
    BY <1>1 DEF vars, process, state, socket
  <2>2. FileInv'
    BY <2>1, KeysFrame
  <2> QED
    BY <2>2, KeyTypesStep DEF KeysInv
<1>2. CASE Next
  <2>1. FileInv'
    BY <1>2, KeysPoll, KeysSave, KeysDies, KeysListen, KeysHandle, KeysSaving
       DEF Next, Poll, Deliver, Handle
  <2> QED
    BY <2>1, KeyTypesStep DEF KeysInv
<1> QED
  BY <1>1, <1>2

\* Whenever no thread of the socket client is saving, the state file holds the
\* keys that the process knows, unless a key was noted while one was: what
\* handle_socket_mode_request and _save_processed_keys rely on a restart for.
THEOREM StateFileComplete == Spec => []FileHasTheKeys
<1>1. Init => KeysInv
  BY KeysInit
<1>2. KeysInv /\ [Next]_vars => KeysInv'
  BY KeysStep
<1>3. KeysInv => FileHasTheKeys
  BY DEF KeysInv, FileInv, LackIsDue, FileHasTheKeys, Busy
<1> QED
  BY <1>1, <1>2, <1>3, PTL DEF Spec
-----------------------------------------------------------------------------
(* Replies.                                                                *)

\* The types of what the argument is about, and what holds wherever the
\* process is: what memory it has, and that each mode has steps of its own.
Shape ==
  /\ replies \in [Ids -> Nat] /\ issues \in [Ids -> Nat] /\ deaths \in Nat
  /\ Len(channel) <= MaxMessages
  /\ batch \subseteq Posted
  /\ point = "listen" => mode = "socket"
  /\ point \notin {"down", "listen"} => mode = "poll"
  /\ point = "down" => seen = {} /\ newly = {} /\ batch = {}
  /\ point = "sleep" => newly \subseteq seen

Known == seen \union newly

\* A reply that is planned and not yet posted.
Pending(i) == point = "reply" /\ current = i

Owes(i) == replies[i] + (IF Pending(i) THEN 1 ELSE 0)

\* What is posted or going to be posted about a message.
Posts(i, n) == issues[i] <= n /\ Owes(i) <= n

Edited(i) == IF i \in Posted THEN channel[i].edits ELSE 0

KeyKnown(i) == i \in Posted /\ Key(i) \in Known

\* The history read returned the message as it was before an edit, and it is
\* going to be answered.
Stale(i) == i \in batch /\ KeyRead(i) \notin Known /\ KeyRead(i) # Key(i)

\* Polling, whatever is posted about a message makes its key known, and only a
\* death makes the process forget, and an edit makes another key.
OncePerLife ==
  mode = "poll" => \A i \in Ids :
    /\ Posts(i, Edited(i) + deaths + (IF KeyKnown(i) THEN 1 ELSE 0))
    /\ Stale(i) => Posts(i, Edited(i) + deaths - 1)

\* The same where existing messages are ignored: it may be answered now, or was
\* read when it could be.
Open(i) == /\ i \in Posted /\ IsQa(i) /\ Key(i) \notin Known
           /\ point # "down"
           /\ i \in batch \/ i > Len(channel) - Limit

StaleQa(i) == /\ i \in batch /\ history[i].qa /\ KeyRead(i) \notin Known
              /\ KeyRead(i) # Key(i) \/ ~IsQa(i)

\* If existing messages are ignored, what was posted about stays known until an
\* edit, is no QA message any more, or has left the history that a read returns
\* for good.
NeverAgain ==
  mode = "poll" /\ ignore => \A i \in Ids :
    /\ Posts(i, Edited(i) + 1)
    /\ Open(i) => Posts(i, Edited(i))
    /\ StaleQa(i) => Posts(i, Edited(i) - 1)
    /\ i \notin Posted => Posts(i, 0)

Noted(i) == i \in Posted /\ Key(i) \in seen

\* A handler has posted nothing about its message that it still will post.
Progress(h, i) ==
  /\ handler[h].at # "idle"
  /\ handler[h].at \in {"plan", "note"} <=> ~Noted(i)
  /\ handler[h].at = "plan" => issues[i] = 0 /\ replies[i] = 0
  /\ handler[h].at = "reply" => replies[i] = 0
  /\ ~HandsOff /\ handler[h].at \in {"note", "dump", "truncate", "write"} => replies[i] = 0

\* One handler at most has the message, and without its key nobody has posted
\* about it before a handler took it.
Handled(i) ==
  /\ issues[i] <= 1 /\ replies[i] <= 1
  /\ \A g, h \in Threads : handler[g].msg = i /\ handler[h].msg = i => g = h
  /\ \A h \in Threads : handler[h].msg = i => Progress(h, i)
  /\ ~Noted(i) /\ (\A h \in Threads : handler[h].msg # i) => issues[i] = 0 /\ replies[i] = 0

OneHandler == mode = "socket" /\ deaths = 0 => \A i \in Ids \ unkeyed : Handled(i)

RepliesInv == KeysInv /\ Shape /\ OncePerLife /\ NeverAgain /\ OneHandler

\* At the start nothing has been posted.
LEMMA RepliesInit == Init => RepliesInv
<1> SUFFICES ASSUME Init PROVE RepliesInv
  OBVIOUS
<1>1. KeysInv
  BY KeysInit
<1>2. Shape
  BY SlackQaAssumption DEF Init, Shape, Posted
<1>3. \A i \in Ids : Posts(i, 0) /\ Edited(i) = 0 /\ ~Stale(i) /\ ~Open(i) /\ ~StaleQa(i)
  BY DEF Init, Posts, Owes, Pending, Edited, Posted, Stale, Open, StaleQa, Ids
<1>4. OncePerLife
  BY <1>3 DEF Init, OncePerLife, Posts, KeyKnown, Posted
<1>5. NeverAgain
  <2>1. ASSUME NEW i \in Ids PROVE Posts(i, Edited(i) + 1)
    BY <1>3 DEF Init, Posts, Owes, Pending
  <2> QED
    BY <1>3, <2>1 DEF NeverAgain
<1>6. OneHandler
  BY DEF Init, OneHandler, Handled, Idle, Ids
<1> QED
  BY <1>1, <1>2, <1>4, <1>5, <1>6 DEF RepliesInv

\* The steps of each mode: a poll, or a handler in a process that listens.
PollStep == Poll \/ \E i \in Ids : HandOffFails(i)
SocketStep == Deliver \/ \E h \in Threads : Handle(h) \/ EventFails(h)

\* A step that is not somebody's post to the channel nor a death has a mode.
LEMMA ModesApart ==
  ASSUME RepliesInv
  PROVE  /\ PollStep => mode = "poll" /\ point # "listen"
         /\ SocketStep => mode = "socket"
<1> USE DEF RepliesInv
<1>1. PollStep => mode = "poll" /\ point # "listen"
  BY DEF PollStep, Poll, Launch, Read, Reply, PostNotice, Save, Skip, PlanLocal, HandOff,
         HandOffFails, Shape
<1>2. Deliver => mode = "socket"
  BY DEF Deliver, Listen, Ignore, Take, Shape
<1>3. ASSUME NEW h \in Threads, Handle(h) \/ EventFails(h) PROVE mode = "socket"
  <2>1. handler[h].at # "idle"
    BY <1>3 DEF Handle, EventFails, Planning, PlanEvent, HandOffEvent, Note, Dump, Truncate, Write,
                ReplyToEvent, NoticeOfEvent
  <2> QED
    BY <2>1, WorksInListen DEF Shape
<1> QED
  BY <1>1, <1>2, <1>3 DEF SocketStep

\* The options stay.
LEMMA OptionsStep ==
  ASSUME [Next]_vars
  PROVE  UNCHANGED options
<1>1. CASE UNCHANGED vars
  BY <1>1 DEF vars
<1>2. CASE Poll
  BY <1>2 DEF Poll, Launch, Read, Reply, PostNotice, Save, Skip, PlanLocal, HandOff
<1>3. CASE Deliver
  BY <1>3 DEF Deliver, Listen, Ignore, Take
<1>4. CASE \E h \in Threads : Handle(h) \/ EventFails(h)
  BY <1>4 DEF Handle, EventFails, PlanEvent, HandOffEvent, Note, Dump, Truncate, Write,
              ReplyToEvent, NoticeOfEvent
<1>5. CASE \/ Die \/ (\E qa \in BOOLEAN : UserPosts(qa)) \/ (\E i \in Ids : HandOffFails(i))
           \/ \E i \in Ids, qa \in BOOLEAN, text \in 0 .. MaxEdits : UserEdits(i, qa, text)
  BY <1>5 DEF Die, UserPosts, HandOffFails, UserEdits
<1> QED
  BY <1>1, <1>2, <1>3, <1>4, <1>5 DEF Next

\* Steps count replies and issues up, by messages that exist or not.
LEMMA CountsStep ==
  ASSUME Shape, [Next]_vars
  PROVE  replies' \in [Ids -> Nat] /\ issues' \in [Ids -> Nat] /\ deaths' \in Nat
<1> DEFINE Counts(f, g) == g = f \/ \E i : g = [f EXCEPT ![i] = @ + 1]
<1>1. ASSUME NEW f \in [Ids -> Nat], NEW g, Counts(f, g) PROVE g \in [Ids -> Nat]
  BY <1>1
<1>2. Counts(replies, replies') /\ Counts(issues, issues')
  <2>1. CASE UNCHANGED vars \/ Die \/ (\E qa \in BOOLEAN : UserPosts(qa))
             \/ \E i \in Ids, qa \in BOOLEAN, text \in 0 .. MaxEdits : UserEdits(i, qa, text)
    BY <2>1 DEF vars, slack, UserPosts, UserEdits, Die
  <2>2. CASE Poll
    BY <2>2 DEF Poll, Launch, Read, Reply, PostNotice, Save, Skip, PlanLocal, Draft, HandOff,
                Hermes, slack
  <2>3. CASE Deliver
    BY <2>3 DEF Deliver, Listen, Ignore, Take, slack
  <2>4. CASE \E i \in Ids : HandOffFails(i)
    BY <2>4 DEF HandOffFails, HermesFails, Hermes, slack
  <2>5. CASE \E h \in Threads : Handle(h) \/ EventFails(h)
    BY <2>5 DEF Handle, EventFails, HermesFails, PlanEvent, Draft, HandOffEvent, Hermes, Note,
                Dump, Truncate, Write, ReplyToEvent, NoticeOfEvent, slack
  <2> QED
    BY <2>1, <2>2, <2>3, <2>4, <2>5 DEF Next
<1>3. deaths' = deaths \/ deaths' = deaths + 1
  <2>1. CASE UNCHANGED vars \/ (\E qa \in BOOLEAN : UserPosts(qa))
             \/ \E i \in Ids, qa \in BOOLEAN, text \in 0 .. MaxEdits : UserEdits(i, qa, text)
    BY <2>1 DEF vars, UserPosts, UserEdits
  <2>2. CASE Poll
    BY <2>2 DEF Poll, Launch, Read, Reply, PostNotice, Save, Skip, PlanLocal, HandOff
  <2>3. CASE Deliver
    BY <2>3 DEF Deliver, Listen, Ignore, Take
  <2>4. CASE Die \/ \E i \in Ids : HandOffFails(i)
    BY <2>4 DEF Die, HandOffFails, Dies
  <2>5. CASE \E h \in Threads : Handle(h) \/ EventFails(h)
    BY <2>5 DEF Handle, EventFails, PlanEvent, HandOffEvent, Note, Dump, Truncate, Write,
                ReplyToEvent, NoticeOfEvent
  <2> QED
    BY <2>1, <2>2, <2>3, <2>4, <2>5 DEF Next
<1> QED
  BY <1>1, <1>2, <1>3 DEF Shape

\* What each place of the process says of its memory.
LEMMA ShapeStep ==
  ASSUME RepliesInv, [Next]_vars
  PROVE  Shape'
<1> USE DEF RepliesInv
<1>1. Len(channel') <= MaxMessages /\ Posted \subseteq Posted'
  <2>1. channel \in Seq(MessageType) /\ Len(channel) <= MaxMessages /\ MaxMessages \in Nat
    BY SlackQaAssumption DEF KeysInv, KeyTypes, Shape
  <2>2. /\ channel' \in Seq(MessageType) /\ Len(channel) <= Len(channel')
        /\ \/ channel' = channel
           \/ \E m \in MessageType : /\ channel' = Append(channel, m)
                                     /\ Len(channel) < MaxMessages
           \/ \E i \in Ids, qa \in BOOLEAN, text \in 0 .. MaxEdits : UserEdits(i, qa, text)
    BY <2>1, ChannelGrows
  <2>3. Len(channel') <= MaxMessages
    <3>1. CASE channel' = channel
      BY <2>1, <3>1
    <3>2. CASE \E m \in MessageType : channel' = Append(channel, m) /\ Len(channel) < MaxMessages
      BY <2>1, <3>2
    <3>3. CASE \E i \in Ids, qa \in BOOLEAN, text \in 0 .. MaxEdits : UserEdits(i, qa, text)
      <4>1. Len(channel') = Len(channel)
        BY <2>1, <3>3 DEF UserEdits
      <4> QED
        BY <2>1, <4>1
    <3> QED
      BY <2>2, <3>1, <3>2, <3>3
  <2>4. Len(channel) \in Nat /\ Len(channel') \in Nat
    BY <2>1, <2>2
  <2> QED
    BY <2>2, <2>3, <2>4 DEF Posted
<1>2. replies' \in [Ids -> Nat] /\ issues' \in [Ids -> Nat] /\ deaths' \in Nat
  BY CountsStep
<1> DEFINE
  Places ==
    /\ point = "listen" => mode = "socket"
    /\ point \notin {"down", "listen"} => mode = "poll"
    /\ point = "down" => seen = {} /\ newly = {} /\ batch = {}
    /\ point = "sleep" => newly \subseteq seen
<1>3. batch' \subseteq Posted' /\ Places'
  <2>1. batch \subseteq Posted /\ Places
    BY DEF Shape
  <2>2. CASE \/ UNCHANGED vars \/ \E qa \in BOOLEAN : UserPosts(qa)
             \/ \E i \in Ids, qa \in BOOLEAN, text \in 0 .. MaxEdits : UserEdits(i, qa, text)
    BY <1>1, <2>1, <2>2 DEF vars, options, process, loop, UserPosts, UserEdits
  <2>3. CASE Poll
    BY <1>1, <2>1, <2>3
       DEF Poll, Launch, Read, Reply, PostNotice, Save, Skip, PlanLocal, HandOff, options, process,
           loop, Window
  <2>4. CASE Die \/ \E i \in Ids : HandOffFails(i)
    BY <2>4 DEF Die, HandOffFails, Dies
  <2>5. CASE Deliver
    BY <1>1, <2>1, <2>5 DEF Deliver, Listen, Ignore, Take, options, process, loop
  <2>6. CASE \E h \in Threads : Handle(h) \/ EventFails(h)
    <3>1. PICK h \in Threads : Handle(h) \/ EventFails(h)
      BY <2>6
    <3>2. handler[h].at # "idle"
      BY <3>1 DEF Handle, EventFails, Planning, PlanEvent, HandOffEvent, Note, Dump, Truncate,
                  Write, ReplyToEvent, NoticeOfEvent
    <3>3. point = "listen"
      BY <3>2, WorksInListen
    <3>4. point' = point /\ batch' = batch /\ mode' = mode
      BY <3>1 DEF Handle, EventFails, PlanEvent, HandOffEvent, Note, Dump, Truncate, Write,
                  ReplyToEvent, NoticeOfEvent, options, process, loop
    <3> QED
      BY <1>1, <2>1, <3>3, <3>4
  <2> QED
    BY <2>2, <2>3, <2>4, <2>5, <2>6 DEF Next
<1> QED
  BY <1>1, <1>2, <1>3 DEF Shape

EditOf(i) == \E qa \in BOOLEAN, text \in 0 .. MaxEdits : UserEdits(i, qa, text)

\* A message stays as it is until somebody edits it.
LEMMA MessageStep ==
  ASSUME RepliesInv, [Next]_vars, NEW j \in Ids
  PROVE  /\ Edited(j) \in Nat /\ Edited(j)' \in Nat
         /\ Len(channel) \in Nat /\ Len(channel') \in Nat /\ Len(channel) <= Len(channel')
         /\ j \in Posted => j \in Posted'
         /\ \/ EditOf(j) /\ j \in Posted /\ Edited(j)' = Edited(j) + 1
            \/ /\ Edited(j)' = Edited(j)
               /\ j \in Posted => channel'[j] = channel[j]
<1>1. channel \in Seq(MessageType)
  BY DEF RepliesInv, KeysInv, KeyTypes
<1>2. /\ channel' \in Seq(MessageType) /\ Len(channel) <= Len(channel')
      /\ \/ channel' = channel
         \/ \E m \in MessageType : channel' = Append(channel, m) /\ m.edits = 0
         \/ \E i \in Ids : EditOf(i)
  BY <1>1, ChannelGrows DEF EditOf
<1>3. /\ Len(channel) \in Nat /\ Len(channel') \in Nat
      /\ \A i \in Posted : channel[i] \in MessageType
      /\ \A i \in Posted' : channel'[i] \in MessageType
      /\ j \in Posted => j \in Posted'
  BY <1>1, <1>2 DEF Posted
<1>4. Edited(j) \in Nat /\ Edited(j)' \in Nat
  BY <1>3 DEF Edited, MessageType
<1>5. CASE channel' = channel
  BY <1>2, <1>3, <1>4, <1>5 DEF Edited, Posted
<1>6. CASE \E m \in MessageType : channel' = Append(channel, m) /\ m.edits = 0
  <2>1. PICK m \in MessageType : channel' = Append(channel, m) /\ m.edits = 0
    BY <1>6
  <2>2. /\ Len(channel') = Len(channel) + 1 /\ channel'[Len(channel) + 1] = m
        /\ \A i \in Posted : channel'[i] = channel[i]
    BY <1>1, <2>1 DEF Posted
  <2>3. Edited(j)' = Edited(j)
    <3>1. CASE j \in Posted
      BY <1>3, <2>2, <3>1 DEF Edited
    <3>2. CASE j \notin Posted /\ j \in Posted'
      <4>1. j = Len(channel) + 1
        BY <1>3, <2>2, <3>2 DEF Posted
      <4> QED
        BY <2>1, <2>2, <3>2, <4>1 DEF Edited
    <3>3. CASE j \notin Posted /\ j \notin Posted'
      BY <3>3 DEF Edited
    <3> QED
      BY <3>1, <3>2, <3>3
  <2> QED
    BY <1>2, <1>3, <1>4, <2>2, <2>3
<1>7. CASE \E i \in Ids : EditOf(i)
  <2>1. PICK i \in Ids : EditOf(i)
    BY <1>7
  <2>2. PICK qa \in BOOLEAN, text \in 0 .. MaxEdits : UserEdits(i, qa, text)
    BY <2>1 DEF EditOf
  <2> DEFINE m == Reworded(channel[i], qa, text)
  <2>3. i \in Posted /\ channel' = [channel EXCEPT ![i] = m]
    BY <2>2 DEF UserEdits
  <2>4. Len(channel') = Len(channel) /\ m.edits = channel[i].edits + 1
    <3>1. text \in Nat
      BY SlackQaAssumption
    <3>2. channel[i] \in MessageType
      BY <1>3, <2>3
    <3>3. m.edits = channel[i].edits + 1
      BY <3>1, <3>2, RewordedType
    <3> QED
      BY <1>1, <2>3, <3>3
  <2>5. Posted' = Posted /\ \A k \in Posted : channel'[k] = IF k = i THEN m ELSE channel[k]
    BY <1>1, <2>3, <2>4 DEF Posted
  <2>6. CASE j = i
    <3>1. Edited(j)' = Edited(j) + 1
      BY <2>3, <2>4, <2>5, <2>6 DEF Edited
    <3> QED
      BY <1>2, <1>3, <1>4, <2>1, <2>3, <2>6, <3>1
  <2>7. CASE j # i
    <3>1. Edited(j)' = Edited(j) /\ (j \in Posted => channel'[j] = channel[j])
      BY <2>5, <2>7 DEF Edited
    <3> QED
      BY <1>2, <1>3, <1>4, <3>1
  <2> QED
    BY <2>6, <2>7
<1> QED
  BY <1>2, <1>5, <1>6, <1>7

\* The steps that post about a message, or decide to.
AnswerTo(i) == PlanLocal(i) \/ HandOff(i) \/ HandOffFails(i)

\* Polling, one step posts, or decides to post, once and about one message.
LEMMA PostsStep ==
  ASSUME RepliesInv, [Next]_vars, mode = "poll", NEW j \in Ids
  PROVE  /\ issues[j] \in Nat /\ Owes(j) \in Nat /\ issues'[j] \in Nat /\ Owes(j)' \in Nat
         /\ \/ AnswerTo(j) /\ issues'[j] <= issues[j] + 1 /\ Owes(j)' <= Owes(j) + 1
            \/ issues'[j] = issues[j] /\ Owes(j)' <= Owes(j)
<1>1. replies \in [Ids -> Nat] /\ issues \in [Ids -> Nat]
  BY DEF RepliesInv, Shape
<1>2. replies' \in [Ids -> Nat] /\ issues' \in [Ids -> Nat]
  BY CountsStep DEF RepliesInv
<1>3. issues[j] \in Nat /\ Owes(j) \in Nat /\ issues'[j] \in Nat /\ Owes(j)' \in Nat
  BY <1>1, <1>2 DEF Owes
<1>4. ~SocketStep
  BY ModesApart
<1>5. CASE \/ UNCHANGED vars \/ Launch \/ Read \/ PostNotice \/ Save \/ Die
           \/ (\E qa \in BOOLEAN : UserPosts(qa)) \/ (\E i \in Ids : EditOf(i))
           \/ (\E i \in Ids : Skip(i))
  <2>1. UNCHANGED <<replies, issues>> /\ (Pending(j)' => Pending(j))
    BY <1>5 DEF vars, slack, process, loop, Launch, Read, PostNotice, Save, Die, Dies, UserPosts,
                EditOf, UserEdits, Skip, Pending
  <2> QED
    BY <1>1, <1>3, <2>1 DEF Owes
<1>6. CASE Reply
  <2>1. /\ UNCHANGED issues /\ point = "reply" /\ point' \in {"notice", "look"}
        /\ replies' = [replies EXCEPT ![current] = @ + 1]
    BY <1>6 DEF Reply
  <2> QED
    BY <1>1, <1>3, <2>1 DEF Owes, Pending
<1>7. ASSUME NEW i \in Ids, AnswerTo(i)
      PROVE  \/ AnswerTo(j) /\ issues'[j] <= issues[j] + 1 /\ Owes(j)' <= Owes(j) + 1
             \/ issues'[j] = issues[j] /\ Owes(j)' <= Owes(j)
  <2>1. point = "look"
    BY <1>7 DEF AnswerTo, PlanLocal, HandOff, HandOffFails
  <2>2. CASE PlanLocal(i)
    <3>1. /\ replies' = replies /\ point' = "reply" /\ current' = i
          /\ issues' = issues \/ issues' = [issues EXCEPT ![i] = @ + 1]
      BY <2>2 DEF PlanLocal, Draft
    <3> QED
      BY <1>1, <1>7, <2>1, <3>1 DEF Owes, Pending
  <2>3. CASE HandOff(i) \/ HandOffFails(i)
    <3>1. /\ replies' = replies \/ replies' = [replies EXCEPT ![i] = @ + 1]
          /\ issues' = issues \/ issues' = [issues EXCEPT ![i] = @ + 1]
          /\ point' \in {"look", "down"}
      BY <2>1, <2>3 DEF HandOff, HandOffFails, HermesFails, Hermes, Dies, slack
    <3> QED
      BY <1>1, <1>7, <2>1, <3>1 DEF Owes, Pending
  <2> QED
    BY <1>7, <2>2, <2>3 DEF AnswerTo
<1> QED
  BY <1>3, <1>4, <1>5, <1>6, <1>7 DEF Next, Poll, SocketStep, EditOf, AnswerTo

\* What the poll remembers grows, until it dies; and what it has still to look
\* at is what it read.
LEMMA MemoryStep ==
  ASSUME RepliesInv, [Next]_vars, mode = "poll"
  PROVE  \/ point' = "down" /\ batch' = {} /\ deaths' = deaths + 1
         \/ Launch /\ batch' = {} /\ Known \subseteq Known' /\ deaths' = deaths
         \/ /\ point # "down" /\ point' # "down" /\ deaths' = deaths /\ Known \subseteq Known'
            /\ \/ batch' = {} /\ batch = {}
               \/ batch' = Window /\ history' = channel /\ channel' = channel
         \/ /\ point = "down" <=> point' = "down"
            /\ deaths' = deaths /\ Known \subseteq Known'
            /\ batch' \subseteq batch /\ history' = history
<1>1. ~SocketStep
  BY ModesApart
<1>2. /\ point = "down" => seen = {} /\ newly = {} /\ batch = {}
      /\ point = "sleep" => newly \subseteq seen
  BY DEF RepliesInv, Shape
<1>3. CASE \/ UNCHANGED vars \/ Reply \/ PostNotice
           \/ (\E qa \in BOOLEAN : UserPosts(qa)) \/ (\E i \in Ids : EditOf(i))
           \/ (\E i \in Ids : Skip(i) \/ PlanLocal(i) \/ HandOff(i))
  BY <1>3 DEF vars, process, loop, Reply, PostNotice, UserPosts, EditOf, UserEdits, Skip,
              PlanLocal, HandOff, Known
<1>4. CASE Launch
  BY <1>2, <1>4 DEF Launch, loop, Known
<1>5. CASE Read
  BY <1>2, <1>5 DEF Read, slack, Known
<1>6. CASE Save
  BY <1>6 DEF Save, Known
<1>7. CASE Die \/ \E i \in Ids : HandOffFails(i)
  BY <1>7 DEF Die, HandOffFails, Dies
<1> QED
  BY <1>1, <1>3, <1>4, <1>5, <1>6, <1>7 DEF Next, Poll, SocketStep, EditOf

\* What polling posts about a message it notes first, unless it dies.
LEMMA OncePerLifeStep ==
  ASSUME RepliesInv, [Next]_vars
  PROVE  OncePerLife'
<1> USE DEF RepliesInv
<1>1. mode' = mode
  BY OptionsStep DEF options
<1> SUFFICES ASSUME mode = "poll", NEW j \in Ids
             PROVE  /\ Posts(j, Edited(j) + deaths + (IF KeyKnown(j) THEN 1 ELSE 0))'
                    /\ Stale(j)' => Posts(j, Edited(j) + deaths - 1)'
  BY <1>1 DEF OncePerLife
<1>2. /\ Posts(j, Edited(j) + deaths + (IF KeyKnown(j) THEN 1 ELSE 0))
      /\ Stale(j) => Posts(j, Edited(j) + deaths - 1)
  BY DEF OncePerLife
<1>3. deaths \in Nat /\ batch \subseteq Posted
  BY DEF Shape
<1>4. /\ Edited(j) \in Nat /\ Edited(j)' \in Nat
      /\ j \in Posted => j \in Posted'
      /\ \/ EditOf(j) /\ j \in Posted /\ Edited(j)' = Edited(j) + 1
         \/ /\ Edited(j)' = Edited(j)
            /\ j \in Posted => channel'[j] = channel[j]
  BY MessageStep
<1>5. /\ issues[j] \in Nat /\ Owes(j) \in Nat /\ issues'[j] \in Nat /\ Owes(j)' \in Nat
      /\ \/ AnswerTo(j) /\ issues'[j] <= issues[j] + 1 /\ Owes(j)' <= Owes(j) + 1
         \/ issues'[j] = issues[j] /\ Owes(j)' <= Owes(j)
  BY PostsStep
<1> HIDE DEF RepliesInv
<1>6. CASE AnswerTo(j)
  <2>1. point = "look" /\ j \in batch /\ KeyRead(j) \notin Known
    BY <1>6 DEF AnswerTo, PlanLocal, HandOff, HandOffFails, IsDue, IsNext, Known
  <2>2. /\ issues'[j] <= issues[j] + 1 /\ Owes(j)' <= Owes(j) + 1
        /\ issues[j] <= Edited(j) + deaths /\ Owes(j) <= Edited(j) + deaths
    BY <1>2, <1>3, <1>4, <1>5, <2>1 DEF Posts, KeyKnown, Stale
  <2>3. ~Stale(j)'
    BY <1>6 DEF AnswerTo, PlanLocal, HandOff, HandOffFails, Dies, Stale
  <2>4. CASE HandOffFails(j)
    <3>1. deaths' = deaths + 1
      BY <2>4 DEF HandOffFails, Dies
    <3> QED
      BY <1>3, <1>4, <1>5, <2>2, <2>3, <3>1 DEF Posts
  <2>5. CASE PlanLocal(j) \/ HandOff(j)
    <3>1. /\ deaths' = deaths /\ batch' = batch \ {j} /\ seen' = seen
          /\ newly' = newly \union {KeyRead(j)}
      BY <2>5 DEF PlanLocal, HandOff
    <3>2. ~EditOf(j)
      BY <2>1, <3>1 DEF EditOf, UserEdits, process, loop
    <3>3. j \in Posted' /\ Key(j)' = Key(j) /\ Edited(j)' = Edited(j)
      BY <1>3, <1>4, <2>1, <3>2 DEF Key
    <3>4. CASE KeyRead(j) = Key(j)
      <4>1. KeyKnown(j)'
        BY <3>1, <3>3, <3>4 DEF KeyKnown, Known
      <4> QED
        BY <1>3, <1>4, <1>5, <2>2, <2>3, <3>1, <3>3, <4>1 DEF Posts
    <3>5. CASE KeyRead(j) # Key(j)
      <4>1. Stale(j)
        BY <2>1, <3>5 DEF Stale
      <4>2. issues[j] <= Edited(j) + deaths - 1 /\ Owes(j) <= Edited(j) + deaths - 1
        BY <1>2, <4>1 DEF Posts
      <4> QED
        BY <1>3, <1>4, <1>5, <2>2, <2>3, <3>1, <3>3, <4>2 DEF Posts
    <3> QED
      BY <3>4, <3>5
  <2> QED
    BY <1>6, <2>4, <2>5 DEF AnswerTo
<1>7. CASE issues'[j] = issues[j] /\ Owes(j)' <= Owes(j)
  <2>1. CASE EditOf(j)
    <3>1. UNCHANGED <<seen, newly, history, batch, deaths>>
      BY <2>1 DEF EditOf, UserEdits, process, loop
    <3>2. Edited(j)' = Edited(j) + 1 \/ (Edited(j)' = Edited(j) /\ channel'[j] = channel[j])
      BY <1>4, <2>1 DEF EditOf, UserEdits
    <3>3. CASE Edited(j)' = Edited(j) + 1
      <4>1. Posts(j, Edited(j) + deaths + (IF KeyKnown(j) THEN 1 ELSE 0))'
        BY <1>2, <1>3, <1>4, <1>5, <1>7, <3>1, <3>3 DEF Posts
      <4>2. ASSUME Stale(j)' PROVE Posts(j, Edited(j) + deaths - 1)'
        <5>1. j \in batch /\ KeyRead(j) \notin Known
          BY <3>1, <4>2 DEF Stale, KeyRead, Known
        <5>2. issues[j] <= Edited(j) + deaths /\ Owes(j) <= Edited(j) + deaths
          BY <1>2, <1>3, <1>4, <1>5, <5>1 DEF Posts, KeyKnown, Stale
        <5> QED
          BY <1>3, <1>4, <1>5, <1>7, <3>1, <3>3, <5>2 DEF Posts
      <4> QED
        BY <4>1, <4>2
    <3>4. CASE Edited(j)' = Edited(j) /\ channel'[j] = channel[j]
      <4>1. KeyKnown(j)' <=> KeyKnown(j)
        BY <1>4, <2>1, <3>1, <3>4 DEF KeyKnown, Known, Key, EditOf, UserEdits
      <4>2. Stale(j)' => Stale(j)
        BY <3>1, <3>4 DEF Stale, KeyRead, Key, Known
      <4> QED
        BY <1>2, <1>3, <1>4, <1>5, <1>7, <3>1, <3>4, <4>1, <4>2 DEF Posts
    <3> QED
      BY <3>2, <3>3, <3>4
  <2>2. CASE Edited(j)' = Edited(j) /\ (j \in Posted => channel'[j] = channel[j])
    <3>1. j \in Posted => Key(j)' = Key(j)
      BY <2>2 DEF Key
    <3>2. CASE batch' = {} /\ deaths' = deaths + 1
      BY <1>2, <1>3, <1>4, <1>5, <1>7, <2>2, <3>2 DEF Posts, Stale
    <3>3. CASE deaths' = deaths /\ Known \subseteq Known'
      <4>1. KeyKnown(j) => KeyKnown(j)'
        BY <1>4, <3>1, <3>3 DEF KeyKnown
      <4>2. Posts(j, Edited(j) + deaths + (IF KeyKnown(j) THEN 1 ELSE 0))'
        BY <1>2, <1>3, <1>4, <1>5, <1>7, <2>2, <3>3, <4>1 DEF Posts
      <4>3. Stale(j)' => Stale(j)
        <5>1. CASE batch' = {}
          BY <5>1 DEF Stale
        <5>2. CASE history' = channel /\ channel' = channel
          BY <5>2 DEF Stale, KeyRead, Key
        <5>3. CASE batch' \subseteq batch /\ history' = history
          BY <1>3, <3>1, <3>3, <5>3 DEF Stale, KeyRead
        <5> QED
          BY <5>1, <5>2, <5>3, MemoryStep
      <4> QED
        BY <1>2, <1>3, <1>4, <1>5, <1>7, <2>2, <3>3, <4>2, <4>3 DEF Posts
    <3> QED
      BY <3>2, <3>3, MemoryStep
  <2> QED
    BY <1>4, <2>1, <2>2
<1> QED
  BY <1>5, <1>6, <1>7

\* What was posted about while existing messages are ignored stays known until
\* an edit, or is behind the history that is read.
LEMMA NeverAgainStep ==
  ASSUME RepliesInv, [Next]_vars
  PROVE  NeverAgain'
<1> USE DEF RepliesInv
<1>1. mode' = mode /\ ignore' = ignore
  BY OptionsStep DEF options
<1> SUFFICES ASSUME mode = "poll", ignore, NEW j \in Ids
             PROVE  /\ Posts(j, Edited(j) + 1)'
                    /\ Open(j)' => Posts(j, Edited(j))'
                    /\ StaleQa(j)' => Posts(j, Edited(j) - 1)'
                    /\ j \notin Posted' => Posts(j, 0)'
  BY <1>1 DEF NeverAgain
<1>2. /\ Posts(j, Edited(j) + 1)
      /\ Open(j) => Posts(j, Edited(j))
      /\ StaleQa(j) => Posts(j, Edited(j) - 1)
      /\ j \notin Posted => Posts(j, 0)
  BY DEF NeverAgain
<1>3. /\ batch \subseteq Posted
      /\ point = "down" => batch = {}
      /\ Limit \in Nat /\ j \in Nat
  BY SlackQaAssumption DEF Shape, Ids
<1>4. /\ Edited(j) \in Nat /\ Edited(j)' \in Nat
      /\ Len(channel) \in Nat /\ Len(channel') \in Nat /\ Len(channel) <= Len(channel')
      /\ j \in Posted => j \in Posted'
      /\ \/ EditOf(j) /\ j \in Posted /\ Edited(j)' = Edited(j) + 1
         \/ /\ Edited(j)' = Edited(j)
            /\ j \in Posted => channel'[j] = channel[j]
  BY MessageStep
<1>5. /\ issues[j] \in Nat /\ Owes(j) \in Nat /\ issues'[j] \in Nat /\ Owes(j)' \in Nat
      /\ \/ AnswerTo(j) /\ issues'[j] <= issues[j] + 1 /\ Owes(j)' <= Owes(j) + 1
         \/ issues'[j] = issues[j] /\ Owes(j)' <= Owes(j)
  BY PostsStep
<1> HIDE DEF RepliesInv
<1>6. CASE AnswerTo(j)
  <2>1. /\ point = "look" /\ j \in batch /\ KeyRead(j) \notin Known /\ history[j].qa
        /\ j \in Posted
    BY <1>3, <1>6 DEF AnswerTo, PlanLocal, HandOff, HandOffFails, IsDue, IsNext, Known
  <2>2. j \notin batch' /\ ~EditOf(j)
    BY <1>6, <2>1 DEF AnswerTo, PlanLocal, HandOff, HandOffFails, Dies, EditOf, UserEdits, process,
                      loop
  <2>3. Edited(j)' = Edited(j) /\ channel'[j] = channel[j] /\ ~StaleQa(j)' /\ j \in Posted'
    BY <1>4, <2>1, <2>2 DEF StaleQa
  <2>4. CASE StaleQa(j)
    <3>1. issues[j] <= Edited(j) - 1 /\ Owes(j) <= Edited(j) - 1
      BY <1>2, <2>4 DEF Posts
    <3> QED
      BY <1>4, <1>5, <2>3, <3>1 DEF Posts
  <2>5. CASE ~StaleQa(j)
    <3>1. Open(j) /\ KeyRead(j) = Key(j)
      BY <2>1, <2>5 DEF StaleQa, Open
    <3>2. issues[j] <= Edited(j) /\ Owes(j) <= Edited(j)
      BY <1>2, <3>1 DEF Posts
    <3>3. ~Open(j)'
      <4>1. CASE HandOffFails(j)
        BY <4>1 DEF HandOffFails, Dies, Open
      <4>2. CASE PlanLocal(j) \/ HandOff(j)
        BY <2>3, <3>1, <4>2 DEF PlanLocal, HandOff, Open, Known, Key
      <4> QED
        BY <1>6, <4>1, <4>2 DEF AnswerTo
    <3> QED
      BY <1>4, <1>5, <2>3, <3>2, <3>3 DEF Posts
  <2> QED
    BY <2>4, <2>5
<1>7. CASE issues'[j] = issues[j] /\ Owes(j)' <= Owes(j)
  <2>1. CASE EditOf(j) /\ Edited(j)' = Edited(j) + 1
    <3>1. UNCHANGED <<seen, newly, history, batch, point>> /\ j \in Posted
      BY <2>1 DEF EditOf, UserEdits, process, loop
    <3>2. Posts(j, Edited(j))' /\ Posts(j, Edited(j) + 1)'
      BY <1>2, <1>4, <1>5, <1>7, <2>1 DEF Posts
    <3>3. ASSUME StaleQa(j)' PROVE Posts(j, Edited(j) - 1)'
      <4>1. j \in batch /\ history[j].qa /\ KeyRead(j) \notin Known
        BY <3>1, <3>3 DEF StaleQa, KeyRead, Known
      <4>2. Open(j) \/ StaleQa(j)
        BY <1>3, <3>1, <4>1 DEF Open, StaleQa
      <4>3. issues[j] <= Edited(j) /\ Owes(j) <= Edited(j)
        BY <1>2, <1>4, <1>5, <4>2 DEF Posts
      <4> QED
        BY <1>4, <1>5, <1>7, <2>1, <4>3 DEF Posts
    <3> QED
      BY <1>4, <3>1, <3>2, <3>3
  <2>2. CASE Edited(j)' = Edited(j) /\ (j \in Posted => channel'[j] = channel[j])
    <3>1. j \in Posted => Key(j)' = Key(j) /\ IsQa(j)' = IsQa(j)
      BY <2>2 DEF Key, IsQa
    <3>2. /\ Posts(j, Edited(j) + 1)'
          /\ j \notin Posted' => Posts(j, 0)'
          /\ j \notin Posted => Posts(j, Edited(j))'
      BY <1>2, <1>4, <1>5, <1>7, <2>2 DEF Posts
    <3>3. j \in Posted /\ Open(j)' => Open(j)
      <4>1. CASE point' = "down"
        BY <4>1 DEF Open
      <4>2. CASE Launch
        <5>1. /\ channel' = channel /\ batch' = {}
              /\ {Key(i) : i \in {k \in Window : IsQa(k)}} \subseteq seen'
          <6>1. batch = {} /\ batch' = batch /\ channel' = channel
            BY <1>3, <4>2 DEF Launch, slack, loop
          <6>2. {Key(i) : i \in {k \in Window : IsQa(k)}} \subseteq seen'
            BY <4>2 DEF Launch
          <6> QED
            BY <6>1, <6>2
        <5>2. j \in Window /\ IsQa(j) => Key(j) \in Known'
          BY <5>1 DEF Known
        <5> QED
          BY <1>3, <1>4, <3>1, <5>1, <5>2 DEF Open, Window, Posted
      <4>3. CASE /\ point # "down" /\ Known \subseteq Known'
                 /\ \/ batch' = {}
                    \/ batch' = Window /\ channel' = channel
                    \/ batch' \subseteq batch
        <5> SUFFICES ASSUME j \in Posted, Open(j)' PROVE Open(j)
          OBVIOUS
        <5>1. IsQa(j) /\ Key(j) \notin Known
          BY <3>1, <4>3 DEF Open
        <5>2. j \in batch' \/ j > Len(channel') - Limit
          BY DEF Open
        <5>3. j \in batch \/ j > Len(channel) - Limit
          BY <1>3, <1>4, <4>3, <5>2 DEF Window
        <5> QED
          BY <4>3, <5>1, <5>3 DEF Open
      <4> QED
        BY <4>1, <4>2, <4>3, MemoryStep
    <3>4. StaleQa(j)' => StaleQa(j)
      <4>1. CASE batch' = {}
        BY <4>1 DEF StaleQa
      <4>2. CASE history' = channel /\ channel' = channel
        BY <4>2 DEF StaleQa, KeyRead, Key, IsQa
      <4>3. CASE batch' \subseteq batch /\ history' = history /\ Known \subseteq Known'
        BY <1>3, <3>1, <4>3 DEF StaleQa, KeyRead
      <4> QED
        BY <4>1, <4>2, <4>3, MemoryStep
    <3>5. Open(j)' => Posts(j, Edited(j))'
      BY <1>2, <1>4, <1>5, <1>7, <2>2, <3>2, <3>3 DEF Posts
    <3>6. StaleQa(j)' => Posts(j, Edited(j) - 1)'
      BY <1>2, <1>4, <1>5, <1>7, <2>2, <3>4 DEF Posts
    <3> QED
      BY <3>2, <3>5, <3>6
  <2> QED
    BY <1>4, <2>1, <2>2
<1> QED
  BY <1>5, <1>6, <1>7

SameNote(j) == (Noted(j) => Noted(j)') /\ (j \in Posted => Noted(j)' = Noted(j))

\* Where the process listens, a message keeps its key.
LEMMA KeysStay ==
  ASSUME RepliesInv, [Next]_vars, mode = "socket", NEW j \in Ids
  PROVE  /\ j \in Posted => j \in Posted' /\ Key(j)' = Key(j)
         /\ seen' = seen => SameNote(j)
<1>1. ~EditOf(j)
  BY DEF EditOf, UserEdits
<1>2. j \in Posted => j \in Posted' /\ Key(j)' = Key(j)
  BY <1>1, MessageStep DEF Key
<1> QED
  BY <1>2 DEF SameNote, Noted

\* A thread that works on another message, or leaves this one, does not
\* disturb what Handled says of it.
LEMMA HandledApart ==
  ASSUME KeysInv, NEW j \in Ids, Handled(j), NEW h \in Threads, NEW r,
         handler' = [handler EXCEPT ![h] = r],
         handler[h].msg # j, r.msg # j,
         issues'[j] = issues[j], replies'[j] = replies[j], SameNote(j), HandsOff' = HandsOff
  PROVE  Handled(j)'
<1>1. \A g \in Threads : handler'[g] = IF g = h THEN r ELSE handler[g]
  BY DEF KeysInv, FileInv, Types
<1>2. \A g \in Threads : handler'[g].msg = j => handler[g].msg = j /\ handler'[g] = handler[g]
  BY <1>1
<1>3. \A g \in Threads : handler[g].msg = j => handler'[g].msg = j
  BY <1>1
<1>4. ASSUME NEW g \in Threads, handler'[g].msg = j PROVE Progress(g, j)'
  <2>1. handler[g].msg = j /\ handler'[g] = handler[g] /\ Progress(g, j)
    BY <1>2, <1>4 DEF Handled
  <2>2. j \in Posted
    BY <2>1 DEF Progress, KeysInv, KeyTypes
  <2> QED
    BY <2>1, <2>2 DEF Progress, SameNote
<1> QED
  BY <1>2, <1>3, <1>4 DEF Handled, SameNote

\* A thread goes on with its message and keeps it.
LEMMA HandledSame ==
  ASSUME KeysInv, NEW j \in Ids, Handled(j), NEW h \in Threads, NEW r,
         handler' = [handler EXCEPT ![h] = r],
         handler[h].msg = j, r.msg = j,
         Progress(h, j)', issues'[j] <= 1, replies'[j] <= 1
  PROVE  Handled(j)'
<1>1. \A g \in Threads : handler'[g] = IF g = h THEN r ELSE handler[g]
  BY DEF KeysInv, FileInv, Types
<1>2. \A g \in Threads : handler'[g].msg = j => g = h
  BY <1>1 DEF Handled
<1> QED
  BY <1>1, <1>2 DEF Handled

\* A thread that knows the key is done with its message.
LEMMA HandledDone ==
  ASSUME KeysInv, NEW j \in Ids, Handled(j), NEW h \in Threads,
         handler' = [handler EXCEPT ![h] = Idle],
         handler[h].msg = j, Noted(j)', issues'[j] <= 1, replies'[j] <= 1
  PROVE  Handled(j)'
<1>1. \A g \in Threads : handler'[g] = IF g = h THEN Idle ELSE handler[g]
  BY DEF KeysInv, FileInv, Types
<1>2. \A g \in Threads : handler'[g].msg # j
  BY <1>1, SlackQaAssumption DEF Handled, Idle, Ids
<1> QED
  BY <1>2 DEF Handled

\* A thread takes a message whose key is not noted: nobody has it.
LEMMA HandledTake ==
  ASSUME RepliesInv, NEW j \in Ids, Handled(j), NEW h \in Threads, NEW i \in Ids,
         [Next]_vars, mode = "socket", Take(h, i), j \notin unkeyed'
  PROVE  Handled(j)'
<1> DEFINE r == [at |-> "plan", msg |-> i, keys |-> {}, noticed |-> FALSE]
<1>1. /\ handler[h] = Idle /\ handler' = [handler EXCEPT ![h] = r] /\ ~Noted(i)
      /\ i \in Posted
      /\ UNCHANGED <<channel, replies, issues, seen, delegate, tickets>>
  BY DEF Take, Answerable, Noted, slack, process, options
<1>2. handler[h].msg # j
  BY <1>1, SlackQaAssumption DEF Idle, Ids
<1>3. CASE i # j
  <2>1. HandsOff' = HandsOff
    BY <1>1 DEF HandsOff
  <2>2. r.msg # j
    BY <1>3
  <2>3. SameNote(j)
    BY <1>1, KeysStay
  <2> QED
    BY <1>1, <1>2, <2>1, <2>2, <2>3, HandledApart DEF RepliesInv
<1>4. CASE i = j
  <2>1. \A g \in Threads : ~(handler[g].at \in {"plan", "note"} /\ handler[g].msg = j)
    BY <1>4 DEF Take
  <2>2. \A g \in Threads : handler[g].msg # j
    BY <1>1, <1>4, <2>1 DEF Handled, Progress
  <2>3. issues[j] = 0 /\ replies[j] = 0
    BY <1>1, <1>4, <2>2 DEF Handled
  <2>4. \A g \in Threads : handler'[g] = IF g = h THEN r ELSE handler[g]
    BY <1>1 DEF RepliesInv, KeysInv, FileInv, Types
  <2>5. \A g \in Threads : handler'[g].msg = j => g = h
    BY <2>2, <2>4
  <2>6. Progress(h, j)' /\ handler'[h].msg = j
    BY <1>1, <1>4, <2>3, <2>4 DEF Progress, Noted, Posted, Key
  <2> QED
    BY <1>1, <2>3, <2>5, <2>6 DEF Handled
<1> QED
  BY <1>3, <1>4

\* The steps of a thread with the message that it has taken.
LEMMA HandledWork ==
  ASSUME RepliesInv, NEW j \in Ids, Handled(j), NEW h \in Threads,
         [Next]_vars, mode = "socket", Handle(h) \/ EventFails(h), j \notin unkeyed'
  PROVE  Handled(j)'
<1> USE DEF RepliesInv
<1>1. /\ handler \in [Threads -> HandlerType] /\ handler[h] \in HandlerType
      /\ replies \in [Ids -> Nat] /\ issues \in [Ids -> Nat]
  BY DEF KeysInv, FileInv, Types, Shape
<1>2. Idle.msg # j
  BY SlackQaAssumption DEF Idle, Ids
<1>3. UNCHANGED <<delegate, tickets>>
  BY DEF Handle, EventFails, PlanEvent, HandOffEvent, Note, Dump, Truncate, Write, ReplyToEvent,
         NoticeOfEvent, options
<1>4. HandsOff' = HandsOff
  BY <1>3 DEF HandsOff
<1> DEFINE Mine == handler[h].msg = j
<1>5. Mine => Progress(h, j)
  BY DEF Handled
<1>6. issues[j] <= 1 /\ replies[j] <= 1
  BY DEF Handled
<1>14. Mine => j \in Posted
  BY <1>5 DEF Progress, KeysInv, KeyTypes
<1>15. /\ j \in Posted => j \in Posted' /\ Key(j)' = Key(j)
       /\ seen' = seen => SameNote(j)
  BY KeysStay
<1>16. seen' = seen /\ Mine => Noted(j)' = Noted(j)
  BY <1>14, <1>15 DEF SameNote
<1>17. KeysInv
  OBVIOUS
<1> HIDE DEF RepliesInv
<1>7. CASE PlanEvent(h)
  <2>1. PICK notice \in BOOLEAN :
          /\ Draft(handler[h].msg, notice)
          /\ handler' = [handler EXCEPT ![h].at = "note", ![h].noticed = notice]
    BY <1>7 DEF PlanEvent
  <2> DEFINE r == [handler[h] EXCEPT !.at = "note", !.noticed = notice]
  <2>2. handler' = [handler EXCEPT ![h] = r] /\ r.msg = handler[h].msg /\ r.at = "note"
    BY <1>1, <2>1 DEF HandlerType
  <2>3. /\ seen' = seen /\ replies' = replies /\ handler[h].at = "plan" /\ ~HandsOff
        /\ issues' = issues \/ issues' = [issues EXCEPT ![handler[h].msg] = @ + 1]
    BY <1>7, <2>1 DEF PlanEvent, Planning, Draft, process
  <2>4. CASE Mine
    <3>1. handler'[h].at = "note"
      BY <1>1, <2>2
    <3>2. Progress(h, j)' /\ issues'[j] <= 1 /\ replies'[j] <= 1
      BY <1>1, <1>4, <1>5, <1>16, <2>3, <2>4, <3>1 DEF Progress
    <3> QED
      BY <2>2, <2>4, <3>2, <1>17, HandledSame
  <2>5. CASE ~Mine
    BY <1>1, <1>4, <1>15, <2>2, <2>3, <2>5, <1>17, HandledApart
  <2> QED
    BY <2>4, <2>5
<1>8. CASE HandOffEvent(h)
  <2> DEFINE r == [handler[h] EXCEPT !.at = "note"]
  <2>1. handler' = [handler EXCEPT ![h] = r] /\ r.msg = handler[h].msg /\ r.at = "note"
    BY <1>1, <1>8 DEF HandOffEvent, HandlerType
  <2>2. /\ seen' = seen /\ handler[h].at = "plan" /\ HandsOff
        /\ issues' = [issues EXCEPT ![handler[h].msg] = @ + 1]
        /\ replies' = [replies EXCEPT ![handler[h].msg] = @ + 1]
    BY <1>8 DEF HandOffEvent, Planning, Hermes, process
  <2>3. CASE Mine
    <3>1. handler'[h].at = "note"
      BY <1>1, <2>1
    <3>2. Progress(h, j)' /\ issues'[j] <= 1 /\ replies'[j] <= 1
      BY <1>1, <1>4, <1>5, <1>16, <2>2, <2>3, <3>1 DEF Progress
    <3> QED
      BY <2>1, <2>3, <3>2, <1>17, HandledSame
  <2>4. CASE ~Mine
    BY <1>1, <1>4, <1>15, <2>1, <2>2, <2>4, <1>17, HandledApart
  <2> QED
    BY <2>3, <2>4
<1>9. CASE EventFails(h)
  <2>1. /\ handler' = [handler EXCEPT ![h] = Idle] /\ seen' = seen /\ ~Mine
        /\ issues' = issues \/ issues' = [issues EXCEPT ![handler[h].msg] = @ + 1]
        /\ replies' = replies \/ replies' = [replies EXCEPT ![handler[h].msg] = @ + 1]
    BY <1>9 DEF EventFails, HermesFails, Hermes, slack, process
  <2> QED
    BY <1>1, <1>2, <1>4, <1>15, <2>1, <1>17, HandledApart
<1>10. CASE Note(h)
  <2> DEFINE r == [handler[h] EXCEPT !.at = "dump"]
  <2>1. handler' = [handler EXCEPT ![h] = r] /\ r.msg = handler[h].msg /\ r.at = "dump"
    BY <1>1, <1>10 DEF Note, HandlerType
  <2>2. /\ handler[h].at = "note" /\ seen' = seen \union {Key(handler[h].msg)}
        /\ UNCHANGED <<issues, replies>>
    BY <1>10 DEF Note, slack
  <2>3. CASE Mine
    <3>1. handler'[h].at = "dump"
      BY <1>1, <2>1
    <3>2. Noted(j)'
      BY <1>14, <1>15, <2>2, <2>3 DEF Noted
    <3>3. Progress(h, j)'
      BY <1>4, <1>5, <2>2, <2>3, <3>1, <3>2 DEF Progress
    <3> QED
      BY <1>6, <2>1, <2>2, <2>3, <3>3, <1>17, HandledSame
  <2>4. CASE ~Mine
    <3>1. SameNote(j)
      BY <1>15, <2>2, <2>4 DEF SameNote, Noted, Key
    <3> QED
      BY <1>4, <2>1, <2>2, <2>4, <3>1, <1>17, HandledApart
  <2> QED
    BY <2>3, <2>4
<1>11. CASE Dump(h) \/ Truncate(h) \/ (Write(h) /\ ~HandsOff)
  <2>1. PICK r : /\ handler' = [handler EXCEPT ![h] = r] /\ r.msg = handler[h].msg
                 /\ \/ r.at \in {"truncate", "write"}
                    \/ r.at = "reply" /\ ~HandsOff
    <3>1. CASE Dump(h)
      <4> DEFINE q == [handler[h] EXCEPT !.at = "truncate", !.keys = seen]
      <4>1. handler' = [handler EXCEPT ![h] = q] /\ q.msg = handler[h].msg /\ q.at = "truncate"
        BY <1>1, <3>1 DEF Dump, HandlerType
      <4> QED
        BY <4>1
    <3>2. CASE Truncate(h)
      <4> DEFINE q == [handler[h] EXCEPT !.at = "write"]
      <4>1. handler' = [handler EXCEPT ![h] = q] /\ q.msg = handler[h].msg /\ q.at = "write"
        BY <1>1, <3>2 DEF Truncate, HandlerType
      <4> QED
        BY <4>1
    <3>3. CASE Write(h) /\ ~HandsOff
      <4> DEFINE q == [handler[h] EXCEPT !.at = "reply"]
      <4>1. handler' = [handler EXCEPT ![h] = q] /\ q.msg = handler[h].msg /\ q.at = "reply"
        BY <1>1, <3>3 DEF Write, HandlerType
      <4> QED
        BY <3>3, <4>1
    <3> QED
      BY <1>11, <3>1, <3>2, <3>3
  <2>2. /\ handler[h].at \in {"dump", "truncate", "write"}
        /\ UNCHANGED <<issues, replies, seen>>
    BY <1>11 DEF Dump, Truncate, Write, slack, process
  <2>3. CASE Mine
    <3>1. handler'[h] = r
      BY <1>1, <2>1
    <3>2. Progress(h, j)'
      BY <1>4, <1>5, <1>16, <2>1, <2>2, <2>3, <3>1 DEF Progress
    <3> QED
      BY <1>6, <2>1, <2>2, <2>3, <3>2, <1>17, HandledSame
  <2>4. CASE ~Mine
    BY <1>4, <1>15, <2>1, <2>2, <2>4, <1>17, HandledApart
  <2> QED
    BY <2>3, <2>4
<1>12. CASE (Write(h) /\ HandsOff) \/ NoticeOfEvent(h)
  <2>1. /\ handler[h].at \in {"write", "notice"}
        /\ handler' = [handler EXCEPT ![h] = Idle] /\ UNCHANGED <<issues, replies, seen>>
    BY <1>12 DEF Write, NoticeOfEvent, slack, process
  <2>2. CASE Mine
    <3>1. Noted(j)'
      BY <1>5, <1>16, <2>1, <2>2 DEF Progress
    <3> QED
      BY <1>6, <2>1, <2>2, <3>1, <1>17, HandledDone
  <2>3. CASE ~Mine
    BY <1>2, <1>4, <1>15, <2>1, <2>3, <1>17, HandledApart
  <2> QED
    BY <2>2, <2>3
<1>13. CASE ReplyToEvent(h)
  <2>1. PICK r : /\ handler' = [handler EXCEPT ![h] = r]
                 /\ r = Idle \/ (r.msg = handler[h].msg /\ r.at = "notice")
    <3> DEFINE q == [handler[h] EXCEPT !.at = "notice"]
    <3>1. q.msg = handler[h].msg /\ q.at = "notice"
      BY <1>1 DEF HandlerType
    <3>2. CASE handler[h].noticed
      <4>1. handler' = [handler EXCEPT ![h] = q]
        BY <1>13, <3>2 DEF ReplyToEvent
      <4> QED
        BY <3>1, <4>1
    <3>3. CASE ~handler[h].noticed
      BY <1>13, <3>3 DEF ReplyToEvent
    <3> QED
      BY <3>2, <3>3
  <2>2. /\ handler[h].at = "reply" /\ UNCHANGED <<issues, seen>>
        /\ replies' = [replies EXCEPT ![handler[h].msg] = @ + 1]
    BY <1>13 DEF ReplyToEvent, process
  <2>3. CASE Mine
    <3>1. Noted(j)' /\ issues'[j] <= 1 /\ replies'[j] <= 1
      BY <1>1, <1>5, <1>6, <1>16, <2>2, <2>3 DEF Progress
    <3>2. CASE r = Idle
      BY <2>1, <2>3, <3>1, <3>2, <1>17, HandledDone
    <3>3. CASE r.msg = handler[h].msg /\ r.at = "notice"
      <4>1. handler'[h] = r
        BY <1>1, <2>1
      <4>2. Progress(h, j)'
        BY <3>1, <3>3, <4>1 DEF Progress
      <4> QED
        BY <2>1, <2>3, <3>1, <3>3, <4>2, <1>17, HandledSame
    <3> QED
      BY <2>1, <3>2, <3>3
  <2>4. CASE ~Mine
    <3>1. r.msg # j
      BY <1>2, <2>1, <2>4
    <3>2. issues'[j] = issues[j] /\ replies'[j] = replies[j] /\ SameNote(j)
      BY <1>1, <1>15, <2>2, <2>4
    <3> QED
      BY <1>4, <2>1, <2>4, <3>1, <3>2, <1>17, HandledApart
  <2> QED
    BY <2>3, <2>4
<1> QED
  BY <1>7, <1>8, <1>9, <1>10, <1>11, <1>12, <1>13 DEF Handle

\* What the handlers do in a process that never died.
LEMMA OneHandlerStep ==
  ASSUME RepliesInv, [Next]_vars
  PROVE  OneHandler'
<1> USE DEF RepliesInv
<1>1. mode' = mode /\ unkeyed \subseteq unkeyed'
  BY OptionsStep
     DEF Next, Poll, Deliver, Handle, vars, options, socket, UserPosts, UserEdits, Launch, Read,
         Reply, PostNotice, Save, Skip, PlanLocal, HandOff, HandOffFails, Die, Dies, Listen, Ignore,
         Take, EventFails, PlanEvent, HandOffEvent, Note, Dump, Truncate, Write, ReplyToEvent,
         NoticeOfEvent
<1>2. Die \/ (\E i \in Ids : HandOffFails(i)) => deaths' # 0
  BY DEF Die, HandOffFails, Dies, Shape
<1> SUFFICES ASSUME mode = "socket", deaths' = 0,
                    NEW j \in Ids, j \notin unkeyed'
             PROVE  Handled(j)'
  BY <1>1 DEF OneHandler
<1>3. ~PollStep /\ ~Die
  BY <1>2, ModesApart
<1>4. deaths = 0
  BY <1>3 DEF Next, Deliver, Handle, vars, UserPosts, UserEdits, Listen, Ignore, Take, EventFails, PlanEvent,
              HandOffEvent, Note, Dump, Truncate, Write, ReplyToEvent, NoticeOfEvent, PollStep
<1>5. Handled(j)
  BY <1>1, <1>4 DEF OneHandler
<1>6. CASE UNCHANGED vars \/ (\E qa \in BOOLEAN : UserPosts(qa)) \/ (\E i \in Ids : Ignore(i))
  <2>1. UNCHANGED <<replies, issues, seen, handler, delegate, tickets>>
    BY <1>6 DEF vars, slack, process, socket, options, UserPosts, Ignore
  <2>2. SameNote(j)
    BY <2>1, KeysStay
  <2>3. \A h \in Threads : handler[h].msg = j => j \in Posted
    BY <1>5 DEF Handled, Progress, KeysInv, KeyTypes
  <2> QED
    BY <1>5, <2>1, <2>2, <2>3 DEF Handled, Progress, HandsOff, SameNote
<1>7. CASE Listen
  <2>1. point = "down" /\ UNCHANGED <<replies, issues, handler>>
    BY <1>7 DEF Listen, slack, socket
  <2>2. ~Noted(j) /\ \A h \in Threads : handler[h] = Idle
    BY <2>1 DEF Shape, Noted, KeysInv, FileInv, IdleElsewhere
  <2>3. \A h \in Threads : handler[h].msg # j
    BY <2>2, SlackQaAssumption DEF Idle, Ids
  <2>4. issues[j] = 0 /\ replies[j] = 0
    BY <1>5, <2>2, <2>3 DEF Handled
  <2> QED
    BY <2>1, <2>3, <2>4 DEF Handled
<1>8. CASE \E i \in Ids, h \in Threads : Take(h, i)
  BY <1>5, <1>8, HandledTake
<1>9. CASE \E h \in Threads : Handle(h) \/ EventFails(h)
  BY <1>5, <1>9, HandledWork
<1>10. ASSUME NEW i \in Ids, NEW qa \in BOOLEAN, NEW text \in 0 .. MaxEdits
       PROVE  ~UserEdits(i, qa, text)
  BY DEF UserEdits
<1> QED
  BY <1>3, <1>6, <1>7, <1>8, <1>9, <1>10 DEF Next, Deliver, PollStep

\* A message gets a second reply or issue only for a cause.  Polling: a death
\* or an edit, and only an edit where existing messages are ignored on a start.
\* In socket mode: a death, or an event that came again, or failed, before its key was noted.
THEOREM SecondReplyHasACause == Spec => []RepliesHaveACause
<1>1. Init => RepliesInv
  BY RepliesInit
<1>2. RepliesInv /\ [Next]_vars => RepliesInv'
  <2> SUFFICES ASSUME RepliesInv, [Next]_vars PROVE RepliesInv'
    OBVIOUS
  <2>1. KeysInv'
    BY KeysStep DEF RepliesInv
  <2> QED
    BY <2>1, ShapeStep, OncePerLifeStep, NeverAgainStep, OneHandlerStep DEF RepliesInv
<1>3. RepliesInv => RepliesHaveACause
  <2> SUFFICES ASSUME RepliesInv, NEW i \in Posted
               PROVE  /\ mode = "poll" =>
                           LET most == 1 + channel[i].edits + (IF ignore THEN 0 ELSE deaths)
                           IN replies[i] <= most /\ issues[i] <= most
                      /\ mode = "socket" /\ deaths = 0 /\ i \notin unkeyed
                           => replies[i] <= 1 /\ issues[i] <= 1
    BY DEF RepliesHaveACause
  <2>1. /\ i \in Ids /\ replies[i] \in Nat /\ issues[i] \in Nat /\ deaths \in Nat
        /\ channel[i].edits \in Nat /\ Edited(i) = channel[i].edits
    <3>1. i \in Ids
      BY SlackQaAssumption DEF RepliesInv, Shape, Posted, Ids, KeysInv, KeyTypes
    <3>2. channel[i] \in MessageType
      BY DEF RepliesInv, Posted, KeysInv, KeyTypes
    <3>3. channel[i].edits \in Nat
      BY <3>2, MessageFields
    <3> QED
      BY <3>1, <3>3 DEF RepliesInv, Shape, Edited
  <2>2. CASE mode = "poll"
    <3>1. /\ Posts(i, Edited(i) + deaths + (IF KeyKnown(i) THEN 1 ELSE 0))
          /\ ignore => Posts(i, Edited(i) + 1)
      BY <2>1, <2>2 DEF RepliesInv, OncePerLife, NeverAgain
    <3> QED
      BY <2>1, <2>2, <3>1 DEF Posts, Owes
  <2>3. CASE mode # "poll"
    BY <2>1, <2>3 DEF RepliesInv, OneHandler, Handled
  <2> QED
    BY <2>2, <2>3
<1> QED
  BY <1>1, <1>2, <1>3, PTL DEF Spec
=============================================================================
