----------------------------- MODULE ReviewCards -----------------------------
(***************************************************************************)
(* The review of candidates for one AC: score-candidates makes a card for  *)
(* each entity with signals and offers it on the AC's sheet tab, operators *)
(* fill in reviewer and decision, sync-review-sheet takes the decisions    *)
(* into the store, calibrate-scores learns coefficients from them, and     *)
(* resolve-entities asks whether two entities are one.                     *)
(*                                                                         *)
(* The agent loop runs its jobs in turn; anyone may run a job by hand at   *)
(* the same time.  A job is its reads, then one step for each write.  Any  *)
(* write may raise or the process die: the job is over then.               *)
(*                                                                         *)
(* There is one card per entity, so a card is named by its entity.  What   *)
(* scoring computes is cut down to the signals it saw and the coefficients *)
(* it used; a review's memo is left out.                                   *)
(***************************************************************************)
EXTENDS Integers, SequencesExt

CONSTANTS
  Entities,     \* candidates
  Probability,  \* percent, for each pair of entities, that the two are one
  Entries,      \* what operators type: pairs of reviewer and decision
  Processes,    \* processes that run jobs
  Loop,         \* the one that runs the agent loop
  LoopJobs,     \* AGENT_LOOP_JOBS, in order
  ManualJobs,   \* jobs run by hand
  MaxSignals,   \* bound: signals of each entity
  MaxManual,    \* bound: jobs run by hand
  MaxEdits,     \* bound: operators' edits
  MaxFaults,    \* bound: jobs that die
  MaxTrouble    \* bound: all three of these

Jobs == {"score-candidates", "sync-review-sheet", "resolve-entities", "calibrate-scores"}
Decision == {"advance", "watchlist", "reject", "request_more_info"}

ASSUME ReviewAssumption ==
  /\ Loop \in Processes /\ ToSet(LoopJobs) \subseteq Jobs /\ LoopJobs # <<>>
  /\ ManualJobs \subseteq Jobs /\ IsFiniteSet(Entities)
  /\ Probability \in [Entities -> [Entities -> 0 .. 100]]
  /\ MaxSignals \in [Entities -> Nat]
  /\ {MaxManual, MaxEdits, MaxFaults, MaxTrouble} \subseteq Nat

VARIABLES
  signals,   \* number of signals of each entity, 0 for one not yet known
  seen,      \* known entities by (last_seen_at, entity_id)
  score,     \* ac_scores: signals each score saw, 0 for none
  card,      \* candidate_cards
  reviews,   \* reviews, each its review_id: card, reviewer, decision
  coef,      \* ac_scoring_coefficients: {} or {the corpus it was learnt from}
  sheet,     \* rows of the AC's tab
  events,    \* entity_resolution_events, all of them pending_review
  listed,    \* rows of the tab entity_resolution about each event
  pc,        \* the next step of each process
  mem,       \* what its job has read or computed
  turn,      \* the loop's place in LoopJobs
  manual, edits, faults

store == <<score, card, reviews, coef, events>>
tabs  == <<sheet, listed>>
vars  == <<signals, seen, store, tabs, pc, mem, turn, manual, edits, faults>>
-----------------------------------------------------------------------------
(* Rows.                                                                   *)

Archive == [signals |-> 0, model |-> {}]     \* the default queue_type
NoCard  == [status |-> "", queue |-> Archive]
Cards   == {e \in Entities : card[e] # NoCard}

\* upsert_rows: the new rows, and the others of the table.
Upserted(rows, table) ==
  [x \in DOMAIN rows \union DOMAIN table |-> IF x \in DOMAIN rows THEN rows[x] ELSE table[x]]

Status(decision) ==                           \* _DECISION_TO_STATUS
  CASE decision = "advance" -> "advanced"
    [] decision = "watchlist" -> "watchlist"
    [] decision = "reject" -> "rejected"
    [] decision = "request_more_info" -> "needs_info"

\* parse_review_row
Valid(row, known) ==
  row.card \in known /\ row.reviewer # "" /\ row.decision \in Decision

\* The coefficients in force: the default model has no corpus.
Model == UNION coef

Fresh(e) == [card |-> e, reviewer |-> "", decision |-> ""]

\* ProbabilisticEntityResolver.resolve: the likeliest of those seen before,
\* the first of them if several are.
Best(e, before) ==
  LET k == CHOOSE k \in DOMAIN before :
             \A j \in DOMAIN before :
               \/ Probability[e][before[j]] < Probability[e][before[k]]
               \/ Probability[e][before[j]] = Probability[e][before[k]] /\ k <= j
  IN  before[k]

Action(percent) ==
  CASE percent >= 85 -> "merge_candidate"
    [] percent >= 45 /\ percent < 85 -> "needs_review"
    [] OTHER -> "create"

\* The events of a run, by event_id, over the observations in their order.
Events(observations) ==
  LET Event(k) == LET e == observations[k]
                      f == Best(e, SubSeq(observations, 1, k - 1))
                  IN  <<e, f, Action(Probability[e][f])>>
  IN  {v \in {Event(k) : k \in 2 .. Len(observations)} : v[3] # "create"}

AllEvents == {v \in Entities \X Entities \X {"merge_candidate", "needs_review"} :
                v[1] # v[2] /\ v[3] = Action(Probability[v[1]][v[2]])}
-----------------------------------------------------------------------------
(* Starting and ending a job.                                              *)

Idle == [rows |-> <<>>, publish |-> {}, ask |-> {}, known |-> {}, corpus |-> {}]

Trouble == manual + edits + faults < MaxTrouble

Begin(p, job) ==
  /\ pc[p] = "idle"
  /\ IF p = Loop
       THEN LoopJobs[turn] = job /\ turn' = (turn % Len(LoopJobs)) + 1 /\ UNCHANGED manual
       ELSE /\ job \in ManualJobs /\ manual < MaxManual /\ Trouble
            /\ manual' = manual + 1 /\ UNCHANGED turn

Goto(p, step, read) ==
  pc' = [pc EXCEPT ![p] = step] /\ mem' = [mem EXCEPT ![p] = read]
Continue(p, from, to) ==
  /\ pc[p] = from /\ pc' = [pc EXCEPT ![p] = to]
  /\ mem' = [mem EXCEPT ![p] = IF to = "idle" THEN Idle ELSE @]
  /\ UNCHANGED <<turn, manual, edits, faults>>

\* A write raises, or the process dies.  The loop goes on with the next job.
Die(p) ==
  /\ pc[p] # "idle" /\ faults < MaxFaults /\ Trouble
  /\ faults' = faults + 1
  /\ Goto(p, "idle", Idle)
  /\ UNCHANGED <<signals, seen, store, tabs, turn, manual, edits>>
-----------------------------------------------------------------------------
(* score-candidates.                                                       *)

\* Mutation of Rescored: the status is not carried over.
RescoredNew(e) ==
  [status |-> "new", queue |-> [signals |-> signals[e], model |-> Model]]

\* The card row of an entity: its status is the one read at the start.
Rescored(e) ==
  [status |-> IF e \in Cards THEN card[e].status ELSE "new",
   queue  |-> [signals |-> signals[e], model |-> Model]]

ToOfferNew == {e \in Entities : signals[e] = 1 /\ e \notin Cards}

\* The cards that get a row on the sheet: those not yet in the store.
ToOffer == {e \in Entities : signals[e] > 0 /\ e \notin Cards}

ReadForScoring(p) ==
  /\ Begin(p, "score-candidates")
  /\ LET scored == {e \in Entities : signals[e] > 0}
     IN  Goto(p, "store scores",
              [Idle EXCEPT !.rows = [e \in scored |-> Rescored(e)], !.publish = ToOffer])
  /\ UNCHANGED <<signals, seen, store, tabs, edits, faults>>

StoreScores(p) ==
  /\ Continue(p, "store scores", "store cards")
  /\ score' = Upserted([e \in DOMAIN mem[p].rows |-> mem[p].rows[e].queue.signals], score)
  /\ UNCHANGED <<signals, seen, card, reviews, coef, events, tabs>>

StoreCards(p) ==
  /\ Continue(p, "store cards", IF mem[p].publish = {} THEN "idle" ELSE "publish cards")
  /\ card' = Upserted(mem[p].rows, card)
  /\ UNCHANGED <<signals, seen, score, reviews, coef, events, tabs>>

\* publish_cards appends.
PublishCards(p) ==
  /\ Continue(p, "publish cards", "idle")
  /\ LET new == SetToSeq(mem[p].publish)
     IN  sheet' = sheet \o [k \in DOMAIN new |-> Fresh(new[k])]
  /\ UNCHANGED <<signals, seen, store, listed>>
-----------------------------------------------------------------------------
(* sync-review-sheet.                                                      *)

ReadCards(p) ==
  /\ Begin(p, "sync-review-sheet")
  /\ Goto(p, "read sheet", [Idle EXCEPT !.known = Cards])
  /\ UNCHANGED <<signals, seen, store, tabs, edits, faults>>

\* The valid rows, at their places; the others are only counted.
ValidRows(known) ==
  [k \in {k \in DOMAIN sheet : Valid(sheet[k], known)} |-> sheet[k]]

ReadSheet(p) ==
  /\ pc[p] = "read sheet"
  /\ LET valid == ValidRows(mem[p].known)
     IN  IF DOMAIN valid = {} THEN Goto(p, "idle", Idle)
         ELSE Goto(p, "store reviews", [mem[p] EXCEPT !.rows = valid])
  /\ UNCHANGED <<signals, seen, store, tabs, turn, manual, edits, faults>>

StoreReviews(p) ==
  /\ Continue(p, "store reviews", "store statuses")
  /\ reviews' = reviews \union {mem[p].rows[k] : k \in DOMAIN mem[p].rows}
  /\ UNCHANGED <<signals, seen, score, card, coef, events, tabs>>

\* apply_review_to_card for each row in turn, so that the last one about a card
\* counts; the cards read for a sync have no queue_type, so that the default one
\* is stored.
LastOn(e, rows) ==
  CHOOSE k \in DOMAIN rows :
    rows[k].card = e /\ \A j \in DOMAIN rows : rows[j].card = e => j <= k

Decided(rows) ==
  [e \in {rows[k].card : k \in DOMAIN rows} |->
    [status |-> Status(rows[LastOn(e, rows)].decision), queue |-> Archive]]

StoreStatuses(p) ==
  /\ Continue(p, "store statuses", "idle")
  /\ card' = Upserted(Decided(mem[p].rows), card)
  /\ UNCHANGED <<signals, seen, score, reviews, coef, events, tabs>>
-----------------------------------------------------------------------------
(* resolve-entities and calibrate-scores.                                  *)

ReadForResolving(p) ==
  /\ Begin(p, "resolve-entities")
  /\ Goto(p, "store events", [Idle EXCEPT !.known = Events(seen),
                                          !.ask = Events(seen) \ events])
  /\ UNCHANGED <<signals, seen, store, tabs, edits, faults>>

StoreEvents(p) ==
  /\ Continue(p, "store events", IF mem[p].ask = {} THEN "idle" ELSE "publish events")
  /\ events' = events \union mem[p].known
  /\ UNCHANGED <<signals, seen, score, card, reviews, coef, tabs>>

PublishEvents(p) ==
  /\ Continue(p, "publish events", "idle")
  /\ listed' = [v \in AllEvents |-> listed[v] + IF v \in mem[p].ask THEN 1 ELSE 0]
  /\ UNCHANGED <<signals, seen, store, sheet>>

\* _load_examples: the reviews of cards with a score, each with that score.
Corpus == {[review |-> r, score |-> score[r.card]] :
             r \in {r \in reviews : r.card \in Cards /\ score[r.card] > 0}}

ReadForCalibrating(p) ==
  /\ Begin(p, "calibrate-scores")
  /\ Goto(p, "store coefficients", [Idle EXCEPT !.corpus = Corpus])
  /\ UNCHANGED <<signals, seen, store, tabs, edits, faults>>

LearntOnce(corpus) == IF coef = {} /\ corpus # {} THEN {corpus} ELSE coef

\* Without examples the default model comes back, if ever another was stored.
Learnt(corpus) == IF corpus = {} /\ coef = {} THEN coef ELSE {corpus}

StoreCoefficients(p) ==
  /\ Continue(p, "store coefficients", "idle")
  /\ coef' = Learnt(mem[p].corpus)
  /\ UNCHANGED <<signals, seen, score, card, reviews, events, tabs>>
-----------------------------------------------------------------------------
(* The world.                                                              *)

\* Ingestion adds a signal and sets last_seen_at.
Ingest(e) ==
  /\ signals[e] < MaxSignals[e]
  /\ signals' = [signals EXCEPT ![e] = @ + 1]
  /\ seen' = Append(SelectSeq(seen, LAMBDA f : f # e), e)
  /\ UNCHANGED <<store, tabs, pc, mem, turn, manual, edits, faults>>

Edit(new) ==
  /\ edits < MaxEdits /\ Trouble /\ edits' = edits + 1
  /\ sheet' = new
  /\ UNCHANGED <<signals, seen, store, listed, pc, mem, turn, manual, faults>>

Decide(k, reviewer, decision) ==
  /\ [sheet[k] EXCEPT !.reviewer = reviewer, !.decision = decision] # sheet[k]
  /\ Edit([sheet EXCEPT ![k].reviewer = reviewer, ![k].decision = decision])
Withdraw(k) == Edit(RemoveAt(sheet, k))
-----------------------------------------------------------------------------
Init ==
  /\ signals = [e \in Entities |-> 0] /\ seen = <<>>
  /\ score = [e \in Entities |-> 0] /\ card = [e \in Entities |-> NoCard]
  /\ reviews = {} /\ coef = {} /\ events = {}
  /\ sheet = <<>> /\ listed = [v \in AllEvents |-> 0]
  /\ pc = [p \in Processes |-> "idle"] /\ mem = [p \in Processes |-> Idle]
  /\ turn = 1 /\ manual = 0 /\ edits = 0 /\ faults = 0

Step(p) ==
  \/ ReadForScoring(p) \/ StoreScores(p) \/ StoreCards(p) \/ PublishCards(p)
  \/ ReadCards(p) \/ ReadSheet(p) \/ StoreReviews(p) \/ StoreStatuses(p)
  \/ ReadForResolving(p) \/ StoreEvents(p) \/ PublishEvents(p)
  \/ ReadForCalibrating(p) \/ StoreCoefficients(p)

Next ==
  \/ \E p \in Processes : Step(p) \/ Die(p)
  \/ \E e \in Entities : Ingest(e)
  \/ \E k \in DOMAIN sheet :
       \/ Withdraw(k)
       \/ \E entry \in Entries : Decide(k, entry[1], entry[2])

Spec == Init /\ [][Next]_vars

\* The agent loop goes on for ever.  (One of its steps is always enabled.)
FairSpec == Spec /\ []<><<Step(Loop)>>_vars
-----------------------------------------------------------------------------
(* Properties.                                                             *)

\* In the store, not on its tab, and nobody is going to put it there.
OnSheet(e)     == \E k \in DOMAIN sheet : sheet[k].card = e
UnseenCard(e)  == e \in Cards /\ ~OnSheet(e) /\ \A p \in Processes : e \notin mem[p].publish
UnseenEvent(v) == v \in events /\ listed[v] = 0 /\ \A p \in Processes : v \notin mem[p].ask

\* A card, or a question about two entities, is hidden from the operators for
\* ever only by a job that dies before it publishes, or by themselves.
HiddenByDeath ==
  [][/\ \A e \in Entities : ~UnseenCard(e) /\ UnseenCard(e)' =>
          faults' > faults \/ edits' > edits
     /\ \A v \in AllEvents : ~UnseenEvent(v) /\ UnseenEvent(v)' => faults' > faults]_vars

\* The status that the sheet asks for: the last valid row's, "" if none is.
Asked(e) ==
  LET valid == SelectSeq(sheet, LAMBDA row : row.card = e /\ Valid(row, Cards))
  IN  IF valid = <<>> THEN "" ELSE Status(valid[Len(valid)].decision)

\* Decisions come through: once operators stop editing, the store agrees with
\* the sheet for good, though scoring writes back statuses it read before.
DecisionsArrive ==
  \A e \in Entities : <>[](Asked(e) # "" => card[e].status = Asked(e))

\* The coefficients end up those of the reviews and the scores in the store.
CoefficientsCatchUp == <>[](Corpus # {} => coef = {Corpus})
=============================================================================
