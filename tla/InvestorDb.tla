------------------------------ MODULE InvestorDb ------------------------------
(***************************************************************************)
(* sync-kvic-funds and research-investors: what KVIC publishes of funds is *)
(* fetched once in a while, funds are described and investors researched   *)
(* in batches, and two tabs are replaced by what the store has then.  The  *)
(* agent loop runs one job after the other; the same jobs are called by    *)
(* hand (an MCP tool, which forces a fetch) beside it.                     *)
(*                                                                         *)
(* The clock counts days, and a day begins when the interval since the     *)
(* last fetch may have passed; seconds are rounded to it.  A fund's        *)
(* identifier includes its expiry, so that an extended fund is another     *)
(* fund.  A description or profile is what a search and the LLM found or   *)
(* did not.  Types and years of funds, amounts and the words of a profile  *)
(* are left out; replacing a tab is a step (see SheetTab).                 *)
(***************************************************************************)
EXTENDS Integers, SequencesExt

CONSTANTS
  Funds,        \* funds, in the order of their names
  ManagerOf,    \* of each fund
  Expiry,       \* days on which funds first expire
  LaterExpiry,  \* the day a fund may be extended to
  SyncDays,     \* kvic_sync_interval_seconds, in days
  StaleDays,    \* of descriptions and profiles
  BatchLimit,   \* of descriptions and profiles
  LastDay,      \* bound: days
  ChangesUntil, \* bound: the last day of changes, empty searches and calls by hand
  CyclesPerDay, \* the least number of cycles that the loop makes in a day
  MaxChanges, MaxManual, \* bounds
  MaxTrouble    \* bound: calls by hand, empty searches and deaths together

ASSUME InvestorDbAssumption ==
  /\ Funds \in Seq(STRING) /\ \A i, j \in DOMAIN Funds : Funds[i] = Funds[j] => i = j
  /\ Expiry \in [ToSet(Funds) -> Nat] /\ ManagerOf \in [ToSet(Funds) -> STRING]
  /\ LaterExpiry \in Nat
  /\ {SyncDays, StaleDays, BatchLimit, LastDay, ChangesUntil, CyclesPerDay} \subseteq Nat \ {0}
  \* Whatever changes is fetched, and whatever was not found is sought, once more.
  /\ ChangesUntil + SyncDays <= LastDay /\ ChangesUntil + StaleDays <= LastDay

VARIABLES
  day, listed,                \* what KVIC lists: of each fund its expiry, 0 if it does not
  funds, managers,            \* kvic_funds and kvic_investor_managers, by their keys
  descriptions, profiles,     \* kvic_fund_descriptions and investor_external_profiles
  success,                    \* kvic_sync_state: latest_success_at, 0 if there is none
  fundTab, investorTab,       \* the rows of Fund DB and Investor DB
  pc, plan,                   \* of each process: its next step, and what it has read
  next,                       \* the loop's next job
  cycles,                     \* of the loop today, up to CyclesPerDay
  bounds                      \* changes, empty searches, calls by hand and deaths so far

store == <<funds, managers, descriptions, profiles, success>>
tabs  == <<fundTab, investorTab>>
world == <<day, listed, cycles>>
dbVars  == <<world, store, tabs, pc, plan, next, bounds>>

Processes == {"loop", "manual"}
Managers  == {ManagerOf[f] : f \in ToSet(Funds)}
Ids       == {<<f, e>> : f \in ToSet(Funds), e \in {Expiry[f] : f \in ToSet(Funds)} \union {LaterExpiry}}
NoPlan == [at |-> 0, fresh |-> FALSE, was |-> 0, got |-> <<>>, found |-> <<>>,
           fundRows |-> {}, investorRows |-> {}]
Trouble == bounds.nothing + bounds.manual + bounds.faults
Count(what) == bounds' = [bounds EXCEPT ![what] = @ + 1]
-----------------------------------------------------------------------------
(* Helpers.                                                                *)

\* upsert_rows: rows replace those of a table that have their keys.
Upserted(table, rows) ==
  [key \in DOMAIN table \union DOMAIN rows |->
     IF key \in DOMAIN rows THEN rows[key] ELSE table[key]]

\* parse_kvic_funds: the rows of what is listed, some active on a day.
Fetched(at) ==
  [id \in {<<f, listed[f]>> : f \in {g \in ToSet(Funds) : listed[g] # 0}} |->
     [active |-> id[2] >= at, at |-> at]]

\* build_kvic_investor_profiles
InvestorProfiles(got) ==
  LET of(m) == {id \in DOMAIN got : ManagerOf[id[1]] = m}
  IN  [m \in {ManagerOf[id[1]] : id \in DOMAIN got} |->
         [total |-> Cardinality(of(m)), active |-> Cardinality({id \in of(m) : got[id].active})]]

\* _fund_sort_key: active ones first, then by expiry and name.
FundBefore(rows, a, b) ==
  IF rows[a].active # rows[b].active THEN rows[a].active
  ELSE IF a[2] # b[2] THEN a[2] < b[2]
  ELSE \E i, j \in DOMAIN Funds : Funds[i] = a[1] /\ Funds[j] = b[1] /\ i < j

\* _needs_description_refresh, and _needs_refresh of research_investors.
DescriptionIsDue(id, at) ==
  id \in DOMAIN descriptions =>
    at - descriptions[id].at >= (IF descriptions[id].status = "success" THEN StaleDays ELSE 1)
ProfileIsDue(m, at) == m \in DOMAIN profiles => at - profiles[m].at >= StaleDays

\* The first elements of a set in an order, at most BatchLimit.
FirstBatch(S, Before(_, _)) ==
  {x \in S : Cardinality({y \in S : y # x /\ Before(y, x)}) < BatchLimit}

\* Mutation of FundsToDescribe: the batch is cut before it is seen what is due.
FundsToDescribeCut(rows, at) ==
  {id \in FirstBatch(DOMAIN rows, LAMBDA a, b : FundBefore(rows, a, b)) : DescriptionIsDue(id, at)}

FundsToDescribe(rows, at) ==
  FirstBatch({id \in DOMAIN rows : DescriptionIsDue(id, at)}, LAMBDA a, b : FundBefore(rows, a, b))

\* Mutation of InvestorsToResearch: who was researched once is never again.
InvestorsToResearchOnce(at) == DOMAIN managers \ DOMAIN profiles

InvestorsToResearch(at) ==
  FirstBatch({m \in DOMAIN managers : ProfileIsDue(m, at)}, LAMBDA a, b :
    IF managers[a].active # managers[b].active THEN managers[a].active > managers[b].active
    ELSE \E i \in DOMAIN Funds : ManagerOf[Funds[i]] = a
           /\ \A j \in DOMAIN Funds : ManagerOf[Funds[j]] = b => i < j)

\* What searches find for each of a set: nothing in a bounded number of cases.
Searches(S, at) ==
  {s \in [S -> {"success", "nothing"}] :
     /\ Trouble + Quantify(S, LAMBDA x : s[x] = "nothing") <= MaxTrouble
     /\ day > ChangesUntil => \A x \in S : s[x] = "success"}
Empty(found) == Quantify(DOMAIN found, LAMBDA x : found[x] = "nothing")
Dated(found, at) == [x \in DOMAIN found |-> [status |-> found[x], at |-> at]]

Status(table, key) == IF key \in DOMAIN table THEN table[key].status ELSE ""

\* _fund_sheet_rows and investor_sheet_rows
FundRows ==
  {[id |-> id, active |-> funds[id].active, at |-> funds[id].at, status |-> Status(descriptions, id)] :
     id \in DOMAIN funds}
InvestorRows ==
  {[manager |-> m, total |-> managers[m].total, active |-> managers[m].active,
    status |-> Status(profiles, m)] : m \in DOMAIN managers}
-----------------------------------------------------------------------------
(* Steps of both jobs.                                                     *)

Goto(w, step, p) == pc' = [pc EXCEPT ![w] = step] /\ plan' = [plan EXCEPT ![w] = p]

\* A job is over: the loop turns to the next one, and counts its cycles.
Finish(w) ==
  /\ Goto(w, "idle", NoPlan)
  /\ next' = IF w = "manual" THEN next ELSE IF next = "sync" THEN "research" ELSE "sync"
  /\ cycles' = IF w = "loop" /\ next = "research" /\ cycles < CyclesPerDay THEN cycles + 1 ELSE cycles

May(w, job) ==
  /\ pc[w] = "idle"
  /\ IF w = "loop" THEN next = job /\ UNCHANGED bounds
     ELSE day = ChangesUntil /\ bounds.manual < MaxManual /\ Trouble < MaxTrouble /\ Count("manual")

\* _is_fresh; a call by hand has an interval of 0.
IsFresh(w) == success # 0 /\ day - success < (IF w = "loop" THEN SyncDays ELSE 0)

StartSync(w) ==
  /\ May(w, "sync")
  /\ LET p == [NoPlan EXCEPT !.at = day, !.was = success, !.fresh = IsFresh(w)]
     IN  IF p.fresh THEN Goto(w, "describe", [p EXCEPT !.got = funds])
         ELSE Goto(w, "store_funds", [p EXCEPT !.got = Fetched(day)])
  /\ UNCHANGED <<world, store, tabs, next>>

StoreFunds(w) ==
  /\ pc[w] = "store_funds"
  /\ funds' = Upserted(funds, plan[w].got)
  /\ Goto(w, "store_managers", plan[w])
  /\ UNCHANGED <<world, managers, descriptions, profiles, success, tabs, next, bounds>>

StoreManagers(w) ==
  /\ pc[w] = "store_managers"
  /\ managers' = Upserted(managers, InvestorProfiles(plan[w].got))
  /\ Goto(w, "describe", plan[w])
  /\ UNCHANGED <<world, funds, descriptions, profiles, success, tabs, next, bounds>>

\* Descriptions are read, and the funds of a batch searched for one by one.
Describe(w) ==
  /\ pc[w] = "describe"
  /\ \E found \in Searches(FundsToDescribe(plan[w].got, plan[w].at), plan[w].at) :
       /\ Goto(w, "store_descriptions", [plan[w] EXCEPT !.found = found])
       /\ bounds' = [bounds EXCEPT !.nothing = @ + Empty(found)]
  /\ UNCHANGED <<world, store, tabs, next>>

StoreDescriptions(w) ==
  /\ pc[w] = "store_descriptions"
  /\ descriptions' = Upserted(descriptions, Dated(plan[w].found, plan[w].at))
  /\ Goto(w, "read", plan[w])
  /\ UNCHANGED <<world, funds, managers, profiles, success, tabs, next, bounds>>

StartResearch(w) ==
  /\ May(w, "research")
  /\ Goto(w, "search", [NoPlan EXCEPT !.at = day])
  /\ UNCHANGED <<world, store, tabs, next>>

Research(w) ==
  /\ pc[w] = "search"
  /\ \E found \in Searches(InvestorsToResearch(plan[w].at), plan[w].at) :
       /\ Goto(w, "store_profiles", [plan[w] EXCEPT !.found = found])
       /\ bounds' = [bounds EXCEPT !.nothing = @ + Empty(found)]
  /\ UNCHANGED <<world, store, tabs, next>>

StoreProfiles(w) ==
  /\ pc[w] = "store_profiles"
  /\ profiles' = Upserted(profiles, Dated(plan[w].found, plan[w].at))
  /\ Goto(w, "read_investors", plan[w])
  /\ UNCHANGED <<world, funds, managers, descriptions, success, tabs, next, bounds>>

\* _publish_sheets reads the store before it writes any tab.
ReadStore(w) ==
  /\ pc[w] \in {"read", "read_investors"}
  /\ Goto(w, IF pc[w] = "read" THEN "publish_investors" ELSE "publish",
          [plan[w] EXCEPT !.fundRows = IF pc[w] = "read" THEN FundRows ELSE {},
                          !.investorRows = InvestorRows])
  /\ UNCHANGED <<world, store, tabs, next, bounds>>

PublishInvestors(w) ==
  /\ pc[w] \in {"publish_investors", "publish"}
  /\ investorTab' = plan[w].investorRows
  /\ IF pc[w] = "publish" THEN Finish(w)
     ELSE Goto(w, "publish_funds", plan[w]) /\ UNCHANGED <<next, cycles>>
  /\ UNCHANGED <<day, listed, store, fundTab, bounds>>

PublishFunds(w) ==
  /\ pc[w] = "publish_funds"
  /\ fundTab' = plan[w].fundRows
  /\ Goto(w, "persist", plan[w])
  /\ UNCHANGED <<world, store, investorTab, next, bounds>>

PersistState(w) ==
  /\ pc[w] = "persist"
  /\ success' = IF plan[w].fresh THEN plan[w].was ELSE plan[w].at
  /\ Finish(w)
  /\ UNCHANGED <<day, listed, funds, managers, descriptions, profiles, tabs, bounds>>

Die(w) ==
  /\ pc[w] # "idle" /\ Trouble < MaxTrouble /\ Count("faults")
  /\ Finish(w)
  /\ UNCHANGED <<day, listed, store, tabs>>

Step(w) ==
  \/ StartSync(w) \/ StoreFunds(w) \/ StoreManagers(w) \/ Describe(w) \/ StoreDescriptions(w)
  \/ StartResearch(w) \/ Research(w) \/ StoreProfiles(w)
  \/ ReadStore(w) \/ PublishInvestors(w) \/ PublishFunds(w) \/ PersistState(w)
-----------------------------------------------------------------------------
(* The world.                                                              *)

\* The loop makes its cycles; no call by hand goes on into the last day.
Tick ==
  /\ day < LastDay /\ cycles = CyclesPerDay
  /\ day + 1 = LastDay => pc["manual"] = "idle"
  /\ day' = day + 1 /\ cycles' = 0
  /\ UNCHANGED <<listed, store, tabs, pc, plan, next, bounds>>

Relist(f, expiry) ==
  /\ day <= ChangesUntil /\ listed[f] \notin {0, expiry}
  /\ bounds.changes < MaxChanges /\ Count("changes")
  /\ listed' = [listed EXCEPT ![f] = expiry]
  /\ UNCHANGED <<day, cycles, store, tabs, pc, plan, next>>

DbInit ==
  /\ day = 1 /\ listed = Expiry /\ cycles = 0
  /\ funds = <<>> /\ managers = <<>> /\ descriptions = <<>> /\ profiles = <<>>
  /\ success = 0 /\ fundTab = {} /\ investorTab = {} /\ next = "sync"
  /\ pc = [w \in Processes |-> "idle"] /\ plan = [w \in Processes |-> NoPlan]
  /\ bounds = [changes |-> 0, nothing |-> 0, manual |-> 0, faults |-> 0]

DbNext ==
  \/ \E w \in Processes : Step(w) \/ Die(w)
  \/ Tick
  \/ \E f \in ToSet(Funds) : Relist(f, 0) \/ Relist(f, LaterExpiry)

DbSpec == DbInit /\ [][DbNext]_dbVars

\* The loop goes on, and so does time.
DbFairSpec == DbSpec /\ []<><<Step("loop")>>_dbVars /\ WF_dbVars(Tick)
-----------------------------------------------------------------------------
(* Properties.                                                             *)

\* However often searches find nothing, every fund and every investor stored
\* the day before has had its turn when a day is over, if a day's batches can
\* hold them all: what finds nothing is put off and starves nobody.
TurnEveryDay ==
  [][day' > day /\ bounds.faults = 0 /\ bounds.manual = 0 =>
       DOMAIN funds \subseteq DOMAIN descriptions /\ DOMAIN managers \subseteq DOMAIN profiles]_dbVars

\* In the end the tabs show each fund that KVIC lists and its manager, with what
\* a search found; and with the state and the numbers of a fetch that is not
\* older than the interval, unless a call by hand was there, which may store an
\* older fetch over a newer one that is then taken for fresh.
TabsCatchUp ==
  <>[](\A f \in {g \in ToSet(Funds) : listed[g] # 0} :
         /\ \E row \in fundTab :
              /\ row.id = <<f, listed[f]>> /\ row.status = "success"
              /\ row.active = (listed[f] >= row.at)
              /\ bounds.manual = 0 => row.at + SyncDays > day
         /\ \E row \in investorTab :
              /\ row.manager = ManagerOf[f] /\ row.status = "success"
              /\ bounds.manual = 0 => row.total = Quantify(ToSet(Funds), LAMBDA g :
                                        listed[g] # 0 /\ ManagerOf[g] = row.manager))
=============================================================================
