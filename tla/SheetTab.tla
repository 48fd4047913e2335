------------------------------ MODULE SheetTab ------------------------------
(***************************************************************************)
(* A tab of the Google sheet as GoogleSheetReviewQueue writes it: each     *)
(* upsert_cards or replace_rows is several calls to Google, between which  *)
(* other processes write, operators type, sort and delete rows, and the    *)
(* process may die.  The algorithm of an upsert is in SheetUpsert.         *)
(*                                                                         *)
(* A row has a key, a generated cell, the cell that a crawl fills in on    *)
(* the tab Candidate Detail (collected_at, the same column in each order), *)
(* a cell the operators own, and the order of columns that cell was        *)
(* written in, "" for an empty cell: "old", "new", or "wrong" once it was  *)
(* moved although it stood where it should.                                *)
(* Rows of labels, cells known to be bad and the escape of formulas are    *)
(* left out; so are a missing tab and the size of the grid, which a call   *)
(* sees to before anything else.                                           *)
(***************************************************************************)
EXTENDS Integers, SequencesExt

CONSTANTS
  Kinds,      \* tabs by their callers: "single" key, "multi" key, "replace", or
              \* Candidate Detail, whose old header may have "entity_id": see Details
  Contents,   \* what is to be shown: one sequence of rows after another
  Text,       \* what a cell may hold
  Old,        \* the rows of a tab that still has the old order of columns
  Writers,    \* processes
  Loop,       \* the one that runs the agent loop, and calls again and again
  BatchSize,  \* REPLACE_ROWS_BATCH_SIZE
  MaxManual,  \* bound: calls of the other writers
  MaxHandEdits,   \* bound: operators' edits
  MaxFailures   \* bound: calls that fail half-way

\* Candidate Detail, with an old header of today's columns or with the older one.
Details == {"detail", "entity_id"}

\* Tabs that are upserted by several keys.
Several == {"multi"} \union Details

\* An upsert of nothing is no call.  No program writes to the operators' cells.
\* An upsert leaves a tab with one row for a key.
ASSUME TabAssumption ==
  /\ Kinds \subseteq {"single", "multi", "replace"} \union Details /\ Loop \in Writers
  /\ {"", "note"} \subseteq Text
  /\ Contents \in Seq(Seq([key : Text, gen : Text, collected : {"", "yes"}, own : {""}, cols : {""}]))
  /\ Contents # <<>> /\ \A k \in DOMAIN Contents : Contents[k] # <<>> \/ Kinds = {"replace"}
  /\ Old \in Seq([key : Text \ {""}, gen : Text, collected : {"", "yes"},
                  own : Text, cols : {"", "old"}])
  /\ \A k \in DOMAIN Old : Old[k].own = "" <=> Old[k].cols = ""
  /\ \A j, k \in DOMAIN Old : Old[j].key = Old[k].key => j = k
  /\ BatchSize \in Nat \ {0}
  /\ {MaxManual, MaxHandEdits, MaxFailures} \subseteq Nat

Algorithm == INSTANCE SheetUpsert WITH KeyFields <- <<"key">>, Protected <- {}

VARIABLES
  kind,       \* the kind of the tab
  header,     \* the order of columns in row 1: "old" or "new"
  rows,       \* the rows below the header
  now,        \* the index of the content to be shown
  pc,         \* the next step of each writer
  plan,       \* what it has read and is going to write
  disturbed,  \* whether somebody else wrote since it read
  manual, handEdits, failures

bounds == <<manual, handEdits, failures>>
tabVars   == <<kind, header, rows, now, pc, plan, disturbed, bounds>>

Blank == [key |-> "", gen |-> "", collected |-> "", own |-> "", cols |-> ""]
NoPlan == [was |-> "", put |-> <<>>, out |-> <<>>, todo |-> <<>>, count |-> 0, scratch |-> FALSE]
-----------------------------------------------------------------------------
(* Ranges.                                                                 *)

\* values.get leaves out empty rows at the end.
Trim(s) ==
  LET filled == {k \in DOMAIN s : s[k] # Blank}
  IN  SubSeq(s, 1, IF filled = {} THEN 0 ELSE CHOOSE k \in filled : \A j \in filled : j <= k)

\* values.update of the rows from first on.
Write(s, first, new) ==
  LET last == first + Len(new) - 1
  IN  Trim([k \in 1 .. (IF last > Len(s) THEN last ELSE Len(s)) |->
              IF k \in first .. last THEN new[k - first + 1]
              ELSE IF k <= Len(s) THEN s[k] ELSE Blank])

\* values.clear of the rows from first to last.
Clear(s, first, last) == Trim([k \in DOMAIN s |-> IF k \in first .. last THEN Blank ELSE s[k]])

\* Mutation of Remapped: the cells stay where they are.
RemappedNot(s, was) == s

\* _remap_existing_values: the rows read, moved from the old order of columns to
\* the new one.
Remapped(s, was) ==
  IF was = "new" THEN s
  ELSE [k \in DOMAIN s |->
         [s[k] EXCEPT !.cols = CASE @ = "" -> "" [] @ = "old" -> "new" [] OTHER -> "wrong"]]

\* rewrite_from_scratch: the old header has an entity_id, or _has_legacy_candidate_detail_rows
\* finds a company that no crawl has collected.
FromScratch(s, was) ==
  /\ kind \in Details
  /\ \/ kind = "entity_id" /\ was = "old"
     \/ \E k \in DOMAIN s : s[k].key # "" /\ s[k].collected = ""

\* _existing_row_index: the first row of a key, 0 if there is none.
RowNumber(s, key) ==
  LET at == {k \in DOMAIN s : s[k].key = key /\ key # ""}
  IN  IF at = {} THEN 0 ELSE CHOOSE k \in at : \A j \in at : k <= j

\* Those of the rows to put that have a row on the tab.
OnTab(s, put) == {row \in ToSet(put) : RowNumber(s, row.key) # 0}

\* Mutation of Updates: a row is written as it comes, over what operators typed.
UpdatesUnmerged(s, put) ==
  LET known == Algorithm!Only(put, OnTab(s, put))
  IN  [k \in DOMAIN known |-> [at |-> RowNumber(s, known[k].key), row |-> known[k]]]

\* The updates of a single-key upsert, each with its row number.
Updates(s, put) ==
  LET known == Algorithm!Only(put, OnTab(s, put))
  IN  [k \in DOMAIN known |->
        LET n == RowNumber(s, known[k].key)
        IN  [at |-> n, row |-> Algorithm!MergeExisting(s[n], known[k])]]
Appended(s, put) == Algorithm!Only(put, ToSet(put) \ OnTab(s, put))
-----------------------------------------------------------------------------
(* Steps of a call.                                                        *)

Reading == {"header", "read"}

\* Whoever else is between its read and its last write is disturbed.
Touch(w) ==
  disturbed' = [v \in Writers |->
    IF v = w THEN disturbed[v] ELSE disturbed[v] \/ pc[v] \notin Reading \union {"idle"}]

Finish(w) ==
  /\ pc' = [pc EXCEPT ![w] = "idle"] /\ plan' = [plan EXCEPT ![w] = NoPlan]
  /\ disturbed' = [v \in Writers |->
       v # w /\ (disturbed[v] \/ pc[v] \notin Reading \union {"idle"})]
Proceed(w, step, p) ==
  /\ pc' = [pc EXCEPT ![w] = step] /\ plan' = [plan EXCEPT ![w] = p] /\ Touch(w)

\* The call begins; an upsert reads the header.
Begin(w) ==
  /\ pc[w] = "idle"
  /\ IF w = Loop THEN UNCHANGED manual ELSE manual < MaxManual /\ manual' = manual + 1
  /\ pc' = [pc EXCEPT ![w] = IF kind # "replace" /\ header = "old" THEN "header" ELSE "read"]
  /\ plan' = [plan EXCEPT ![w] = [NoPlan EXCEPT !.put = Contents[now],
                !.was = IF kind = "replace" THEN "new" ELSE header]]
  /\ UNCHANGED <<kind, header, rows, now, disturbed, handEdits, failures>>

\* The header is rewritten before the rows are read.
WriteHeader(w) ==
  /\ pc[w] = "header"
  /\ header' = "new"
  /\ Proceed(w, "read", plan[w])
  /\ UNCHANGED <<kind, rows, now, bounds>>

\* All rows are read, and what to write is worked out.
ReadRows(w) ==
  /\ pc[w] = "read"
  /\ LET s == Remapped(rows, plan[w].was)
         scratch == FromScratch(s, plan[w].was)
         p == [plan[w] EXCEPT !.count = Len(rows), !.scratch = scratch]
         put == Algorithm!Dedupe(p.put)
         to == CASE kind = "replace" -> "batch"
                 [] kind \in Several \/ p.was = "old" -> "rewrite"
                 [] OTHER -> IF Updates(s, put) = <<>> THEN "append" ELSE "update"
     IN  /\ pc' = [pc EXCEPT ![w] = to]
         /\ plan' = [plan EXCEPT ![w] =
              CASE to = "batch" -> [p EXCEPT !.out = p.put]
                [] to = "rewrite" -> [p EXCEPT !.out = Algorithm!Upsert(IF scratch THEN <<>> ELSE s, p.put)]
                [] OTHER -> [p EXCEPT !.todo = Updates(s, put), !.out = Appended(s, put)]]
  /\ UNCHANGED <<kind, header, rows, now, disturbed, bounds>>

\* Mutation of ToClear: nothing is cleared.
ToClearNone(w) == Finish(w)

\* The old last rows are cleared by another call, if there are any.
ToClear(w) ==
  IF plan[w].count > Len(plan[w].out) THEN Proceed(w, "clear", plan[w]) ELSE Finish(w)

Rewrite(w) ==
  /\ pc[w] = "rewrite"
  /\ rows' = Write(rows, 1, plan[w].out)
  /\ ToClear(w)
  /\ UNCHANGED <<kind, header, now, bounds>>

ClearTail(w) ==
  /\ pc[w] = "clear"
  /\ rows' = Clear(rows, Len(plan[w].out) + 1, plan[w].count)
  /\ Finish(w)
  /\ UNCHANGED <<kind, header, now, bounds>>

\* The row of one key, at the number it had when read.
Update(w) ==
  /\ pc[w] = "update"
  /\ LET first == Head(plan[w].todo)
         p     == [plan[w] EXCEPT !.todo = Tail(@)]
     IN  /\ rows' = Write(rows, first.at, <<first.row>>)
         /\ IF p.todo # <<>> THEN Proceed(w, "update", p)
            ELSE IF p.out # <<>> THEN Proceed(w, "append", p) ELSE Finish(w)
  /\ UNCHANGED <<kind, header, now, bounds>>

\* _append_rows
AppendRows(w) ==
  /\ pc[w] = "append"
  /\ rows' = rows \o plan[w].out
  /\ Finish(w)
  /\ UNCHANGED <<kind, header, now, bounds>>

\* One batch of replace_rows; todo counts the rows written so far.
Batch(w) ==
  /\ pc[w] = "batch"
  /\ LET p    == plan[w]
         last == Len(p.todo) + BatchSize
         next == SubSeq(p.out, Len(p.todo) + 1, IF last < Len(p.out) THEN last ELSE Len(p.out))
         q    == [p EXCEPT !.todo = @ \o next]
     IN  /\ rows' = Write(rows, Len(p.todo) + 1, next)
         /\ IF Len(q.todo) < Len(p.out) THEN Proceed(w, "batch", q) ELSE ToClear(w)
  /\ UNCHANGED <<kind, header, now, bounds>>

Step(w) ==
  \/ Begin(w) \/ WriteHeader(w) \/ ReadRows(w) \/ Rewrite(w) \/ ClearTail(w)
  \/ Update(w) \/ AppendRows(w) \/ Batch(w)

\* Google answers with an error, or the process dies: the call is over.
Fail(w) ==
  /\ pc[w] # "idle"
  /\ failures < MaxFailures /\ failures' = failures + 1
  /\ Finish(w)
  /\ UNCHANGED <<kind, header, rows, now, manual, handEdits>>
-----------------------------------------------------------------------------
(* The world.                                                              *)

\* There is something new to show.
Refresh ==
  /\ now < Len(Contents) /\ now' = now + 1
  /\ UNCHANGED <<kind, header, rows, pc, plan, disturbed, bounds>>

Edit(new) ==
  /\ handEdits < MaxHandEdits /\ handEdits' = handEdits + 1
  /\ rows' = new
  /\ disturbed' = [w \in Writers |-> disturbed[w] \/ pc[w] \notin Reading \union {"idle"}]
  /\ UNCHANGED <<kind, header, now, pc, plan, manual, failures>>

Type(k) == rows[k].own = "" /\ Edit([rows EXCEPT ![k].own = "note", ![k].cols = header])
Cut(k)  == Edit(RemoveAt(rows, k))
Sort(k) == k > 1 /\ Edit([rows EXCEPT ![k - 1] = rows[k], ![k] = rows[k - 1]])

TabInit ==
  /\ kind \in Kinds
  /\ header \in (IF kind = "replace" THEN {"new"} ELSE {"old", "new"})
  /\ rows = IF header = "old" THEN Old ELSE <<>>
  /\ now = 1
  /\ pc = [w \in Writers |-> "idle"] /\ plan = [w \in Writers |-> NoPlan]
  /\ disturbed = [w \in Writers |-> FALSE]
  /\ manual = 0 /\ handEdits = 0 /\ failures = 0

TabNext ==
  \/ \E w \in Writers : Step(w) \/ Fail(w)
  \/ Refresh
  \/ \E k \in DOMAIN rows : Type(k) \/ Cut(k) \/ Sort(k)

TabSpec == TabInit /\ [][TabNext]_tabVars

\* The agent loop calls for ever.  (One of its steps is always enabled.)
FairTabSpec == TabSpec /\ []<><<Step(Loop)>>_tabVars
-----------------------------------------------------------------------------
(* Properties.                                                             *)

\* The keys on the tab, and those with a note of the operators.
ShownKeys == {row.key : row \in ToSet(rows)} \ {""}
NotedKeys == {row.key : row \in {r \in ToSet(rows) : r.own # ""}}

\* An upsert that nobody disturbs between its read and its last write takes no
\* row and no note off the tab, unless it rewrites Candidate Detail from scratch.  One
\* that is disturbed may, as it writes whole rows, or the whole tab, to places it
\* read before.
KeptUnlessDisturbed ==
  [][~(ShownKeys \subseteq ShownKeys' /\ NotedKeys \subseteq NotedKeys') =>
       \/ kind = "replace" \/ handEdits' > handEdits
       \/ \E w \in Writers : /\ disturbed[w] \/ (kind \in Details /\ plan[w].scratch)
                            /\ <<pc[w], plan[w]>>' # <<pc[w], plan[w]>>]_tabVars

Misplaced(row) == row.own # "" /\ row.cols # header

\* Between the new header and the last write of a call the notes stand in the wrong
\* columns; they stay there for good only if a call dies in between, if another
\* one reads the new header with the old rows, or if it is a note that was typed
\* in between and is moved with the others; on Candidate Detail also if rows are
\* sorted before those that are left over from a rewriting from scratch are cleared.
MisplacedByDeathOrOverlap ==
  failures = 0 /\ manual = 0 /\ pc[Loop] \notin {"read", "rewrite", "clear"} =>
    \A row \in ToSet(rows) : Misplaced(row) =>
      handEdits > 0 /\ (row.cols = "wrong" \/ kind \in Details)

Times(key) == Cardinality({k \in DOMAIN rows : rows[k].key = key})
First(key) == rows[RowNumber(rows, key)]

\* Whatever was lost, cut or left over, the tab comes to show what is to be
\* shown: a replaced tab exactly that, an upserted one its current row for each
\* key, and just once if the upsert goes by several keys.
Converges ==
  <>[](/\ kind = "replace" /\ pc[Loop] = "idle" => rows = Contents[now]
       /\ kind # "replace" => \A new \in ToSet(Contents[now]) :
            /\ new.key \in ShownKeys /\ First(new.key).gen = new.gen
            /\ kind \in Several /\ pc[Loop] = "idle" => Times(new.key) = 1)
=============================================================================
