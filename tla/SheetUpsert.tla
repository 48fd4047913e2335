----------------------------- MODULE SheetUpsert -----------------------------
(***************************************************************************)
(* GoogleSheetReviewQueue.upsert_cards for a tab with several key fields:  *)
(* read every row, compact them, merge the incoming ones, write all.       *)
(*                                                                         *)
(* A row is a record of its fields.  Cells that the code clears as known   *)
(* to be bad (addresses and homepages of the sources themselves), headers  *)
(* and the row of labels are left out.  Where Candidate Detail is          *)
(* rewritten from scratch the caller passes no existing rows.              *)
(***************************************************************************)
EXTENDS Integers, SequencesExt

CONSTANTS
  KeyFields,  \* key_fields, a nonempty sequence of fields
  Protected   \* SHEET_OWNED_UPDATE_FIELDS of the tab

IsBlank(v) == v = ""

\* The elements of a sequence that are in a set, in their order.
Only(s, kept) ==
  LET f[n \in 0 .. Len(s)] ==
        IF n = 0 THEN <<>>
        ELSE IF s[n] \in kept THEN Append(f[n - 1], s[n]) ELSE f[n - 1]
  IN  f[Len(s)]

\* _row_keys: one key per key field with a value.
Keys(row) ==
  LET filled == Only(KeyFields, {f \in ToSet(KeyFields) : ~IsBlank(row[f])})
  IN  [k \in DOMAIN filled |-> <<filled[k], row[filled[k]]>>]

\* _merge_generated_rows
MergeGenerated(existing, incoming) ==
  [f \in DOMAIN existing |-> IF IsBlank(incoming[f]) THEN existing[f] ELSE incoming[f]]

\* _merge_existing_row: the sheet keeps its own protected fields.
MergeExisting(existing, incoming) ==
  [f \in DOMAIN existing |->
     IF IsBlank(incoming[f]) \/ (f \in Protected /\ ~IsBlank(existing[f]))
       THEN existing[f] ELSE incoming[f]]

\* _merge_sheet_duplicate: the earlier row wins.
MergeDuplicate(existing, incoming) ==
  [f \in DOMAIN existing |-> IF IsBlank(existing[f]) THEN incoming[f] ELSE existing[f]]

\* Rows so far, and key_to_index.
Nothing == [rows |-> <<>>, index |-> <<>>]

Put(table, k, row, keys) ==
  [rows  |-> IF k > Len(table.rows) THEN Append(table.rows, row)
             ELSE [table.rows EXCEPT ![k] = row],
   index |-> [key \in keys \union DOMAIN table.index |->
              IF key \in keys THEN k ELSE table.index[key]]]

\* _first_existing_key: one key that agrees is enough.
Matches(table, row) == Only(Keys(row), DOMAIN table.index)

\* The body of the two loops of _compact_sheet_rows: first over the rows of the
\* sheet, then over the incoming ones.
Place(table, row, from) ==
  LET found == Matches(table, row)
      k     == IF found = <<>> THEN Len(table.rows) + 1 ELSE table.index[found[1]]
      new   == CASE found = <<>> -> row
                 [] found # <<>> /\ from = "incoming" -> MergeExisting(table.rows[k], row)
                 [] OTHER -> MergeDuplicate(table.rows[k], row)
  IN  Put(table, k, new, ToSet(Keys(new)))

\* Rows placed one after the other.
Placed(table, rows, from) ==
  LET f[n \in 0 .. Len(rows)] ==
        IF n = 0 THEN table ELSE Place(f[n - 1], rows[n], from)
  IN  f[Len(rows)]

\* The body of the loop of _dedupe_rows_by_key, which goes by the first key alone.
Merge(table, row) ==
  LET key == Keys(row)[1]
      k   == table.index[key]
  IN  IF key \in DOMAIN table.index
        THEN Put(table, k, MergeGenerated(table.rows[k], row), {key})
        ELSE Put(table, Len(table.rows) + 1, row, {key})

Dedupe(incoming) ==
  LET keyless == {row \in ToSet(incoming) : Keys(row) = <<>>}
      f[n \in 0 .. Len(incoming)] ==
        CASE n = 0 -> Nothing
          [] n # 0 /\ incoming[n] \in keyless -> f[n - 1]
          [] OTHER -> Merge(f[n - 1], incoming[n])
  IN  f[Len(incoming)].rows \o Only(incoming, keyless)

\* upsert_cards, with _compact_sheet_rows.
Upsert(existing, incoming) ==
  IF incoming = <<>> THEN existing
  ELSE Placed(Placed(Nothing, existing, "sheet"), Dedupe(incoming), "incoming").rows
=============================================================================
