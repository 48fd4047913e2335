------------------------------ MODULE MCSheetTab ------------------------------
(* Instances of SheetTab for TLC. *)
EXTENDS SheetTab

New(key, gen, collected) ==
  [key |-> key, gen |-> gen, collected |-> collected, own |-> "", cols |-> ""]

\* Two rows of a crawl, then a newer version of one of them alone, of an enrichment.
TwoThenOne == << <<New("k1", "v1", "yes"), New("k2", "v1", "yes")>>, <<New("k2", "v2", "")>> >>

\* A row with a note, and one without that an enrichment appended.
TwoRows == <<[New("k1", "v0", "yes") EXCEPT !.own = "note", !.cols = "old"], New("k2", "v0", "")>>
=============================================================================
