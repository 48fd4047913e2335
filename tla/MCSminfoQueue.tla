---------------------------- MODULE MCSminfoQueue ----------------------------
(* Instances of SminfoQueue for TLC. *)
EXTENDS SminfoQueue, TLC

CONSTANTS e1, e2, c1, matched, not_found

TwoEnrichers == {e1, e2}
OneCrawler == {c1}
Matched == {matched}
Both == {matched, not_found}
=============================================================================
