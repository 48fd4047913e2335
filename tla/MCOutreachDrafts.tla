-------------------------- MODULE MCOutreachDrafts --------------------------
(* Instances of OutreachDrafts for TLC. *)
EXTENDS OutreachDrafts

CONSTANTS x1, x2, a, b, c

TwoExecutions == {x1, x2}
ThreeContacts == {a, b, c}
OneRejected == {c}
=============================================================================
