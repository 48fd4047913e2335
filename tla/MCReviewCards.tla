---------------------------- MODULE MCReviewCards ----------------------------
(* Instances of ReviewCards for TLC. *)
EXTENDS ReviewCards

CONSTANTS a, b

\* The two are likely enough to be one to ask, more so if b is the later one.
Alike == (a :> (a :> 100 @@ b :> 60)) @@ (b :> (a :> 90 @@ b :> 100))
Typed == {<<"reviewer", "advance">>, <<"reviewer", "reject">>, <<"", "reject">>}
TwoAndOne == a :> 2 @@ b :> 1
AllJobs == <<"resolve-entities", "score-candidates", "sync-review-sheet", "calibrate-scores">>
=============================================================================
