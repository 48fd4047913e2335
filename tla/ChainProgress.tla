---------------------------- MODULE ChainProgress ----------------------------
(***************************************************************************)
(* What the chain queue promises a reader of its table, with workers,      *)
(* leases, attempts and crashes out of sight: the stages are completed one *)
(* by one in the order of the chain, at most one of them is ever stopped   *)
(* for good (failed or blocked), nothing completes after that, and neither *)
(* is ever undone.                                                         *)
(***************************************************************************)
EXTENDS Integers

CONSTANT NumStages

VARIABLES
  done,     \* the stages whose row is done
  stopped   \* the stages whose row is failed or blocked

Init == done = {} /\ stopped = {}

\* Stage s is where the chain stands.
IsNext(s) ==
  /\ stopped = {}
  /\ s \notin done
  /\ \A r \in 1 .. s - 1 : r \in done

Complete(s) == IsNext(s) /\ done' = done \union {s} /\ UNCHANGED stopped

Stop(s) == IsNext(s) /\ stopped' = {s} /\ UNCHANGED done

Next == \E s \in 1 .. NumStages : Complete(s) \/ Stop(s)

Spec == Init /\ [][Next]_<<done, stopped>>
=============================================================================
