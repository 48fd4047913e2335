-------------------------- MODULE MCAgentWorkQueue --------------------------
(* An instance of AgentWorkQueue for TLC: the regime of its leases, on a    *)
(* database that is new or already seeded.                                  *)
EXTENDS AgentWorkQueue, TLC

CONSTANTS w1, w2, w3

Trio == {w1, w2, w3}
\* The first stage has a single attempt, the others two.
MixedAttempts == [s \in Stages |-> IF s = 1 THEN 1 ELSE 2]

\* The first call on a new database finds no other call about to seed it too:
\* see AgentWorkQueueProofs for what holds when it does.
SeedsAlone == \A v, w \in Workers : pc'[v] = "seed" /\ pc'[w] = "seed" => v = w

FirstCallNext ==
  \/ Punctual /\ Tick
  \/ \E w \in Workers : Step(w) /\ SeedsAlone
  \/ \E w \in Workers : Crash(w)

FirstCallSpec == (Init \/ SeededInit) /\ [][FirstCallNext]_vars /\ Fairness
=============================================================================
