\* Three workers, jobs that return within their lease, two crashes.
SPECIFICATION FirstCallSpec
CONSTANTS
  w1 = w1
  w2 = w2
  w3 = w3
  Workers <- Trio
  Nobody = Nobody
  NumStages = 3
  MaxAttempts <- MixedAttempts
  Stale = 2
  MaxTasks = 2
  MaxCrashes = 2
INVARIANTS PredecessorSucceeded AttemptBudget OneAtATime
PROPERTIES ChainSpec ChainEnds
