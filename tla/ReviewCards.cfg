\* Two entities, three signals; two of: a job by hand, two edits, a death.
SPECIFICATION FairSpec
CONSTANTS
  a = a
  b = b
  Entities = {a, b}
  Probability <- Alike
  Entries <- Typed
  Processes = {"loop", "by hand"}
  Loop = "loop"
  LoopJobs <- AllJobs
  ManualJobs = {"score-candidates", "resolve-entities"}
  MaxSignals <- TwoAndOne
  MaxManual = 1
  MaxEdits = 2
  MaxFaults = 1
  MaxTrouble = 2
PROPERTIES HiddenByDeath DecisionsArrive CoefficientsCatchUp
