\* Five kinds of tabs, two contents; the loop and one other call, two edits, one death.
SPECIFICATION FairTabSpec
CONSTANTS
  Kinds = {"single", "multi", "detail", "entity_id", "replace"}
  Contents <- TwoThenOne
  Text = {"", "k1", "k2", "v0", "v1", "v2", "note"}
  Old <- TwoRows
  Writers = {"loop", "by hand"}
  Loop = "loop"
  BatchSize = 1
  MaxManual = 1
  MaxHandEdits = 2
  MaxFailures = 1
INVARIANT MisplacedByDeathOrOverlap
PROPERTIES KeptUnlessDisturbed Converges
