SPECIFICATION Spec
CONSTANTS
  a = a
  b = b
  acme = acme
  eco = eco
  edu = edu
  Writers = {"loop", "hand"}
  ACs = {a, b}
  Theses = {eco, edu}
  Startups = {acme}
  Jobs <- SomeJobs
  TableOrder <- AsInSchema
  PathOrder <- Sorted
  MaxJobs = 2
  MaxDeaths = 1
  MaxExports = 1
  MaxBusy = 2
INVARIANTS PagesAgree BackupsHold
CHECK_DEADLOCK FALSE
