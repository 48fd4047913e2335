\* Three candidates, one of which Gmail rejects, two attempts per run, one draft per day, a fault.
SPECIFICATION FairSpec
CONSTANTS
  x1 = x1
  x2 = x2
  a = a
  b = b
  c = c
  Contacts <- ThreeContacts
  Rejected <- OneRejected
  Executions <- TwoExecutions
  MaxItems = 2
  MaxPerDay = 1
  MaxFaults = 1
INVARIANTS DuplicatesHaveACause DailyLimit
PROPERTY EveryoneDrafted
