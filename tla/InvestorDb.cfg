\* Two funds, six days of five cycles, which have room for all; one change of what is listed; one call by
\* hand, one death or one empty search, until the day on which the first descriptions and profiles are
\* stale: an empty search may come first or take the place of what an earlier one found.
SPECIFICATION DbFairSpec
CONSTANTS
  Funds <- MCFunds
  ManagerOf <- MCManager
  Expiry <- MCExpiry
  LaterExpiry = 9
  SyncDays = 2
  StaleDays = 2
  BatchLimit = 1
  LastDay = 6
  ChangesUntil = 3
  CyclesPerDay = 5
  MaxChanges = 1
  MaxManual = 1
  MaxTrouble = 1
PROPERTIES TurnEveryDay TabsCatchUp
CHECK_DEADLOCK FALSE
