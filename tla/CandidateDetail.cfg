SPECIFICATION DetailSpec
CONSTANTS
  a = a
  b = b
  Companies = {a, b}
  Norm <- NormOf
  Card <- CardOf
  Profile <- ProfileOf
  Search <- SearchOf
  P1Areas <- Areas
  Rounds <- ThreeRounds
  Kept <- OldTab
  Listed <- FourCards
  Coming <- NextCards
  Placeholders <- Heading
  CrawlJobs <- Jobs
  Managers <- Known
  Account = FALSE
  PageSize = 2
  MaxPages = 3
  MaxCards = 2
  MaxBatch = 1
  MaxJobs = 2
  MaxDeaths = 1
  MaxChanges = 1
  MaxTrouble = 2
INVARIANT RowsFitTheirCompanies
PROPERTIES RoundsGoForward EachIsAsked
CHECK_DEADLOCK FALSE
