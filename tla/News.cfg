\* Two articles, two targets, two faults, an edit in each tab.
SPECIFICATION FairSpec
CONSTANTS
  a1 = a1
  a2 = a2
  x = x
  y = y
  Tabs <- BothTabs
  Watch <- WatchApart
  DefaultTab = "Portfolio News"
  RecentOnly = {"Accelerator News"}
  AllPages = 2
  OnePage = 1
  MaxFaults = 2
  MaxEdits = 1
INVARIANT AnnouncedOnce
PROPERTIES LostByDeathOrRace NewsSettles
