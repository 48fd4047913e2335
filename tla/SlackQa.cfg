\* Two messages of users, a history read of two, two threads, a death.
SPECIFICATION FairSpec
CONSTANTS
  Modes = {"poll", "socket"}
  Limit = 2
  NoticeIsQa = {TRUE, FALSE}
  Threads = {1, 2}
  MaxDeliveries = 2
  MaxUser = 2
  MaxMessages = 4
  MaxEdits = 1
  MaxDeaths = 1
INVARIANTS RepliesHaveACause FileHasTheKeys
PROPERTY AnsweredInTheEnd
\* A process that finds a truncated state file does not start any more.
CHECK_DEADLOCK FALSE
