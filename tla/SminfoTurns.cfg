\* Crawls and enrichments take turns; two enrichers overlap within their leases.
SPECIFICATION FairTurnsSpec
CONSTANTS
  e1 = e1
  e2 = e2
  c1 = c1
  matched = "matched"
  not_found = "not_found"
  NumTasks = 2
  Enrichers <- TwoEnrichers
  Crawlers <- OneCrawler
  Answers <- Both
  Matches <- Matched
  MaxAttempts = 2
  MaxItems = 1
  Stale = 2
  Fresh = 1
  RetryBase = 1
  MaxCrawls = 2
  MaxCrashes = 1
INVARIANTS AttemptBudget ProfileFirst
PROPERTIES NotAskedTooSoon Settles
\* Once every company is settled and no crawl finds another the jobs write nothing.
CHECK_DEADLOCK FALSE
