\* Five signals, three reviews, three records with up to five facts, addresses of all words.
SPECIFICATION JudgeSpec
CONSTANTS
  Areas <- MCAreas
  Ambiguous = {"donggu", "seogu", "namgu", "goseong"}
  Inside <- MCInside
  Signals <- MCSignals
  Profiles <- MCProfiles
  Candidates <- MCCandidates
  MaxEvidence = 4
  Fits <- MCFits
  MaxReviews = 3
  Facts <- MCFacts
  MaxFacts = 5
  Words <- MCWords
INVARIANTS AdvanceNeverArchived MergedByRuleIsNeverNew
PROPERTIES SureSignalNeverLowers SameHashSameModel MoreIsNeverUnmarked
CHECK_DEADLOCK FALSE
