SPECIFICATION FairSpec
CONSTANTS
  None = None
  Facts <- MCFacts
  Static <- MCStatic
  WatchedLive <- MCWatchedLive
  Values = {"v0", "v1"}
  Providers = {"live", "fixture"}
  Capacity = 2
  MaxChanges = 2
INVARIANTS TypeOK AnswersAreComplete NoChangeIsLost
PROPERTIES EpochCountsChanges CacheCatchesUp
