SPECIFICATION MCSpec
CONSTANTS
  LastMonth = 2
  Keys <- MCKeys
  NoData = NoData
  Idle = Idle
  Unread = Unread
  CachingEnabled = TRUE
  Tags = {food, fun}
  NoTag = NoTag
  Amounts = {1, 2}
  MaxWrites = 2
  MaxFailures = 1
  Ops = {"update", "create", "remove"}
INVARIANT TypeOK
INVARIANT CacheKeyed
INVARIANT MonthShownIfWaited
INVARIANT CacheHonestIfWaited
PROPERTY RemovedStaysRemoved
