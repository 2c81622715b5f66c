SPECIFICATION FairSpec
CONSTANTS
  Keys = {credentials}
  NoData = NoData
  Idle = Idle
  Unread = Unread
  CachingEnabled = FALSE
  Creds = {bank, card}
  MaxActs = 3
  MaxFailures = 1
INVARIANT OnePoller
PROPERTY ShownEnds
PROPERTY PollingEnds
CHECK_DEADLOCK FALSE
