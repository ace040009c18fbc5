CONSTANTS
  Weight <- Weights
  MinVolume <- Evaluated
  Shown <- Prices
  Volumeless = {1, 3}
  Skew <- Skews
  ReceiveMaxAge = 1
  PublishMaxDiff = 2
  ValidateMaxDiff = 2
  QueueLen = 3
  NaN = NaN
  Failures = {0, 1, 3}
  MaxTime = 4
  NoBlock = NoBlock
  MulticallMayFail = TRUE
  GetBlockMayFail = TRUE
  MaxBlock = 3
  MaxOrders = 2
SPECIFICATION Spec
INVARIANT FeedTypeOK
INVARIANT SignalTypeOK
INVARIANT NearestAndMostRecent
INVARIANT MedianSplitsTheWeight
INVARIANT StalledExchangeIsSilent
INVARIANT RecentPastIsKept
INVARIANT ChangeToUnneedIsRecorded
PROPERTY NeedReachesTurn
PROPERTY UnneedReachesTurn
CHECK_DEADLOCK FALSE
