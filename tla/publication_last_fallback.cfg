CONSTANTS
  n1 = n1
  n2 = n2
  n3 = n3
  Node = {n1, n2, n3}
  Live = {n1, n2}
  Restarting = {n1}
  InfoService = {n1, n2, n3}
  Order <- TwoRounds
  EnteringFallbacksAmounts <- OneFallback
  PricePublishBlocks = 1
  TriggerValidPublicationBlocks = 1
  ValidPricePeriod = 3
  PriceDeltaPct = 1
  PriceRejectPct = 1
  ExchangePrices = {100, 102}
  InitPrice = 100
  Overtaking = TRUE
  TxMayFail = FALSE
  FallbacksDisabled = {n2}
  LastTick = 4
  MaxBlock = 5
  MaxMempool = 1
SPECIFICATION Spec
INVARIANT AllEntitledInTheEnd
CHECK_DEADLOCK FALSE
