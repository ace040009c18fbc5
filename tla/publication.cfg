CONSTANTS
  n1 = n1
  n2 = n2
  n3 = n3
  Node = {n1, n2, n3}
  Live = {n1, n2}
  Restarting = {n1}
  InfoService = {n1, n2, n3}
  Order <- TwoRounds
  EnteringFallbacksAmounts <- OnePerBlock
  PricePublishBlocks = 1
  TriggerValidPublicationBlocks = 1
  ValidPricePeriod = 3
  PriceDeltaPct = 1
  PriceRejectPct = 1
  ExchangePrices = {100, 102}
  InitPrice = 100
  Overtaking = TRUE
  TxMayFail = TRUE
  FallbacksDisabled = {n2}
  LastTick = 3
  MaxBlock = 4
  MaxMempool = 1
SPECIFICATION Spec
INVARIANT TypeOK
INVARIANT NoEarlyFallback
INVARIANT OnlyChosenWhenDisabled
CHECK_DEADLOCK FALSE
