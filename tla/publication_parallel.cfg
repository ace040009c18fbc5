CONSTANTS
  n1 = n1
  n2 = n2
  n3 = n3
  Node = {n1, n2, n3}
  Live = {n1, n2, n3}
  Restarting = {}
  InfoService = {}
  Order <- OneRound
  EnteringFallbacksAmounts <- OnePerBlock
  PricePublishBlocks = 1
  TriggerValidPublicationBlocks = 1
  ValidPricePeriod = 3
  PriceDeltaPct = 1
  PriceRejectPct = 1
  ExchangePrices = {100}
  InitPrice = 100
  Overtaking = FALSE
  TxMayFail = FALSE
  FallbacksDisabled = {}
  LastTick = 4
  MaxBlock = 5
  MaxMempool = 1
SPECIFICATION FairSpec
PROPERTY ExpiringPriceIsRepublished
CHECK_DEADLOCK FALSE
