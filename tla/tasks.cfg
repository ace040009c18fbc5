CONSTANTS
  n1 = n1
  n2 = n2
  n3 = n3
  Node = {n1, n2, n3}
  Live = {n2, n3}
  Order <- RotatingOrder
  Tasks = {1}
  Stuck <- NothingStuck
  FallbacksDisabled = {}
  EnteringFallbacksAmounts <- OnePerBlock
  PricePublishBlocks = 1
  TriggerValidPublicationBlocks = 1
  LastAppear = 2
  LastDisturbed = 2
  LastTick = 5
  MaxBlock = 6
  MaxMempool = 1
SPECIFICATION FairSpec
INVARIANT TypeOK
PROPERTY EndorsedAfterWait
PROPERTY TasksAreRun
CHECK_DEADLOCK FALSE
