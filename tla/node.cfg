CONSTANTS
  Pairs = 2
  Broken = {2}
  MaxFailures = 2
  StateLoop = state_loop
  Publisher = {publisher}
  GasPrices = {1, 10, 40}
  Limits = {0, 12}
  DefaultGasPrice = 20
  Admitted = 10
  HardMin = 5
  HardMax = 35
  Multiplier = 1
  NoPrice = NoPrice
  Ip = {a, b, c}
  Interval = 2
  Selection = {o1, o2, o3}
  Stakes = {0, 1, 2}
  Byte = 3
  Priority <- Priorities
  HasDefault = {3, 4}
  Text = {2, 3}
  RegistryValue = {written}
  Given = Given
  Empty = Empty
  Missing = Missing
  Default = Default
  Unset = Unset
  Nothing = Nothing
  Absent = Absent
  Manager = 1
SPECIFICATION Spec
INVARIANT TypeOK
INVARIANT WithinHardLimits
INVARIANT GraceIsKept
INVARIANT StrangersAreRefused
INVARIANT EveryoneOnce
INVARIANT StakelessIsNotChosen
INVARIANT HigherPriorityWins
INVARIANT LoopsRunOnce
PROPERTY FailuresStopNothing
PROPERTY SpikesAreTamed
PROPERTY PairsRun
PROPERTY UnsubscribedPairsStop
PROPERTY GasPriceFollows
PROPERTY RegistryIsFollowed
CHECK_DEADLOCK FALSE
