CONSTANTS
  Priority <- Priorities
  HasDefault = {3, 4}
  Text = {2, 3}
  RegistryValue = {written}
  Given = Given
  Empty = Empty
  Missing = Missing
  Default = Default
  Unset = Unset
  Nothing = Nothing
  Absent = Absent
  Manager = 1
SPECIFICATION MainSpec
INVARIANT EnvironmentWins
CHECK_DEADLOCK FALSE
