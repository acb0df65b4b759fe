SPECIFICATION Spec
CONSTANTS
  Plans = {p1}
  Foreign = {f1}
  None = None
  Current = Current
  Incomplete = Incomplete
  Methods = {squash}
  Method = squash
  Modes = {TRUE}
  CloseStale = FALSE
  Draft = FALSE
  MaxFaults = 0
  MaxActs = 2
INVARIANTS ManualSettingDisarms
