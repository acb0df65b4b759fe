SPECIFICATION FairSpec
CONSTANTS
  Plans = {p1}
  Foreign = {f1}
  None = None
  Current = Current
  Incomplete = Incomplete
  Methods = {squash}
  Method = squash
  Modes = {TRUE}
  CloseStale = TRUE
  Draft = FALSE
  MaxFaults = 1
  MaxActs = 0
PROPERTIES DeferredWorkResumes
