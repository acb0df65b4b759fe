SPECIFICATION FairSpec
CONSTANTS
  Plans = {p1, p2}
  Foreign = {f1}
  None = None
  Current = Current
  Incomplete = Incomplete
  Methods = {squash, rebase}
  Method = squash
  Modes = {TRUE, FALSE}
  CloseStale = TRUE
  Draft = FALSE
  MaxFaults = 1
  MaxActs = 3
INVARIANTS TypeOK CompletedRunInSync UnfitPullDisarmed PreviewForecasts
PROPERTIES ManualPlanNeverRides ForeignNeedsEvidence RerunChangesNothing Converges
