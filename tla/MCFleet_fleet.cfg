SPECIFICATION Spec
CONSTANTS
  Names <- MCNames
  Repos <- MCRepos
  Fold <- MCFold
  Requests <- MCRequests
  Scheduled <- MCScheduled
  Plans <- MCPlans
  Leaves <- MCLeaves
  Unsafe <- MCUnsafe
  MaxFaults = 1
  MaxLimits = 1
  MaxChanges = 2
INVARIANTS TypeOK EveryRepositoryReported ExitZeroMeansDone PushedAsReturned
PROPERTIES FleetConverges
