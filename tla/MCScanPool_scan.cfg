SPECIFICATION FairSpec
CONSTANTS
  None = None
  Pending = Pending
  Skipped = Skipped
  Failed = Failed
  k1 = k1
  k2 = k2
  v1 = v1
  N = 4
  Concurrency = 3
  Keys <- MCKeys
  Inventories <- MCInventories
  Resolutions <- MCResolutions
  Limits <- MCLimits
INVARIANTS TypeOK WaitersHaveResolver
PROPERTIES ScanReturns ActsSequentially
