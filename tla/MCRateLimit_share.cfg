SPECIFICATION FairSpec
CONSTANTS
  None = None
  Absent = Absent
  Unreadable = Unreadable
  c1 = c1
  c2 = c2
  Callers <- MCCallers
  MaxRetries = 1
  MaxWait = 1
  BaseDelay = 1
  MaxDelay = 3
  Replies <- MCReplies
  FirstFiles <- MCFirstFiles
  Runs = 2
  Horizon = 2
  AttemptLimit = 3
INVARIANTS TypeOK SentAfterCooldown StaleFileHarmless OwnStateLoads DeferralDurable BackoffRemembered
PROPERTIES CallsReturn
CHECK_DEADLOCK FALSE
