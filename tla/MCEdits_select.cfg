SPECIFICATION EditSpec
CONSTANTS
  None = None
  Unknown = Unknown
  a = a
  b = b
  c = c
  g = g
  h = h
  stable = stable
  pre = pre
  v1 = v1
  v2 = v2
  Deps <- MCDeps
  Groups <- MCGroups
  Channels <- MCChannels
  Targets <- MCTargets
  R = 2
  RuleLists <- MCRuleLists
  Results <- MCResults
  Tokens <- MCTokens
  Layouts <- MCLayouts
INVARIANTS FamilyWhole OfferedWithinPolicy FailuresStayVisible EditsExact
CHECK_DEADLOCK FALSE
