SPECIFICATION Spec
CONSTANTS
  None = None
  Unknown = Unknown
  a = a
  b = b
  c = c
  g = g
  h = h
  stable = stable
  pre = pre
  v1 = v1
  v2 = v2
  Deps <- MCDeps
  Groups <- MCGroups
  Channels <- MCChannels
  Targets <- MCTargets
  R = 2
  RuleLists <- MCRuleLists
  Results <- MCResults
INVARIANT FamilyComplete
CHECK_DEADLOCK FALSE
