SPECIFICATION Spec
CONSTANTS
  Repositories <- MCRepositories
  MaxEdits = 2
INVARIANTS TypeOK Reproduced ApprovedAndLocked
PROPERTIES ReplacesCommitted EndsUnlessHeld
