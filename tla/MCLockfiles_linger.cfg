SPECIFICATION Spec
CONSTANTS
  Repositories <- MCRepositories
  MaxEdits = 0
PROPERTIES RunsEnd
