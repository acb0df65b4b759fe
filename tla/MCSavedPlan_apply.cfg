SPECIFICATION PlanSpec
CONSTANTS
  N = 3
  Created <- CreatedFiles
  SyncsDirectory = TRUE
INVARIANTS TypeOK FilesWhole SuccessDurable ReportHonest
PROPERTIES OnlyLateEditsReplaced KeepsPromise ArtifactsKept
