\* Two jobs requested for the same credentials.
SPECIFICATION Spec
CONSTANTS
  Creds = {c1}
  Jobs = {j1, j2}
  Answers = {a1}
  Statements = {}
  Outcomes <- SyncSucceeds
  MaxVersion = 2
  Workers = 2
INVARIANTS
  NoSecondPendingJob
CHECK_DEADLOCK FALSE
