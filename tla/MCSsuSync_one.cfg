\* One job on one set of credentials, in full detail, under fair workers.
SPECIFICATION RunningSpec
CONSTANTS
  Creds = {c1}
  Jobs = {j1}
  Answers = {a1, a2}
  Statements = {s1}
  Outcomes <- SyncOutcomes
  MaxVersion = 4
  Workers = 1
INVARIANTS
  IInv StatementsOnce SuccessMeansDelivered PendingExplained
  QuestionsAnsweredOnce DaemonReaped
PROPERTIES
  ResumeBringsNews RowKeepsLifecycle WorkersEnd AnswersRelayed
CHECK_DEADLOCK FALSE
