\* One job and its polling client, two workers, two faults.
CONSTANTS
  Workers = {w1, w2}
  Jobs = {1}
  Interrupted = {}
  Unsupported = {}
  MaxAttempts = 2
  MaxFaults = 2
  None = None
SPECIFICATION ApiSpec
SYMMETRY WorkerSymmetry
INVARIANTS
  ApiTypeOK
  RowsAreConsistent
  ReportFinalizesJob
  OneReportPerJob
  RetryBudget
  HeartbeatTellsTheTruth
  LeasesExclude
  AnswersAreWhole
PROPERTIES
  FencedFailure
  DeadLeaseStaysDead
  ImplementsService
  AnswersNeverGoBack
CHECK_DEADLOCK FALSE
