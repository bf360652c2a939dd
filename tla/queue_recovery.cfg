\* A legacy row with a report, a row of an unsupported type and a transcript.
CONSTANTS
  Workers = {w1, w2}
  Jobs = {1, 2, 3}
  Interrupted = {1}
  Unsupported = {2}
  MaxAttempts = 1
  MaxFaults = 1
  None = None
SPECIFICATION Spec
SYMMETRY WorkerSymmetry
INVARIANTS
  ReportFinalizesJob
  RetryBudget
  NeverRegenerated
PROPERTIES
  ImplementsService
CHECK_DEADLOCK FALSE
