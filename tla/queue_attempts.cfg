\* Is the number of executions of a job bounded by job_max_attempts?
CONSTANTS
  Workers = {w1, w2}
  Jobs = {1}
  Interrupted = {}
  Unsupported = {}
  MaxAttempts = 1
  MaxFaults = 1
  None = None
SPECIFICATION Spec
INVARIANTS
  AttemptsBounded
CHECK_DEADLOCK FALSE
