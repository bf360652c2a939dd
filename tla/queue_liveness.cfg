\* A legacy row and a transcript job, under fair scheduling.
CONSTANTS
  Workers = {w1, w2}
  Jobs = {1, 2}
  Interrupted = {1}
  Unsupported = {}
  MaxAttempts = 2
  MaxFaults = 1
  None = None
SPECIFICATION FairSpec
PROPERTIES
  EveryJobSettles
  ReportedJobsAreRepaired
CHECK_DEADLOCK FALSE
