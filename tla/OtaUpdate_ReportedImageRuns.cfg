CONSTANTS
  NJobs = 1
  MaxInbox = 1
  Rollback = TRUE
SPECIFICATION Spec
INVARIANT ReportedImageRuns
