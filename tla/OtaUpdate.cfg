CONSTANTS
  NJobs = 2
  MaxInbox = 2
  Rollback = TRUE
SPECIFICATION LiveSpec
INVARIANTS
  StatusMeansInstalled
  AlwaysBootable
PROPERTIES
  UpdateNotReplaced
  UpdateIsTried
