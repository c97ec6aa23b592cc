CONSTANTS
  Jobs = {"j1", "long"}
  TooLong = {"long"}
  NoJob = "none"
  Absent = "null"
  Requests <- MCRequests
  Sizes <- MCSizes
  Others <- MCOthers
  MaxOthers = 1
SPECIFICATION Spec
INVARIANTS
  TypeOK
  WholeRequests
  WithinBuffer
  RightHandlers
