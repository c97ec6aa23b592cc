CONSTANTS
  s1 = s1
  s2 = s2
  p1 = p1
  NoSsid = NoSsid
  NoPwd = NoPwd
  Ssid = {s1, s2}
  Pwd = {p1}
  Router <- MCRouter
  MaxIssue = 2
SPECIFICATION LiveSpec
INVARIANTS
  ProvisionCommitted
  OneAwsTask
  StatusPageConsistent
PROPERTIES
  ProvisioningIsFinal
  AwsComesUp
