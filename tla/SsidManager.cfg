CONSTANTS
  n1 = n1
  n2 = n2
  n3 = n3
  n4 = n4
  pwd = pwd
  NoNet = NoNet
  Net <- FourNetworks
  Max = 3
  Wrap = 4
  Sights <- NoneOrTwo
  MaxCnt = 4
  MaxLoss = 1
SPECIFICATION LiveSpec
INVARIANTS
  LatestSurvives
PROPERTIES
  IsAList
  OldestGivesWay
  EachIsTried
