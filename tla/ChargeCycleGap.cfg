CONSTANTS
  FailureDelay = 1
  StableTime = 1
  MaxDelay = 1
  Enabled = {"A"}
  Exercised = {}
  Day = 4
  Lead = 1
  RunTime = 1
  Configs <- MCCycleOnly
  Starts = {0}
  Findings = {}
  Fallible = {}
  Commands = {}
  Settles = {"grid"}
SPECIFICATION FairSpec
PROPERTIES HouseReturnsToGrid
