CONSTANTS
  FailureDelay = 1
  StableTime = 1
  MaxDelay = 1
  Enabled = {"A"}
  Exercised = {}
  Day = 4
  Lead = 1
  RunTime = 1
  Configs <- MCConfigs
  Starts = {0}
  Findings = {"grid unknown", "disabled"}
  Fallible = {}
  Commands = {"start_generator", "stop_generator"}
  Settles = {"grid", "outage"}
SPECIFICATION FairSpec
INVARIANTS CycleNeverOwnsManual
PROPERTIES WaitFollowsCycle OwedReturnEnds OutageIsAnswered
