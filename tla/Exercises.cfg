CONSTANTS
  FailureDelay = 0
  StableTime = 0
  MaxDelay = 1
  Enabled = {"A"}
  Exercised = {"A"}
  Day = 3
  Lead = 1
  RunTime = 1
  Configs <- MCSwitchedOff
  Starts = {0, 2}
  Findings = {}
  Fallible = {"A"}
  Commands = {}
  Settles = {"grid", "outage"}
SPECIFICATION FairSpec
INVARIANTS TypeOK ExerciseRunHasOwner SessionEngineIsKept PresenceIsRespected
PROPERTIES ForcedNeedsWarning ExerciseEnds
