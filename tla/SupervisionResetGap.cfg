CONSTANTS
  FailureDelay = 1
  StableTime = 2
  Enabled = {"A", "B"}
  Observations <- MCLatchedObservations
  IntentSet <- MCNoIntents
  Commands <- MCEveryCommand
SPECIFICATION Spec
PROPERTY ReturnNeedsContinuousGrid
