CONSTANTS
  FailureDelay = 1
  StableTime = 1
  Enabled = {"A", "B"}
  Observations <- MCCoreObservations
  IntentSet <- MCNoIntents
  Commands <- MCEveryCommand
SPECIFICATION Spec
INVARIANTS TypeOK OneEngineOrdered EnginesAreNotSeized StopIsRemembered
PROPERTIES SingleFallback ReturnNeedsObservedGrid
