CONSTANTS
  ConfirmTimeout = 2
  LosableReadings = {"houseOnGenerator"}
SPECIFICATION FairSpec
INVARIANT ControllerConsistent
PROPERTIES ImplementsChangeover PlannedIsAllowed OneStepAtATime WaitsEnd
