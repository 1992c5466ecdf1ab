CONSTANTS
  Stabilization = 1
  ConfirmTime = 1
  NominalTime = 2
  MaximumTime = 2
  RetryInterval = 6
  StaleTime = 3
  Houses = {"A"}
  Handled = {}
  Losable = {}
  Shown = {1, 3}
  Freezes = FALSE
  Pauses = FALSE
  EnabledNext = {}
SPECIFICATION FairSpec
PROPERTIES OverloadIsAnswered
