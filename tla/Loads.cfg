CONSTANTS
  Stabilization = 1
  ConfirmTime = 1
  NominalTime = 1
  MaximumTime = 1
  RetryInterval = 3
  StaleTime = 3
  Houses = {"grid", "prepare", "unknown", "A"}
  Handled = {"g2"}
  Losable = {"g1"}
  Shown = {1, 4}
  Freezes = TRUE
  Pauses = TRUE
  EnabledNext = {TRUE, FALSE}
SPECIFICATION FairSpec
INVARIANTS TypeOK
PROPERTIES RestoreOnlyOwn ShedIsRemembered NoHastyRestore AdmissionIsMeasured PretransferEnds GridGivesBack FirstOverloadIsAnswered RetryIsServed
