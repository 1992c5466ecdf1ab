------------------------------ MODULE StrategiesMC ------------------------------
(* TLC instances of Strategies: the configurations of the UPS run and the start *)
(* times of the exercise that the runs choose from.                             *)
EXTENDS Strategies

MCConfig(delayed, cycle, valid) ==
  [delayed |-> delayed, cycle |-> cycle, valid |-> valid]

\* Only the cycle, and only Delayed Start.
MCConfigs ==
  {MCConfig(FALSE, TRUE, TRUE), MCConfig(TRUE, FALSE, TRUE)}

MCCycleOnly == {MCConfig(FALSE, TRUE, TRUE)}
MCSwitchedOff == {MCConfig(FALSE, FALSE, TRUE)}
===============================================================================
