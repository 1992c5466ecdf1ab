----------------------------- MODULE EnergyDomain -----------------------------
(***************************************************************************)
(* The vocabulary shared by every component of EnergyATS (domain.py): the  *)
(* sources and paths the house can be on, the states of the grid input,    *)
(* and the three-valued readings that Home Assistant delivers.  A reading  *)
(* the code sees as Python None (entity unknown, unavailable or missing)   *)
(* is "unknown" here; True and False are "yes" and "no".                   *)
(***************************************************************************)

Tri == {"yes", "no", "unknown"}

\* The reading of a healthy sensor whose physical value is the Boolean b.
Reads(b) == IF b THEN "yes" ELSE "no"

GeneratorSlot == {"A", "B"}

PowerSource == {"grid", "generator", "ups_only", "no_power", "unknown"}

PowerPath == {"grid", "isolated", "generator", "unknown"}

\* The reading of sensor.grid_input_state, None included.
GridInputState == {"normal", "partial", "lost", "unknown"}
===============================================================================
