----------------------------- MODULE PowerTransfer -----------------------------
(***************************************************************************)
(* The transfer of the house between the grid and the generator bus: the   *)
(* controller, the part of the application tick that calls it (main.py),   *)
(* the adapter that executes its commands behind an interlock of its own   *)
(* (ha_adapter.py), the recovery reset as far as it drives the controller  *)
(* (energy_supervisor.py), and the readings of Home Assistant.             *)
(*                                                                         *)
(* A tick plans from one snapshot and then awaits the adapter: between the *)
(* two the readings may change, the connection may break and the program   *)
(* may die, so planning and executing are separate actions here.  What the *)
(* other components want (the desired source, generator readiness, the     *)
(* permission to act, generators still to be stopped) is any input.        *)
(***************************************************************************)
EXTENDS PowerTransferController

CONSTANTS
  LosableReadings   \* the Boolean readings that may become unknown

Switches == {"gridReady", "houseOnGrid", "houseOnGenerator", "gridConnected",
             "generatorSelected", "emergencyStop"}

ASSUME LosableAssumption == LosableReadings \subseteq Switches

VARIABLES
  t,          \* the controller
  o,          \* the readings now
  pending,    \* the command handed to the adapter and not yet executed
  requested,  \* the user asked for a recovery reset
  reset       \* an accepted recovery reset is in progress

vars == <<t, o, pending, requested, reset>>

Readings(field) == IF field \in LosableReadings THEN Tri ELSE {"yes", "no"}

Init ==
  /\ t = NewController
  /\ o \in [gridReady : {"yes"}, houseOnGrid : {"yes", "no"},
            houseOnGenerator : {"yes", "no"}, gridConnected : {"yes"},
            generatorSelected : {"yes", "no"}, emergencyStop : {"no"},
            gridInput : {"normal"}]
  /\ pending = Nothing
  /\ requested = FALSE
  /\ reset = FALSE

-------------------------------------------------------------------------------
(***************************************************************************)
(* The environment.                                                        *)
(***************************************************************************)

\* Any sensor, or a switch thrown by the user in Home Assistant.
ReadingChanges ==
  /\ \/ \E field \in Switches : \E v \in Readings(field) \ {o[field]} :
          o' = [o EXCEPT ![field] = v]
     \/ \E v \in {"normal", "lost"} \ {o.gridInput} :
          o' = [o EXCEPT !.gridInput = v]
  /\ UNCHANGED <<t, pending, requested, reset>>

RequestRecoveryReset ==
  /\ ~requested
  /\ requested' = TRUE
  /\ UNCHANGED <<t, o, pending, reset>>

\* The wall clock runs on while the program waits.
TimePasses ==
  /\ t' = Elapse(t)
  /\ UNCHANGED <<o, pending, requested, reset>>

-------------------------------------------------------------------------------
(***************************************************************************)
(* One control tick.  Every tick observes first.                           *)
(***************************************************************************)

Observed == Observe(Elapse(t), o)

\* _grid_path_confirmed
GridPathConfirmed(u) ==
  /\ u.path = "grid" /\ ~InTransition(u)
  /\ o.generatorSelected = "no" /\ o.houseOnGenerator = "no"

\* No reset to work on: plan towards the desired source.  A tick without the
\* permission to act plans as for no desired source, no_power as ups_only.
NormalTick ==
  /\ pending = Nothing
  /\ ~reset /\ ~requested
  /\ \E desired \in {"grid", "generator", "ups_only", Nothing},
        generatorReady \in BOOLEAN :
       LET u == Observed
           command == Planned(u, o, desired, generatorReady, TRUE)
       IN /\ t' = AfterPlan(u, o, command)
          /\ pending' = command
  /\ UNCHANGED <<o, requested, reset>>

\* The tick that finds the request rejects it, or accepts it and begins; a
\* reset may be wanted for a reason outside the controller.
ResetRequestTick ==
  /\ pending = Nothing
  /\ ~reset /\ requested
  /\ requested' = FALSE
  /\ \/ /\ t' = Observed
        /\ reset' = FALSE
     \/ /\ ~RecoveryBlocked(o)
        /\ ~GridPathConfirmed(Observed)
        /\ t' = BeginRecovery(Observed)
        /\ reset' = TRUE
     \/ /\ ~RecoveryBlocked(o)
        /\ GridPathConfirmed(Observed)
        /\ \/ t' = Observed /\ reset' = TRUE
           \/ t' = RequestReset(Observed, o) /\ reset' = FALSE
  /\ UNCHANGED <<o, pending>>

\* The reset is in progress and something blocks it.
ResetBlockedTick ==
  /\ pending = Nothing
  /\ reset
  /\ reset' = FALSE
  /\ requested' = FALSE
  /\ t' = Observed
  /\ UNCHANGED <<o, pending>>

\* DRIVE_GRID_RECOVERY
ResetDriveTick ==
  /\ pending = Nothing
  /\ reset
  /\ ~RecoveryBlocked(o)
  /\ ~GridPathConfirmed(Observed)
  /\ LET outcome == StepRecovery(Observed, o)
     IN /\ t' = outcome.t
        /\ pending' = outcome.command
        /\ reset' = ~outcome.failed
  /\ requested' = FALSE
  /\ UNCHANGED o

\* The grid path is confirmed: owned generators are being stopped, or the
\* reset completes (COMPLETE), or it fails on the last look.
ResetFinishTick ==
  /\ pending = Nothing
  /\ reset
  /\ ~RecoveryBlocked(o)
  /\ GridPathConfirmed(Observed)
  /\ \/ t' = Observed /\ reset' \in BOOLEAN
     \/ t' = RequestReset(Observed, o) /\ reset' = FALSE
  /\ requested' = FALSE
  /\ UNCHANGED <<o, pending>>

Tick ==
  \/ NormalTick
  \/ ResetRequestTick
  \/ ResetBlockedTick
  \/ ResetDriveTick
  \/ ResetFinishTick

-------------------------------------------------------------------------------
(***************************************************************************)
(* The adapter and the connection.                                         *)
(***************************************************************************)

\* _assert_transfer_action_safe, on the readings of the moment
InterlockAllows(command) ==
  CASE command = "select_generator" ->
         o.gridConnected = "no" /\ o.houseOnGrid = "no"
    [] command = "connect_grid" ->
         o.generatorSelected = "no" /\ o.houseOnGenerator = "no"
    [] OTHER -> TRUE

\* _transfer_service: the switch the command throws
Throw(command) ==
  CASE command = "connect_grid" -> [o EXCEPT !.gridConnected = "yes"]
    [] command = "disconnect_grid" -> [o EXCEPT !.gridConnected = "no"]
    [] command = "select_generator" -> [o EXCEPT !.generatorSelected = "yes"]
    [] command = "deselect_generator" -> [o EXCEPT !.generatorSelected = "no"]

\* The call returns; the switch may still fail to move.
Execute ==
  /\ pending # Nothing
  /\ InterlockAllows(pending)
  /\ o' \in {o, Throw(pending)}
  /\ pending' = Nothing
  /\ UNCHANGED <<t, requested, reset>>

\* UnsafeHardwareCommand ends the connection like any other exception.
Refuse ==
  /\ pending # Nothing
  /\ ~InterlockAllows(pending)
  /\ pending' = Nothing
  /\ t' = MarkInterrupted(t)
  /\ UNCHANGED <<o, requested, reset>>

\* The connection breaks, with or without the command having gone out.
Disconnect ==
  /\ t' = MarkInterrupted(t)
  /\ pending' = Nothing
  /\ o' \in IF pending # Nothing /\ InterlockAllows(pending)
            THEN {o, Throw(pending)} ELSE {o}
  /\ UNCHANGED <<requested, reset>>

\* The controller is not persisted: a restart begins anew.
Restart ==
  /\ t' = NewController
  /\ pending' = Nothing
  /\ requested' = FALSE
  /\ reset' = FALSE
  /\ UNCHANGED o

Next ==
  \/ ReadingChanges
  \/ RequestRecoveryReset
  \/ TimePasses
  \/ Tick
  \/ Execute
  \/ Refuse
  \/ Disconnect
  \/ Restart

Spec == Init /\ [][Next]_vars

\* The run loop ticks once a second, and every awaited call returns, fails or
\* times out.
FairSpec == Spec /\ WF_vars(Tick) /\ WF_vars(Execute \/ Refuse)

-------------------------------------------------------------------------------
(***************************************************************************)
(* Properties.                                                             *)
(***************************************************************************)

TypeOK ==
  /\ t \in Controller
  /\ o \in Observation
  /\ pending \in TransferCommand \cup {Nothing}
  /\ requested \in BOOLEAN
  /\ reset \in BOOLEAN

\* The phase and the path tell the same story: a stable phase names the path
\* the controller believes the house is on (_set_stable, _observe_only).
PhaseMatchesPath ==
  t.phase \in StablePhases =>
    /\ t.path \in DOMAIN StablePhaseOf
    /\ t.phase = StablePhaseOf[t.path]

\* A reset drives the contactors without having to observe a clear topology
\* first (step_recovery_to_grid_path).  It never does so believing a house to
\* be isolated that it last saw isolated: during a reset that path is only
\* remembered while the grid is being connected.
NoStaleIsolation ==
  reset /\ t.path = "isolated" => t.phase = "connecting_grid"

\* A step that is under way has its own deadline or a running clock of lost
\* feedback (_settle_transition clears the one where observe starts the other).
\* Whether the clock is looked at again is the question of CommandedStepEnds.
StepIsTimed ==
  InTransition(t) => t.deadline # NoTimer \/ t.lostFor # NoTimer

\* The fields of the controller have their types and tell one story, whatever
\* readings, timeouts, resets and interruptions there were (power_transfer.py).
ControllerConsistent == TypeOK /\ PhaseMatchesPath /\ NoStaleIsolation /\ StepIsTimed

\* Break before make, twice over: the controller never plans a command that
\* the adapter's interlock would refuse on the same readings.  A refusal, which
\* tears the connection down, can only come from readings that changed later.
PlannedIsAllowed ==
  [][pending = Nothing => InterlockAllows(pending')]_vars

\* A second command follows an unconfirmed first one only after its timeout.
OneStepAtATime ==
  [][pending = Nothing /\ pending' # Nothing /\ InTransition(t) =>
       Confirmed(t, o) \/ TimedOut(Elapse(t))]_vars

\* REQ-RECOVERY: once the controller needs recovery nothing but the user's
\* reset, or a restart of the program, takes it out of that phase.
RecoveryIsLatched ==
  [][t.phase = "recovery_required" /\ t.initialized =>
       \/ t'.phase = "recovery_required"
       \/ reset \/ requested
       \/ t' = NewController]_vars

\* A step broken off by a lost connection is never taken up again: no command
\* is planned before the user's reset.
NoCommandInRecovery ==
  [][t.phase = "recovery_required" /\ t.initialized /\ pending = Nothing =>
       pending' = Nothing \/ reset]_vars

\* A stable topology that stops being recognisable does not stay so for ever:
\* the feedback returns, a command goes out, or the controller asks for recovery.
LostTopologyEnds ==
  t.phase \in StablePhases /\ IsAmbiguous(o) /\ RequiredStatesKnown(o)
    ~> \/ t.phase \notin StablePhases
       \/ ~IsAmbiguous(o) \/ ~RequiredStatesKnown(o)

\* A step whose confirmation came with an unclear topology, and went away again:
\* it has no deadline any more, and observe does not reach the clock of lost
\* feedback before the confirmation returns.
Forgotten == t.deadline = NoTimer /\ ~Confirmed(t, o)

\* Every commanded step comes to an end while the readings are known: it is
\* confirmed in a clear topology, or the controller asks for recovery, by the
\* deadline of the step or, if the topology stays unclear, by the clock of lost
\* feedback; unless it gets forgotten.
CommandedStepEnds ==
  \A phase \in Transitions :
    t.phase = phase /\ ~reset
      ~> t.phase # phase \/ reset \/ ~RequiredStatesKnown(o) \/ Forgotten

\* No wait of the controller outside a reset lasts for ever, be it for a contactor
\* or for a recognisable topology, but that for a forgotten step (observe,
\* _settle_transition; StepsTimeOut is what is promised of that one).
WaitsEnd == LostTopologyEnds /\ CommandedStepEnds

\* The transfer seen from far away.  Before its first complete look at the house
\* a controller knows of nothing that a reset would have to end.
Stage ==
  CASE ~t.initialized -> "waiting"
    [] t.initialized /\ t.phase \in StablePhases -> "still"
    [] t.initialized /\ InTransition(t) -> "moving"
    [] OTHER -> "recovery"

Step ==
  IF InTransition(t) THEN CHOOSE c \in TransferCommand : PhaseOf[c] = t.phase
  ELSE Nothing

Promised ==
  INSTANCE Changeover WITH position <- t.path, stage <- Stage, step <- Step,
                           throw <- pending, resetting <- requested \/ reset

\* The transfer is a Changeover: no contactor is closed on a house that is not
\* taken to be isolated, none is thrown before the last throw is answered, and
\* what was given up stays so until a reset (REQ-SAFETY, REQ-RECOVERY).
ImplementsChangeover == Promised!Spec

-------------------------------------------------------------------------------
(***************************************************************************)
(* Statements of the documentation that the code does not keep.            *)
(***************************************************************************)

\* From some point on only the program acts and no reading changes any more:
\* the contactors are stuck, or have settled.
PlantSettles == <>[][(Tick \/ Execute) /\ o' = o]_vars

\* TC-CORE-20, and the comment at power_transfer.py:313: a step that is not
\* confirmed ends in recovery by the common timeout, and does not wait for ever,
\* with its confirmation lost again too.
StepsTimeOut ==
  PlantSettles =>
    \A phase \in Transitions :
      t.phase = phase /\ ~reset
        ~> t.phase # phase \/ reset \/ ~RequiredStatesKnown(o)

\* REQ-RECOVERY-02 and TC-CORE-26: no operation of an accepted recovery reset
\* waits for its confirmation for ever.  Once the plant has settled, the
\* reset fails or reaches the grid path.
RecoveryResetEnds ==
  PlantSettles => (reset ~> ~reset \/ GridPathConfirmed(t))
===============================================================================
