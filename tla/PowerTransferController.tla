------------------------ MODULE PowerTransferController ------------------------
(***************************************************************************)
(* The class PowerTransferController (power_transfer.py) as operators on   *)
(* the record t of its attributes and on one observation o.  The class     *)
(* drives the two main contactors of the house, one command at a time,     *)
(* each confirmed by the control-circuit feedback before the next.         *)
(*                                                                         *)
(* Time is counted in ticks.  deadline is what is left until self.deadline *)
(* and lostFor what has passed since self.feedback_lost_since; NoTimer is  *)
(* None.  target_source and fault, which only feed the status texts, are   *)
(* left out.                                                               *)
(***************************************************************************)
EXTENDS EnergyDomain, Integers

CONSTANT ConfirmTimeout   \* confirmation_timeout, in ticks

ASSUME ConfirmTimeoutAssumption == ConfirmTimeout \in Nat \ {0}

NoTimer == -1

StablePhases == {"stable_grid", "stable_isolated", "stable_generator"}

Transitions == {"disconnecting_grid", "selecting_generator",
                "disconnecting_generator", "connecting_grid"}

TransferPhase ==
  {"waiting_for_data", "recovery_required"} \cup StablePhases \cup Transitions

TransferCommand ==
  {"disconnect_grid", "select_generator", "deselect_generator", "connect_grid"}

PhaseOf ==
  [disconnect_grid |-> "disconnecting_grid",
   select_generator |-> "selecting_generator",
   deselect_generator |-> "disconnecting_generator",
   connect_grid |-> "connecting_grid"]

StablePhaseOf ==
  [grid |-> "stable_grid", isolated |-> "stable_isolated",
   generator |-> "stable_generator"]

\* The attributes of a controller.
Controller ==
  [phase : TransferPhase, source : PowerSource, path : PowerPath,
   deadline : NoTimer..ConfirmTimeout, lostFor : NoTimer..ConfirmTimeout,
   initialized : BOOLEAN]

NewController ==
  [phase |-> "waiting_for_data", source |-> "unknown", path |-> "unknown",
   deadline |-> NoTimer, lostFor |-> NoTimer, initialized |-> FALSE]

InTransition(t) == t.phase \in Transitions

\* A tick of time passes.
Elapse(t) ==
  [t EXCEPT !.deadline = IF @ > 0 THEN @ - 1 ELSE @,
            !.lostFor = IF @ \in 0..(ConfirmTimeout - 1) THEN @ + 1 ELSE @]

\* Mutant: compares the wrong way round.
TimedOutNever(t) == t.deadline > ConfirmTimeout

TimedOut(t) == t.deadline = 0

-------------------------------------------------------------------------------
(***************************************************************************)
(* The physical interpretation of an observation.                          *)
(***************************************************************************)

\* PowerTransferObservation
Observation ==
  [gridReady : Tri, houseOnGrid : Tri, houseOnGenerator : Tri,
   gridConnected : Tri, generatorSelected : Tri, emergencyStop : Tri,
   gridInput : GridInputState]

RequiredStatesKnown(o) ==
  /\ o.gridReady # "unknown"
  /\ o.houseOnGrid # "unknown"
  /\ o.houseOnGenerator # "unknown"
  /\ o.gridConnected # "unknown"
  /\ o.generatorSelected # "unknown"
  /\ o.emergencyStop # "unknown"

UnsafeOverlap(o) == o.houseOnGrid = "yes" /\ o.houseOnGenerator = "yes"

On(path, source) == [path |-> path, source |-> source]

Ambiguous == On("unknown", "unknown")

\* _infer_topology; Ambiguous stands for None
Topology(o) ==
  CASE ~RequiredStatesKnown(o) \/ UnsafeOverlap(o) -> Ambiguous
    [] RequiredStatesKnown(o) /\ ~UnsafeOverlap(o) ->
       IF o.generatorSelected = "yes"
       THEN IF o.houseOnGrid = "no" /\ o.houseOnGenerator = "yes"
            THEN On("generator", "generator") ELSE Ambiguous
       ELSE IF o.houseOnGenerator = "yes" THEN Ambiguous
       ELSE IF o.gridConnected = "yes"
       THEN IF o.houseOnGrid = "yes"
            THEN On("grid", IF o.gridInput = "lost" THEN "ups_only" ELSE "grid")
            ELSE IF o.gridReady = "no" THEN On("grid", "ups_only") ELSE Ambiguous
       ELSE IF o.houseOnGrid = "no" THEN On("isolated", "ups_only") ELSE Ambiguous

IsAmbiguous(o) == Topology(o).path = "unknown"

-------------------------------------------------------------------------------
(***************************************************************************)
(* The state changes.                                                      *)
(***************************************************************************)

SetStable(t, topology) ==
  [t EXCEPT !.path = topology.path,
            !.source = topology.source,
            !.phase = StablePhaseOf[topology.path],
            !.deadline = NoTimer,
            !.lostFor = NoTimer]

SetUnknown(t, phase) ==
  [t EXCEPT !.phase = phase, !.source = "unknown", !.path = "unknown",
            !.deadline = NoTimer, !.lostFor = NoTimer]

RequireRecovery(t) == SetUnknown(t, "recovery_required")

MarkInterrupted(t) == IF InTransition(t) THEN RequireRecovery(t) ELSE t

\* Mutant: starts no timer.
BeginUntimed(t, command) == [t EXCEPT !.phase = PhaseOf[command]]

\* _begin
Begin(t, command) ==
  [t EXCEPT !.phase = PhaseOf[command], !.deadline = ConfirmTimeout]

\* The observation confirms the step under way (_settle_transition).
Confirmed(t, o) ==
  CASE t.phase = "disconnecting_grid" ->
         o.gridConnected = "no" /\ o.houseOnGrid = "no"
    [] t.phase = "selecting_generator" ->
         /\ o.gridConnected = "no" /\ o.houseOnGrid = "no"
         /\ o.generatorSelected = "yes" /\ o.houseOnGenerator = "yes"
    [] t.phase = "disconnecting_generator" ->
         o.generatorSelected = "no" /\ o.houseOnGenerator = "no"
    [] t.phase = "connecting_grid" ->
         /\ o.generatorSelected = "no" /\ o.houseOnGenerator = "no"
         /\ Topology(o).path = "grid"

\* A confirmed step whose outcome is not a clear topology keeps its phase
\* and loses its deadline.
Settle(t, o) ==
  IF IsAmbiguous(o) THEN [t EXCEPT !.deadline = NoTimer]
  ELSE SetStable(t, Topology(o))

\* A topology that stays unclear for the confirmation timeout is a fault.
LoseFeedback(t) ==
  CASE t.lostFor = NoTimer -> [t EXCEPT !.lostFor = 0]
    [] t.lostFor >= ConfirmTimeout -> RequireRecovery(t)
    [] OTHER -> t

-------------------------------------------------------------------------------
(***************************************************************************)
(* observe: synchronise with the plant, command nothing.                   *)
(***************************************************************************)

\* Mutant: a clear topology ends the recovery by itself.
ObserveOnlyRecovers(t, o) ==
  IF IsAmbiguous(o) THEN t ELSE SetStable(t, Topology(o))

ObserveOnly(t, o) ==
  IF IsAmbiguous(o) THEN t
  ELSE [t EXCEPT !.path = Topology(o).path, !.source = Topology(o).source]

\* The first complete observation after the start.
Initialize(t, o) ==
  LET u == [t EXCEPT !.initialized = TRUE]
  IN IF IsAmbiguous(o) THEN RequireRecovery(u) ELSE SetStable(u, Topology(o))

\* observe() from the point where the controller is initialised
Follow(t, o) ==
  CASE t.phase = "recovery_required" -> ObserveOnly(t, o)
    [] InTransition(t) /\ TimedOut(t) -> RequireRecovery(t)
    [] InTransition(t) /\ ~TimedOut(t) /\ ~Confirmed(t, o) -> t
    [] OTHER ->
         IF IsAmbiguous(o)
         THEN LoseFeedback(IF InTransition(t) THEN Settle(t, o) ELSE t)
         ELSE SetStable(t, Topology(o))

Observe(t, o) ==
  CASE ~RequiredStatesKnown(o) ->
         IF t.initialized THEN t ELSE SetUnknown(t, "waiting_for_data")
    [] RequiredStatesKnown(o) /\ UnsafeOverlap(o) -> RequireRecovery(t)
    [] OTHER ->
         IF t.initialized THEN Follow(t, o)
         ELSE IF IsAmbiguous(o) THEN Initialize(t, o)
         ELSE Follow(Initialize(t, o), o)

-------------------------------------------------------------------------------
(***************************************************************************)
(* plan: at most one new command towards the desired source.               *)
(***************************************************************************)

Nothing == "nothing"   \* no command

\* Mutant: makes before it breaks.
DriveMakesFirst(t, o, desired, generatorReady) ==
  CASE desired = "generator" ->
         IF o.emergencyStop # "no" \/ ~generatorReady THEN Nothing
         ELSE IF t.path \in {"grid", "isolated"} THEN "select_generator"
         ELSE Nothing
    [] desired = "grid" /\ t.path = "isolated" -> "connect_grid"
    [] desired # "generator" /\ t.path = "generator" -> "deselect_generator"
    [] OTHER -> Nothing

\* _drive
Drive(t, o, desired, generatorReady) ==
  CASE desired = "generator" ->
         IF o.emergencyStop # "no" \/ ~generatorReady THEN Nothing
         ELSE IF t.path = "grid" THEN "disconnect_grid"
         ELSE IF t.path = "isolated" THEN "select_generator"
         ELSE IF t.path = "generator" /\ o.gridConnected = "yes"
         THEN "disconnect_grid"
         ELSE Nothing
    [] desired \in {"ups_only", "no_power"} ->
         IF t.path = "grid" THEN "disconnect_grid"
         ELSE IF t.path = "generator" THEN "deselect_generator"
         ELSE Nothing
    [] desired = "grid" ->
         IF t.path = "generator" THEN "deselect_generator"
         ELSE IF t.path = "isolated" THEN "connect_grid"
         ELSE Nothing
    [] OTHER -> Nothing

\* REQ-FAULT-02: with the selector confirmed on and the grid branch confirmed
\* off, opening the generator branch is safe without its voltage feedback.
SafeBreak(o) ==
  /\ o.generatorSelected = "yes"
  /\ o.gridConnected = "no"
  /\ o.houseOnGrid = "no"

\* Mutant: plans while a step is under way.
MayPlanInTransition(t, o, allowed) ==
  /\ RequiredStatesKnown(o)
  /\ t.phase # "recovery_required"
  /\ allowed

\* The early returns of plan().
MayPlan(t, o, allowed) ==
  /\ RequiredStatesKnown(o)
  /\ t.phase # "recovery_required"
  /\ ~InTransition(t)
  /\ allowed

\* The command plan() issues; Nothing as the desired source stands for None.
Planned(t, o, desired, generatorReady, allowed) ==
  IF ~MayPlan(t, o, allowed) THEN Nothing
  ELSE IF ~IsAmbiguous(o) THEN Drive(t, o, desired, generatorReady)
  ELSE IF desired \in {"grid", "ups_only", "no_power"} /\ SafeBreak(o)
  THEN "deselect_generator"
  ELSE Nothing

\* The controller after plan() issued the command.
AfterPlan(t, o, command) ==
  IF command = Nothing THEN t
  ELSE IF IsAmbiguous(o) THEN Begin([t EXCEPT !.lostFor = NoTimer], command)
  ELSE Begin(t, command)

-------------------------------------------------------------------------------
(***************************************************************************)
(* Recovery of the grid path, on the user's reset.                         *)
(***************************************************************************)

BeginRecovery(t) ==
  [SetUnknown(t, "recovery_required") EXCEPT !.initialized = TRUE]

\* recovery_blocker is not None
RecoveryBlocked(o) ==
  ~RequiredStatesKnown(o) \/ o.emergencyStop # "no" \/ UnsafeOverlap(o)

\* What a call of step_recovery_to_grid_path returns: the controller, the
\* command or Nothing, and whether there is an error text.
Outcome(t, command, failed) == [t |-> t, command |-> command, failed |-> failed]

\* step_recovery_to_grid_path once no step is pending
RecoverFrom(t, o) ==
  LET u == IF IsAmbiguous(o) THEN t ELSE SetStable(t, Topology(o))
      command == IF IsAmbiguous(o) /\ SafeBreak(o) THEN "deselect_generator"
                 ELSE Drive(u, o, "grid", FALSE)
  IN IF Topology(o).path = "grid" THEN Outcome(u, Nothing, FALSE)
     ELSE IF command # Nothing
     THEN Outcome(Begin([u EXCEPT !.lostFor = NoTimer], command), command, FALSE)
     ELSE LET v == LoseFeedback(u)
          IN Outcome(v, Nothing, u.lostFor >= ConfirmTimeout)

StepRecovery(t, o) ==
  CASE RecoveryBlocked(o) -> Outcome(t, Nothing, TRUE)
    [] ~RecoveryBlocked(o) /\ InTransition(t) /\ TimedOut(t) ->
         Outcome(RequireRecovery(t), Nothing, TRUE)
    [] ~RecoveryBlocked(o) /\ InTransition(t) /\ ~TimedOut(t) /\ ~Confirmed(t, o) ->
         Outcome(t, Nothing, FALSE)
    [] OTHER -> RecoverFrom(IF InTransition(t) THEN Settle(t, o) ELSE t, o)

\* request_recovery_reset returns True
ResetPermitted(o) == Topology(o).path = "grid"

RequestReset(t, o) ==
  IF ResetPermitted(o)
  THEN [SetStable(t, Topology(o)) EXCEPT !.initialized = TRUE] ELSE t
===============================================================================
