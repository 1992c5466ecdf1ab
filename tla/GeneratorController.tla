-------------------------- MODULE GeneratorController --------------------------
(***************************************************************************)
(* The class GeneratorController (generator_controller.py), one per engine,*)
(* as operators on the record g of its attributes and an observation o.    *)
(* It chokes, starts, warms up, cools down and stops its engine through    *)
(* the switch REMOTE and two choke buttons.                                *)
(*                                                                         *)
(* Time is counted in ticks; deadline is what is left until self.deadline. *)
(* The fault text is left out: a fault is the phase fault.  A temperature  *)
(* is one of the bands its profile tells apart.                            *)
(***************************************************************************)
EXTENDS EnergyDomain, Integers, Sequences

CONSTANTS
  Temperatures,     \* the bands of the outdoor temperature, unknown included
  ClosesChoke,      \* the bands at which a start needs the choke
  Warmup,           \* warmup_seconds of each band
  ChokeMove,        \* choke_move_seconds
  ChokeHold,        \* cold_start_choke_hold_seconds
  StartTimeout,     \* start_timeout_seconds
  StopTimeout,      \* stop_timeout_seconds
  Cooldown          \* cooldown_seconds

ASSUME ProfileAssumption ==
  /\ ClosesChoke \subseteq Temperatures
  /\ Warmup \in [Temperatures -> Nat]
  /\ ChokeMove \in Nat /\ ChokeHold \in Nat
  /\ StartTimeout \in Nat /\ StopTimeout \in Nat
  /\ Cooldown \in Nat

NoTimer == -1

GeneratorPhase ==
  {"waiting_for_data", "idle", "preparing", "waiting_for_running",
   "holding_cold_start_choke", "warming_up", "ready_for_load",
   "waiting_for_load_release", "cooling_down", "waiting_for_stop",
   "external_running", "fault"}

GeneratorActionKind ==
  {"remote_on", "remote_off", "choke_to_cold_start", "choke_to_run"}

Engine ==
  [phase : GeneratorPhase, deadline : Nat \cup {NoTimer},
   startTemperature : Temperatures, chokeUsed : BOOLEAN, initialized : BOOLEAN]

NewController(temperature) ==
  [phase |-> "waiting_for_data", deadline |-> NoTimer,
   startTemperature |-> temperature, chokeUsed |-> FALSE, initialized |-> FALSE]

\* A tick of time passes.
Elapse(g) == IF g.deadline > 0 THEN [g EXCEPT !.deadline = @ - 1] ELSE g

Expired(g) == g.deadline = 0

\* Enter a phase that lasts until the deadline, or has none.
Enter(g, phase, deadline) == [g EXCEPT !.phase = phase, !.deadline = deadline]

-------------------------------------------------------------------------------
(***************************************************************************)
(* What the controller sees.  bus is the reading house_on_generator with   *)
(* the bus owner folded in: the house is off the generator bus, fed by     *)
(* this engine, fed by the other one, or that cannot be told.              *)
(***************************************************************************)

BusReading == {"off", "self", "other", "unknown"}

Observation ==
  [running : Tri, remoteOn : Tri, emergencyStop : Tri, bus : BusReading,
   temperature : Temperatures]

\* _apply_bus_model
LoadConnected(o) ==
  CASE o.bus = "self" -> "yes"
    [] o.bus \in {"off", "other"} -> "no"
    [] OTHER -> "unknown"

RequiredStatesKnown(o) ==
  /\ o.running # "unknown"
  /\ o.remoteOn # "unknown"
  /\ o.emergencyStop # "unknown"

Stopped(o) == o.running = "no" /\ o.remoteOn = "no"

ReadyPhases == {"ready_for_load", "waiting_for_load_release", "cooling_down"}

\* status().ready_for_load
ReadyForLoad(g, o) ==
  g.phase \in ReadyPhases /\ o.running = "yes" /\ o.remoteOn = "yes"

-------------------------------------------------------------------------------
(***************************************************************************)
(* The state changes.  A step returns the controller and its commands.     *)
(***************************************************************************)

Outcome(g, actions) == [g |-> g, actions |-> actions]

Stays(g) == Outcome(g, <<>>)

Idle(g) == [Enter(g, "idle", NoTimer) EXCEPT !.chokeUsed = FALSE]

LatchFault(g) == Enter(g, "fault", NoTimer)

FaultActions(g) == Outcome(LatchFault(g), <<"remote_off", "choke_to_run">>)

\* Mutant: the choke stays closed.
AbortStartOnly(g) ==
  Outcome(Enter(g, "waiting_for_stop", StopTimeout), <<"remote_off">>)

\* _abort_start
AbortStart(g) ==
  Outcome(Enter(g, "waiting_for_stop", StopTimeout), <<"remote_off", "choke_to_run">>)

\* _remote_off
RemoteOff(g) == Outcome(Enter(g, "waiting_for_stop", StopTimeout), <<"remote_off">>)

StartCooldown(g) == Enter(g, "cooling_down", Cooldown)

\* _begin_start
BeginStart(g, o) ==
  LET choke == o.temperature \in ClosesChoke
  IN Outcome([Enter(g, "preparing", ChokeMove) EXCEPT
                !.startTemperature = o.temperature, !.chokeUsed = choke],
             IF choke THEN <<"choke_to_cold_start">> ELSE <<"choke_to_run">>)

\* _running_confirmed
RunningConfirmed(g) ==
  IF g.chokeUsed THEN Enter(g, "holding_cold_start_choke", ChokeHold)
  ELSE Enter(g, "warming_up", Warmup[g.startTemperature])

\* _running_failure
RunningFailure(o) == o.running # "yes" \/ o.remoteOn # "yes"

-------------------------------------------------------------------------------
(***************************************************************************)
(* observe                                                                 *)
(***************************************************************************)

\* A managed engine found running without the house is a restart in the
\* middle of an exercise, whose choke position is not known any more.
Initialize(g, o, stableManaged) ==
  IF o.emergencyStop = "yes" THEN LatchFault(g)
  ELSE IF o.running = "yes"
  THEN IF ~stableManaged \/ o.remoteOn # "yes"
       THEN [g EXCEPT !.phase = "external_running"]
       ELSE IF LoadConnected(o) = "no"
       THEN [Enter(g, "holding_cold_start_choke", ChokeHold) EXCEPT
               !.startTemperature = o.temperature, !.chokeUsed = TRUE]
       ELSE [g EXCEPT !.phase = "ready_for_load"]
  ELSE IF o.remoteOn = "yes"
  THEN IF stableManaged THEN LatchFault(g)
       ELSE [g EXCEPT !.phase = "external_running"]
  ELSE Idle(g)

Observe(g, o, stableManaged) ==
  LET u == IF g.initialized THEN g
           ELSE [Initialize(g, o, stableManaged) EXCEPT !.initialized = TRUE]
  IN IF ~RequiredStatesKnown(o) THEN g
     ELSE IF o.emergencyStop = "yes" THEN LatchFault(u)
     ELSE IF u.phase = "external_running" /\ Stopped(o) THEN Idle(u)
     ELSE u

-------------------------------------------------------------------------------
(***************************************************************************)
(* plan, phase by phase.                                                   *)
(***************************************************************************)

PlanIdle(g, o, desired) ==
  IF o.running = "yes" \/ o.remoteOn = "yes"
  THEN Stays([g EXCEPT !.phase = "external_running"])
  ELSE IF desired THEN BeginStart(g, o) ELSE Stays(g)

\* Mutant: opens the choke with REMOTE instead of with RUNNING.
PlanPreparingOpens(g, o, desired) ==
  IF Expired(g)
  THEN Outcome(Enter(g, "waiting_for_running", StartTimeout),
               <<"remote_on", "choke_to_run">>)
  ELSE Stays(g)

PlanPreparing(g, o, desired) ==
  IF ~desired THEN AbortStart(g)
  ELSE IF o.running = "yes" THEN FaultActions(g)
  ELSE IF Expired(g)
  THEN Outcome(Enter(g, "waiting_for_running", StartTimeout), <<"remote_on">>)
  ELSE Stays(g)

PlanWaitingForRunning(g, o, desired) ==
  IF ~desired THEN AbortStart(g)
  ELSE IF o.running = "yes"
  THEN IF o.remoteOn # "yes" THEN FaultActions(g) ELSE Stays(RunningConfirmed(g))
  ELSE IF Expired(g) THEN FaultActions(g)
  ELSE Stays(g)

PlanHolding(g, o, desired) ==
  IF ~desired THEN AbortStart(g)
  ELSE IF RunningFailure(o) THEN FaultActions(g)
  ELSE IF Expired(g)
  THEN Outcome(Enter(g, "warming_up", Warmup[g.startTemperature]), <<"choke_to_run">>)
  ELSE Stays(g)

PlanWarmingUp(g, o, desired) ==
  IF ~desired THEN AbortStart(g)
  ELSE IF RunningFailure(o) THEN FaultActions(g)
  ELSE IF Expired(g) THEN Stays(Enter(g, "ready_for_load", NoTimer))
  ELSE Stays(g)

PlanReady(g, o, desired) ==
  IF ~desired /\ Stopped(o) /\ LoadConnected(o) = "no" THEN Stays(Idle(g))
  ELSE IF RunningFailure(o) THEN FaultActions(g)
  ELSE IF desired THEN Stays(g)
  ELSE IF LoadConnected(o) = "no" THEN Stays(StartCooldown(g))
  ELSE Stays(Enter(g, "waiting_for_load_release", NoTimer))

PlanLoadRelease(g, o, desired) ==
  IF Stopped(o) /\ LoadConnected(o) = "no" THEN Stays(Idle(g))
  ELSE IF RunningFailure(o) THEN FaultActions(g)
  ELSE IF desired THEN Stays([g EXCEPT !.phase = "ready_for_load"])
  ELSE IF LoadConnected(o) = "no" THEN Stays(StartCooldown(g))
  ELSE Stays(g)

\* Mutant: does not wait for the end of the cooldown.
PlanCoolingHasty(g, o, desired) ==
  IF Stopped(o) /\ LoadConnected(o) # "yes" THEN Stays(Idle(g))
  ELSE IF RunningFailure(o) THEN FaultActions(g)
  ELSE IF desired \/ LoadConnected(o) = "yes"
  THEN Stays(Enter(g, "ready_for_load", NoTimer))
  ELSE RemoteOff(g)

PlanCooling(g, o, desired) ==
  IF Stopped(o) /\ LoadConnected(o) # "yes" THEN Stays(Idle(g))
  ELSE IF RunningFailure(o) THEN FaultActions(g)
  ELSE IF desired \/ LoadConnected(o) = "yes"
  THEN Stays(Enter(g, "ready_for_load", NoTimer))
  ELSE IF Expired(g) THEN RemoteOff(g)
  ELSE Stays(g)

PlanStopping(g, o, desired) ==
  IF Stopped(o) THEN Stays(Idle(g))
  ELSE IF desired
  THEN Outcome(IF o.running = "yes" THEN Enter(g, "ready_for_load", NoTimer)
               ELSE Enter(g, "waiting_for_running", StartTimeout),
               <<"remote_on">>)
  ELSE IF Expired(g) THEN FaultActions(g)
  ELSE Stays(g)

Plan(g, o, desired, allowed) ==
  IF ~RequiredStatesKnown(o) \/ o.emergencyStop = "yes" \/ ~allowed THEN Stays(g)
  ELSE CASE g.phase = "idle" -> PlanIdle(g, o, desired)
         [] g.phase = "preparing" -> PlanPreparing(g, o, desired)
         [] g.phase = "waiting_for_running" -> PlanWaitingForRunning(g, o, desired)
         [] g.phase = "holding_cold_start_choke" -> PlanHolding(g, o, desired)
         [] g.phase = "warming_up" -> PlanWarmingUp(g, o, desired)
         [] g.phase = "ready_for_load" -> PlanReady(g, o, desired)
         [] g.phase = "waiting_for_load_release" -> PlanLoadRelease(g, o, desired)
         [] g.phase = "cooling_down" -> PlanCooling(g, o, desired)
         [] g.phase = "waiting_for_stop" -> PlanStopping(g, o, desired)
         [] OTHER -> Stays(g)

-------------------------------------------------------------------------------
(***************************************************************************)
(* Stopping an unloaded engine on somebody else's authority, and the       *)
(* recovery reset.                                                         *)
(***************************************************************************)

ChokeUncertain(g) ==
  g.phase \in {"waiting_for_data", "preparing", "waiting_for_running",
               "holding_cold_start_choke", "warming_up", "external_running",
               "fault"}

\* Mutant: waits for the engine to stop without a timeout.
AuthorizedShutdownOn(g, o) ==
  LET u == [g EXCEPT !.initialized = TRUE]
  IN IF ~RequiredStatesKnown(o) THEN Stays(g)
     ELSE IF Stopped(o) THEN Stays(Idle(u))
     ELSE IF g.phase = "waiting_for_stop" THEN Stays(u)
     ELSE RemoteOff(u)

\* step_authorized_shutdown; its error text only goes to the supervisor.
AuthorizedShutdown(g, o) ==
  LET u == [g EXCEPT !.initialized = TRUE]
      opens == IF ChokeUncertain(g) THEN <<"choke_to_run">> ELSE <<>>
      off == RemoteOff(u)
  IN IF \/ ~RequiredStatesKnown(o)
        \/ o.emergencyStop # "no"
        \/ LoadConnected(o) # "no"
     THEN Stays(g)
     ELSE IF Stopped(o) THEN Stays(Idle(u))
     ELSE IF g.phase = "waiting_for_stop"
     THEN Stays(IF Expired(g) THEN LatchFault(u) ELSE u)
     ELSE IF g.phase = "cooling_down"
     THEN IF o.running = "no" \/ Expired(g) THEN off ELSE Stays(u)
     ELSE IF o.running = "yes" THEN Outcome(StartCooldown(u), opens)
     ELSE Outcome(off.g, opens \o off.actions)

\* Mutant: does not look at the engine.
ResetIfSafeBlindly(g, o) ==
  IF RequiredStatesKnown(o) /\ o.emergencyStop = "no"
  THEN [Idle(g) EXCEPT !.initialized = TRUE] ELSE g

\* reset_if_safe
ResetIfSafe(g, o) ==
  IF RequiredStatesKnown(o) /\ o.emergencyStop = "no" /\ Stopped(o)
  THEN [Idle(g) EXCEPT !.initialized = TRUE] ELSE g
===============================================================================
