---------------------------- MODULE GeneratorEngine ----------------------------
(***************************************************************************)
(* One generator: its controller, the part of the application tick that    *)
(* calls it (main.py), the adapter that throws REMOTE and presses the      *)
(* choke buttons behind an interlock of its own (ha_adapter.py), and the   *)
(* engine with its choke.                                                  *)
(*                                                                         *)
(* A tick advances the controller first and then awaits its commands one   *)
(* by one.  In between readings change, the connection breaks and the      *)
(* program may die; whatever was not executed by then is lost, while the   *)
(* controller, unless it died, stands in the phase that assumed it.        *)
(*                                                                         *)
(* No sensor shows the choke: choke is where the last press put it.        *)
(* chokeForgotten and restFor are history variables: a press of CHOKE_TO_RUN    *)
(* was lost, or a restart trusted the choke of a loaded engine; and for    *)
(* how long, up to Cooldown, an engine that cools down was last seen       *)
(* without load.                                                           *)
(***************************************************************************)
EXTENDS GeneratorController

VARIABLES
  g,               \* the controller
  o,               \* the readings now
  want,            \* what the supervisor and the scheduler want of the engine
  choke,           \* where the choke is
  pending,         \* the commands not executed yet
  chokeForgotten,  \* history
  restFor          \* history

vars == <<g, o, want, choke, pending, chokeForgotten, restFor>>

\* desired_running is true or false with the permission to act, the engine is
\* to be shut down on authority, or nothing may be done to it.
Wants == {"run", "rest", "shutdown", "nothing"}

Init ==
  /\ o \in [running : {"yes", "no"}, remoteOn : {"yes", "no"},
            emergencyStop : {"no"}, bus : {"off"}, temperature : Temperatures]
  /\ g = NewController(o.temperature)
  /\ want = "nothing"
  /\ choke = "run"
  /\ pending = <<>>
  /\ chokeForgotten = FALSE
  /\ restFor = 0

-------------------------------------------------------------------------------
(***************************************************************************)
(* The environment: the engine starts and stops, by REMOTE, by hand or on  *)
(* its own; the user throws REMOTE; readings come, go and change.          *)
(***************************************************************************)

EngineChanges ==
  /\ \E v \in Tri \ {o.running} : o' = [o EXCEPT !.running = v]
  /\ UNCHANGED <<g, want, choke, pending, chokeForgotten, restFor>>

RemoteChanges ==
  /\ \E v \in {"yes", "no"} \ {o.remoteOn} : o' = [o EXCEPT !.remoteOn = v]
  /\ UNCHANGED <<g, want, choke, pending, chokeForgotten, restFor>>

EmergencyStopChanges ==
  /\ \E v \in {"yes", "no"} \ {o.emergencyStop} : o' = [o EXCEPT !.emergencyStop = v]
  /\ UNCHANGED <<g, want, choke, pending, chokeForgotten, restFor>>

BusChanges ==
  /\ \E v \in BusReading \ {o.bus} : o' = [o EXCEPT !.bus = v]
  /\ UNCHANGED <<g, want, choke, pending, chokeForgotten, restFor>>

TemperatureChanges ==
  /\ \E v \in Temperatures \ {o.temperature} : o' = [o EXCEPT !.temperature = v]
  /\ UNCHANGED <<g, want, choke, pending, chokeForgotten, restFor>>

WantChanges ==
  /\ want' \in Wants \ {want}
  /\ UNCHANGED <<g, o, choke, pending, chokeForgotten, restFor>>

Longer == IF restFor < Cooldown THEN restFor + 1 ELSE restFor

\* The wall clock runs on while the program waits.
TimePasses ==
  /\ g' = Elapse(g)
  /\ restFor' = IF g.phase = "cooling_down" THEN Longer ELSE restFor
  /\ UNCHANGED <<o, want, choke, pending, chokeForgotten>>

-------------------------------------------------------------------------------
(***************************************************************************)
(* One control tick.                                                       *)
(***************************************************************************)

Observed(stableManaged) == Observe(Elapse(g), o, stableManaged)

\* The controller, u after observing and v after the tick, takes a closed
\* choke for open.
ForgetsChoke(u, v) ==
  /\ choke = "cold_start"
  /\ v.phase = "idle" \/ (~g.initialized /\ u.phase = "ready_for_load")

Presses(actions) == \E i \in DOMAIN actions : actions[i] = "choke_to_run"

\* The rest of an engine whose controller is v after the tick.
Rest(v, seesLoad) ==
  IF seesLoad \/ "cooling_down" \notin {g.phase, v.phase} THEN 0 ELSE Longer

\* The tick as far as the history variables watch it.
Watch(u, v, sees) ==
  /\ chokeForgotten' = (chokeForgotten \/ ForgetsChoke(u, v))
  /\ restFor' = Rest(v, sees /\ LoadConnected(o) = "yes")

\* The tick of normal operation (_plan_generator_actions).
PlanTick ==
  /\ pending = <<>>
  /\ want # "shutdown"
  /\ \E stableManaged \in BOOLEAN :
       LET u == Observed(stableManaged)
           outcome == Plan(u, o, want = "run", want # "nothing")
       IN /\ g' = outcome.g
          /\ pending' = outcome.actions
          /\ Watch(u, outcome.g, want # "nothing" /\ RequiredStatesKnown(o))
  /\ UNCHANGED <<o, want, choke>>

\* The tick stops the engine on the supervisor's or the scheduler's authority.
\* In a recovery reset the error of one generator drops the commands of both.
ShutdownTick ==
  /\ pending = <<>>
  /\ want = "shutdown"
  /\ \E stableManaged \in BOOLEAN :
       LET u == Observed(stableManaged)
           outcome == AuthorizedShutdown(u, o)
       IN /\ g' = outcome.g
          /\ \/ /\ pending' = outcome.actions
                /\ Watch(u, outcome.g, FALSE)
             \/ /\ pending' = <<>>
                /\ chokeForgotten' = (\/ chokeForgotten \/ ForgetsChoke(u, outcome.g)
                                      \/ Presses(outcome.actions))
                /\ restFor' = Rest(outcome.g, FALSE)
  /\ UNCHANGED <<o, want, choke>>

\* A tick of a recovery reset that has other work; at its end it resets the
\* controller (COMPLETE).
RecoveryTick ==
  /\ pending = <<>>
  /\ want = "nothing"
  /\ \E stableManaged \in BOOLEAN :
       LET u == Observed(stableManaged)
       IN /\ g' \in {u, ResetIfSafe(u, o)}
          /\ Watch(u, g', FALSE)
  /\ UNCHANGED <<o, want, choke, pending>>

Tick ==
  \/ PlanTick
  \/ ShutdownTick
  \/ RecoveryTick

-------------------------------------------------------------------------------
(***************************************************************************)
(* The adapter and the connection.                                         *)
(***************************************************************************)

\* _assert_generator_action_safe
InterlockAllows(action) ==
  CASE action = "remote_on" -> o.emergencyStop = "no"
    [] action = "remote_off" -> o.running = "no" \/ o.bus = "off"
    [] OTHER -> TRUE

\* What an executed command does: REMOTE may fail to follow.
Perform(action) ==
  /\ \/ o' = o
     \/ action = "remote_on" /\ o' = [o EXCEPT !.remoteOn = "yes"]
     \/ action = "remote_off" /\ o' = [o EXCEPT !.remoteOn = "no"]
  /\ choke' = CASE action = "choke_to_cold_start" -> "cold_start"
                [] action = "choke_to_run" -> "run"
                [] OTHER -> choke

Execute ==
  /\ pending # <<>>
  /\ InterlockAllows(Head(pending))
  /\ Perform(Head(pending))
  /\ pending' = Tail(pending)
  /\ chokeForgotten' = (/\ chokeForgotten
                        /\ Head(pending) \notin {"choke_to_run", "choke_to_cold_start"})
  /\ UNCHANGED <<g, want, restFor>>

\* What is still pending is never executed.
Drop ==
  /\ pending' = <<>>
  /\ chokeForgotten' = (chokeForgotten \/ Presses(pending))

\* UnsafeHardwareCommand ends the connection, and the controller is not told.
Refuse ==
  /\ pending # <<>>
  /\ ~InterlockAllows(Head(pending))
  /\ Drop
  /\ UNCHANGED <<g, o, want, choke, restFor>>

\* The connection breaks; the controller waits in the phase it stands in.
Disconnect ==
  /\ pending # <<>>
  /\ Drop
  /\ UNCHANGED <<g, o, want, choke, restFor>>

\* The controller is not persisted.
Restart ==
  /\ g' = NewController(o.temperature)
  /\ restFor' = 0
  /\ Drop
  /\ UNCHANGED <<o, want, choke>>

Environment ==
  \/ EngineChanges
  \/ RemoteChanges
  \/ EmergencyStopChanges
  \/ BusChanges
  \/ TemperatureChanges
  \/ WantChanges

Next ==
  \/ Environment
  \/ TimePasses
  \/ Tick
  \/ Execute
  \/ Refuse
  \/ Disconnect
  \/ Restart

Spec == Init /\ [][Next]_vars

\* The run loop ticks once a second, and every awaited call returns, fails or
\* times out.
FairSpec == Spec /\ WF_vars(Tick) /\ WF_vars(Execute \/ Refuse)

-------------------------------------------------------------------------------
(***************************************************************************)
(* Properties.                                                             *)
(***************************************************************************)

\* The lists of commands a tick can leave to be executed.
ActionLists ==
  {<<>>} \cup {<<a>> : a \in GeneratorActionKind}
    \cup {<<"remote_off", "choke_to_run">>, <<"choke_to_run", "remote_off">>}

TypeOK ==
  /\ g \in Engine
  /\ o \in Observation
  /\ want \in Wants
  /\ choke \in {"run", "cold_start"}
  /\ pending \in ActionLists
  /\ chokeForgotten \in BOOLEAN
  /\ restFor \in 0..Cooldown

TimedPhases ==
  {"preparing", "waiting_for_running", "holding_cold_start_choke", "warming_up",
   "cooling_down", "waiting_for_stop"}

\* Every phase that waits for the engine or for the clock has a deadline, and
\* no other phase has one: no path through start, cancellation, takeover,
\* authorised shutdown and restart leaves the controller waiting without a
\* timeout, or in a stable phase with an old one.
TimersMatchPhases == g.phase \in TimedPhases <=> g.deadline # NoTimer

\* An engine reported ready for load is not choked.  The choke is closed for
\* the start of a cold engine; cancelled starts, faults, authorised shutdowns
\* and restarts all have to open it again.  The exceptions are the presses the
\* program can lose, and does not repeat: see chokeForgotten.
ReadyMeansChokeOpen ==
  ReadyForLoad(g, o) /\ ~chokeForgotten => choke = "run" \/ Presses(pending)

\* REQ-STOP: an engine that carried the house and runs is switched off in the
\* normal way only after the whole cooldown without load, as far as the planning
\* ticks saw its load; other ticks do not restart the cooldown of an engine
\* that is loaded again.
CooldownIsFull ==
  [][g.phase = "cooling_down" /\ pending = <<>> /\ pending' = <<"remote_off">>
       /\ o.running = "yes" => restFor' >= Cooldown]_vars

\* A latched fault ends by a restart, at rest, or by the authorised cooldown
\* or switching off of an unloaded engine; never by starting or loading it.
FaultEndsSafely ==
  [][g.phase = "fault" /\ g'.phase # "fault" =>
       \/ g' = NewController(o.temperature)
       \/ Stopped(o) /\ g'.phase = "idle"
       \/ /\ LoadConnected(o) = "no" /\ o.emergencyStop = "no"
          /\ g'.phase \in {"cooling_down", "waiting_for_stop"}]_vars

-------------------------------------------------------------------------------
(***************************************************************************)
(* Liveness.  The engine may start, stop, or do neither, the user may      *)
(* throw REMOTE, and commands may get lost for ever.  Only a reading that  *)
(* keeps disappearing, or a program that keeps restarting, is an excuse.   *)
(***************************************************************************)

Excused == []<>(~RequiredStatesKnown(o)) \/ []<>(~g.initialized)

Undecided == {"idle", "preparing", "waiting_for_running",
              "holding_cold_start_choke", "warming_up"}

\* An engine that goes on being wanted is ready in the end, or has failed, or
\* is run by somebody else: no start stays undecided.
StartSettles ==
  <>[](want = "run") => <>[](g.phase \notin Undecided) \/ Excused

\* REQ-STOP: an engine that goes on being unwanted and unloaded ends at rest,
\* failed, or run by somebody else.
StopSettles ==
  <>[](want = "rest" /\ LoadConnected(o) = "no") =>
    <>[](g.phase \in {"idle", "fault", "external_running"}) \/ Excused

\* REQ-RECOVERY-02: an authorised shutdown of an unloaded engine does not wait
\* for ever; time and again it has stopped the engine or reports a fault.
ShutdownAnswers ==
  <>[](want = "shutdown" /\ LoadConnected(o) = "no" /\ o.emergencyStop = "no") =>
    []<>(g.phase \in {"idle", "fault"}) \/ Excused

\* No order to the controller stays without an outcome, however the engine, the
\* user and the lost commands play together (generator_controller.py).
OrdersSettle == StartSettles /\ StopSettles /\ ShutdownAnswers
===============================================================================
