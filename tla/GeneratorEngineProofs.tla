------------------------- MODULE GeneratorEngineProofs -------------------------
(***************************************************************************)
(* Proofs about GeneratorEngine, for every profile: any durations, any     *)
(* temperature bands, with the choke at any of them.                       *)
(*                                                                         *)
(* The main results are ReadyEngineIsNotChoked and CooldownIsNeverCut.     *)
(* Both rest on EngineInv: the timers match the phases, the phases that    *)
(* take the choke for open (SurePhases) find it open unless the program    *)
(* forgot it, and what is left of a cooldown makes up with the rest so far *)
(* for the whole.                                                          *)
(***************************************************************************)
EXTENDS GeneratorEngine, SequenceTheorems, TLAPS

\* The phases in which the controller takes the choke for open.
SurePhases ==
  {"idle", "warming_up", "ready_for_load", "waiting_for_load_release",
   "cooling_down", "waiting_for_stop"}

\* A controller whose choke may be closed.
Closable(c) ==
  /\ c.phase \notin SurePhases
  /\ c.phase \in {"preparing", "waiting_for_running"} => c.chokeUsed

\* The controller half of the invariant, on a controller c.
WellFormed(c) ==
  /\ c \in Engine
  /\ c.phase \in TimedPhases <=> c.deadline # NoTimer
  /\ ~c.initialized => c.phase = "waiting_for_data"

ChokeAccounted ==
  choke = "cold_start" /\ ~chokeForgotten => Closable(g) \/ Presses(pending)

\* The choke is only closed for a start under way that knows of it.
ClosingIsMeant ==
  pending = <<"choke_to_cold_start">> => g.phase = "preparing" /\ g.chokeUsed

CooldownAccounted ==
  g.phase = "cooling_down" => g.deadline + restFor >= Cooldown

EngineInv ==
  /\ TypeOK
  /\ WellFormed(g)
  /\ ChokeAccounted
  /\ ClosingIsMeant
  /\ CooldownAccounted

-------------------------------------------------------------------------------
(***************************************************************************)
(* The operators of the controller.                                        *)
(***************************************************************************)

\* What Enter and the operators built on it do to each attribute.
LEMMA Entered ==
  ASSUME NEW c \in Engine, NEW phase \in GeneratorPhase,
         NEW deadline \in Nat \cup {NoTimer}
  PROVE  /\ Enter(c, phase, deadline) \in Engine
         /\ Enter(c, phase, deadline).phase = phase
         /\ Enter(c, phase, deadline).deadline = deadline
         /\ Enter(c, phase, deadline).startTemperature = c.startTemperature
         /\ Enter(c, phase, deadline).chokeUsed = c.chokeUsed
         /\ Enter(c, phase, deadline).initialized = c.initialized
BY DEF Enter, Engine

\* What Idle does to each attribute.
LEMMA IdleFields ==
  ASSUME NEW c \in Engine
  PROVE  /\ Idle(c) \in Engine
         /\ Idle(c).phase = "idle" /\ Idle(c).deadline = NoTimer
         /\ Idle(c).initialized = c.initialized
BY DEF Idle, Enter, Engine, GeneratorPhase

\* What LatchFault does to each attribute.
LEMMA LatchFaultFields ==
  ASSUME NEW c \in Engine
  PROVE  /\ LatchFault(c) \in Engine
         /\ LatchFault(c).phase = "fault" /\ LatchFault(c).deadline = NoTimer
         /\ LatchFault(c).initialized = c.initialized
BY DEF LatchFault, Enter, Engine, GeneratorPhase

\* Which lists of commands open the choke.
LEMMA PressesFacts ==
  /\ ~Presses(<<>>)
  /\ \A a : Presses(<<a>>) <=> a = "choke_to_run"
  /\ Presses(<<"remote_off", "choke_to_run">>)
  /\ Presses(<<"choke_to_run", "remote_off">>)
BY DEF Presses

\* Time only moves the deadline, down to zero.
LEMMA ElapseFields ==
  ASSUME NEW c, WellFormed(c)
  PROVE  /\ WellFormed(Elapse(c))
         /\ Elapse(c).phase = c.phase
         /\ Elapse(c).chokeUsed = c.chokeUsed
         /\ Elapse(c).initialized = c.initialized
         /\ Elapse(c).deadline = IF c.deadline > 0 THEN c.deadline - 1 ELSE c.deadline
<1>1. c \in Engine /\ c.deadline \in Nat \cup {NoTimer}
  BY DEF WellFormed, Engine
<1>2. CASE c.deadline > 0
  <2>1. c.deadline - 1 \in Nat /\ c.deadline # NoTimer /\ c.deadline - 1 # NoTimer
    BY <1>1, <1>2 DEF NoTimer
  <2>2. Elapse(c) = [c EXCEPT !.deadline = c.deadline - 1]
    BY <1>1, <1>2 DEF Elapse, Engine
  <2> QED
    BY <1>1, <1>2, <2>1, <2>2 DEF Engine, WellFormed
<1>3. CASE ~(c.deadline > 0)
  BY <1>3 DEF Elapse
<1> QED
  BY <1>2, <1>3

-------------------------------------------------------------------------------
(***************************************************************************)
(* observe                                                                 *)
(***************************************************************************)

\* The phases a controller is initialised to; to rest only at a stopped engine.
LEMMA InitializeFields ==
  ASSUME NEW c, WellFormed(c), ~c.initialized, NEW obs \in Observation,
         NEW stable \in BOOLEAN
  PROVE  LET u == Initialize(c, obs, stable)
         IN  /\ u \in Engine
             /\ u.phase \in TimedPhases <=> u.deadline # NoTimer
             /\ u.phase \in {"fault", "external_running", "ready_for_load", "idle",
                             "holding_cold_start_choke"}
             /\ u.phase = "idle" /\ RequiredStatesKnown(obs) => Stopped(obs)
<1>1. /\ c \in Engine /\ c.deadline = NoTimer
      /\ c.phase = "waiting_for_data"
  BY DEF WellFormed, TimedPhases
<1> DEFINE external == [c EXCEPT !.phase = "external_running"]
           ready == [c EXCEPT !.phase = "ready_for_load"]
           held == [Enter(c, "holding_cold_start_choke", ChokeHold) EXCEPT
                      !.startTemperature = obs.temperature, !.chokeUsed = TRUE]
<1>2. /\ external \in Engine /\ external.phase = "external_running"
      /\ external.deadline = NoTimer
  BY <1>1 DEF Engine, GeneratorPhase
<1>3. /\ ready \in Engine /\ ready.phase = "ready_for_load"
      /\ ready.deadline = NoTimer
  BY <1>1 DEF Engine, GeneratorPhase
<1>4. /\ held \in Engine /\ held.phase = "holding_cold_start_choke"
      /\ held.deadline # NoTimer
  <2> DEFINE e == Enter(c, "holding_cold_start_choke", ChokeHold)
  <2>1. /\ e \in Engine /\ e.phase = "holding_cold_start_choke"
        /\ e.deadline = ChokeHold
    BY <1>1, ProfileAssumption, Entered DEF GeneratorPhase
  <2>2. ChokeHold # NoTimer /\ obs.temperature \in Temperatures
    BY ProfileAssumption DEF NoTimer, Observation
  <2> HIDE DEF e
  <2>3. held = [e EXCEPT !.startTemperature = obs.temperature, !.chokeUsed = TRUE]
    BY DEF e
  <2> HIDE DEF held
  <2> QED
    BY <2>1, <2>2, <2>3 DEF Engine
<1>5. Initialize(c, obs, stable) \in {LatchFault(c), external, ready, held, Idle(c)}
  BY DEF Initialize
<1>6. \/ Initialize(c, obs, stable) \in {LatchFault(c), external, ready, held}
      \/ obs.running # "yes" /\ obs.remoteOn # "yes"
  BY DEF Initialize
<1> HIDE DEF external, ready, held
<1>7. obs.running # "yes" /\ obs.remoteOn # "yes" /\ RequiredStatesKnown(obs) => Stopped(obs)
  BY DEF Observation, Tri, RequiredStatesKnown, Stopped
<1> QED
  BY <1>1, <1>2, <1>3, <1>4, <1>5, <1>6, <1>7, LatchFaultFields, IdleFields DEF TimedPhases

\* Observing keeps a controller well formed; the phase changes only into a
\* fault, to rest, or by the initialisation.
LEMMA ObserveFields ==
  ASSUME NEW c, WellFormed(c), NEW obs \in Observation, NEW stable \in BOOLEAN
  PROVE  LET u == Observe(c, obs, stable)
         IN  /\ WellFormed(u)
             /\ RequiredStatesKnown(obs) => u.initialized
             /\ \/ u = c
                \/ u.phase = "fault"
                \/ u.phase = "idle" /\ Stopped(obs)
                \/ ~c.initialized /\ u.phase \in {"external_running",
                     "ready_for_load", "holding_cold_start_choke"}
             /\ c.phase = "fault" => u = c \/ u.phase = "fault"
             /\ RequiredStatesKnown(obs) /\ obs.emergencyStop = "yes" => u.phase = "fault"
<1> DEFINE i == Initialize(c, obs, stable)
           d == IF c.initialized THEN c ELSE [i EXCEPT !.initialized = TRUE]
           u == Observe(c, obs, stable)
<1>1. c \in Engine
  BY DEF WellFormed
<1>2. /\ WellFormed(d) /\ d.initialized
      /\ c.initialized => d = c
      /\ ~c.initialized => d.phase \in {"fault", "external_running", "ready_for_load",
                                        "idle", "holding_cold_start_choke"}
      /\ ~c.initialized /\ d.phase = "idle" /\ RequiredStatesKnown(obs) => Stopped(obs)
  <2>1. CASE c.initialized
    BY <2>1
  <2>2. CASE ~c.initialized
    <3>1. /\ i \in Engine
          /\ i.phase \in TimedPhases <=> i.deadline # NoTimer
          /\ i.phase \in {"fault", "external_running", "ready_for_load", "idle",
                          "holding_cold_start_choke"}
          /\ i.phase = "idle" /\ RequiredStatesKnown(obs) => Stopped(obs)
      BY <2>2, InitializeFields
    <3>2. d = [i EXCEPT !.initialized = TRUE]
      BY <2>2
    <3> HIDE DEF i, d
    <3>3. /\ d \in Engine /\ d.initialized = TRUE
          /\ d.phase = i.phase /\ d.deadline = i.deadline
      BY <3>1, <3>2 DEF Engine
    <3> QED
      BY <2>2, <3>1, <3>3 DEF WellFormed
  <2> QED
    BY <2>1, <2>2
<1> HIDE DEF i, d
<1>3. d \in Engine
  BY <1>2 DEF WellFormed
<1>4. u = IF ~RequiredStatesKnown(obs) THEN c
          ELSE IF obs.emergencyStop = "yes" THEN LatchFault(d)
          ELSE IF d.phase = "external_running" /\ Stopped(obs) THEN Idle(d)
          ELSE d
  BY DEF Observe, d, i
<1>5. WellFormed(LatchFault(d)) /\ LatchFault(d).initialized
  BY <1>2, <1>3, LatchFaultFields DEF WellFormed, TimedPhases
<1>6. WellFormed(Idle(d)) /\ Idle(d).initialized
  BY <1>2, <1>3, IdleFields DEF WellFormed, TimedPhases
<1> HIDE DEF u
<1>7. c.phase = "fault" => c.initialized
  BY DEF WellFormed
<1> QED
  BY <1>2, <1>3, <1>4, <1>5, <1>6, <1>7, LatchFaultFields, IdleFields DEF u

-------------------------------------------------------------------------------
(***************************************************************************)
(* plan and step_authorized_shutdown.                                      *)
(***************************************************************************)

\* Every duration of a profile is a number of ticks.
LEMMA Durations ==
  /\ {ChokeMove, ChokeHold, StartTimeout, StopTimeout, Cooldown} \subseteq Nat
  /\ \A temperature \in Temperatures : Warmup[temperature] \in Nat
  /\ NoTimer \notin Nat
BY ProfileAssumption DEF NoTimer

\* The choke is accounted for: forgotten at rest, known of, or to be opened.
Reopens(out) ==
  out.g.phase = "idle" \/ Closable(out.g) \/ Presses(out.actions)

\* What every step of the controller guarantees of its outcome.
Sound(u, out) ==
  /\ WellFormed(out.g)
  /\ out.actions \in ActionLists
  /\ Closable(u) => Reopens(out)
  /\ out.actions = <<"choke_to_cold_start">> =>
       out.g.phase = "preparing" /\ out.g.chokeUsed
  /\ out.g.phase = "cooling_down" =>
       \/ out.g.deadline = Cooldown
       \/ u.phase = "cooling_down" /\ out.g.deadline = u.deadline

\* Doing nothing is sound.
LEMMA StaysSound ==
  ASSUME NEW c, WellFormed(c)
  PROVE  Sound(c, Stays(c))
BY DEF Sound, Reopens, Stays, Outcome, ActionLists

\* A step that goes to rest, or to a phase that takes the choke for open from
\* one that did already, needs no command.
LEMMA QuietSound ==
  ASSUME NEW c, WellFormed(c), c.initialized, NEW d \in Engine, d.initialized,
         d.phase \in TimedPhases <=> d.deadline # NoTimer,
         d.phase = "cooling_down" => d.deadline = Cooldown,
         ~Closable(c) \/ Closable(d) \/ d.phase = "idle"
  PROVE  Sound(c, Stays(d))
BY DEF Sound, Reopens, Stays, Outcome, ActionLists, WellFormed

\* A step with commands.
LEMMA ActiveSound ==
  ASSUME NEW c, WellFormed(c), c.initialized, NEW d \in Engine, d.initialized,
         d.phase \in TimedPhases <=> d.deadline # NoTimer,
         d.phase = "cooling_down" => d.deadline = Cooldown,
         NEW actions \in ActionLists \ {<<"choke_to_cold_start">>},
         ~Closable(c) \/ Closable(d) \/ Presses(actions)
  PROVE  Sound(c, Outcome(d, actions))
BY DEF Sound, Reopens, Outcome, WellFormed

\* A fault switches off and opens the choke.
LEMMA FaultActionsSound ==
  ASSUME NEW c, WellFormed(c), c.initialized
  PROVE  Sound(c, FaultActions(c))
<1>1. c \in Engine
  BY DEF WellFormed
<1>2. <<"remote_off", "choke_to_run">> \in ActionLists \ {<<"choke_to_cold_start">>}
  BY DEF ActionLists
<1> QED
  BY <1>1, <1>2, LatchFaultFields, PressesFacts, ActiveSound DEF FaultActions, TimedPhases

\* A cancelled start switches off and opens the choke.
LEMMA AbortStartSound ==
  ASSUME NEW c, WellFormed(c), c.initialized
  PROVE  Sound(c, AbortStart(c))
<1> DEFINE d == Enter(c, "waiting_for_stop", StopTimeout)
<1>1. d \in Engine /\ d.phase = "waiting_for_stop" /\ d.deadline = StopTimeout
      /\ d.initialized
  <2>1. c \in Engine /\ c.initialized /\ StopTimeout \in Nat \cup {NoTimer}
    BY Durations DEF WellFormed
  <2>2. "waiting_for_stop" \in GeneratorPhase
    BY DEF GeneratorPhase
  <2> QED
    BY <2>1, <2>2, Entered
<1>2. <<"remote_off", "choke_to_run">> \in ActionLists \ {<<"choke_to_cold_start">>}
  BY DEF ActionLists
<1>3. StopTimeout # NoTimer
  BY ProfileAssumption DEF NoTimer
<1>4. AbortStart(c) = Outcome(d, <<"remote_off", "choke_to_run">>)
  BY DEF AbortStart
<1> HIDE DEF d
<1> QED
  BY <1>1, <1>2, <1>3, <1>4, PressesFacts, ActiveSound DEF TimedPhases

\* Entering a phase, with or without a command.
LEMMA EnterSound ==
  ASSUME NEW c, WellFormed(c), c.initialized, NEW phase \in GeneratorPhase,
         NEW deadline \in Nat \cup {NoTimer},
         phase \in TimedPhases <=> deadline # NoTimer,
         phase = "cooling_down" => deadline = Cooldown,
         NEW actions \in ActionLists \ {<<"choke_to_cold_start">>},
         \/ c.phase \in SurePhases
         \/ phase = "idle" /\ actions = <<>>
         \/ phase \notin SurePhases \cup {"preparing", "waiting_for_running"}
         \/ phase = "waiting_for_running" /\ c.phase = "preparing"
         \/ phase = "warming_up" /\ c.phase = "waiting_for_running" /\ ~c.chokeUsed
         \/ Presses(actions)
  PROVE  Sound(c, Outcome(Enter(c, phase, deadline), actions))
<1> DEFINE d == Enter(c, phase, deadline)
<1>1. /\ d \in Engine /\ d.phase = phase /\ d.deadline = deadline
      /\ d.initialized /\ d.chokeUsed = c.chokeUsed
  BY Entered DEF WellFormed
<1> HIDE DEF d
<1>2. ~Closable(c) \/ Closable(d) \/ (d.phase = "idle" /\ actions = <<>>) \/ Presses(actions)
  BY <1>1 DEF Closable, SurePhases
<1>3. Sound(c, Outcome(d, actions))
  BY <1>1, <1>2, QuietSound, ActiveSound DEF Stays
<1> QED
  BY <1>3 DEF d

\* Going to rest is sound; the history variable records a closed choke.
LEMMA IdleSound ==
  ASSUME NEW c, WellFormed(c), c.initialized
  PROVE  Sound(c, Stays(Idle(c)))
BY IdleFields, QuietSound DEF WellFormed, TimedPhases

\* The command lists without a closing press.
LEMMA QuietLists ==
  {<<>>, <<"remote_on">>, <<"remote_off">>, <<"choke_to_run">>,
   <<"choke_to_run", "remote_off">>} \subseteq ActionLists \ {<<"choke_to_cold_start">>}
BY DEF ActionLists, GeneratorActionKind

\* A start closes the choke only if it remembers to.
LEMMA BeginStartSound ==
  ASSUME NEW c, WellFormed(c), c.initialized, c.phase = "idle", NEW obs \in Observation
  PROVE  Sound(c, BeginStart(c, obs))
<1> DEFINE e == Enter(c, "preparing", ChokeMove)
           close == obs.temperature \in ClosesChoke
           d == [e EXCEPT !.startTemperature = obs.temperature, !.chokeUsed = close]
           actions == IF close THEN <<"choke_to_cold_start">> ELSE <<"choke_to_run">>
<1>1. /\ e \in Engine /\ e.phase = "preparing" /\ e.deadline = ChokeMove
      /\ e.initialized
  <2>1. c \in Engine /\ c.initialized /\ ChokeMove \in Nat \cup {NoTimer}
    BY Durations DEF WellFormed
  <2>2. "preparing" \in GeneratorPhase
    BY DEF GeneratorPhase
  <2> QED
    BY <2>1, <2>2, Entered
<1>2. obs.temperature \in Temperatures /\ ChokeMove # NoTimer
  BY ProfileAssumption DEF Observation, NoTimer
<1>3. /\ d \in Engine /\ d.phase = "preparing" /\ d.deadline # NoTimer
      /\ d.initialized /\ d.chokeUsed = close
  <2> HIDE DEF e
  <2>1. close \in BOOLEAN
    OBVIOUS
  <2> HIDE DEF close
  <2> QED
    BY <1>1, <1>2, <2>1 DEF Engine
<1>4. BeginStart(c, obs) = Outcome(d, actions)
  BY DEF BeginStart
<1>5. actions \in ActionLists /\ (actions = <<"choke_to_cold_start">> => close)
  BY DEF ActionLists, GeneratorActionKind
<1>6. WellFormed(d)
  BY <1>3 DEF WellFormed, TimedPhases
<1>7. ~Closable(c)
  BY DEF Closable, SurePhases
<1> HIDE DEF d, actions, close
<1> QED
  BY <1>3, <1>4, <1>5, <1>6, <1>7 DEF Sound, Reopens, Outcome

\* The durations a phase with a deadline is entered with.
LEMMA Timers ==
  /\ \A d \in {StartTimeout, StopTimeout, Cooldown, ChokeHold} :
       d \in Nat \cup {NoTimer} /\ d # NoTimer
  /\ \A temperature \in Temperatures :
       Warmup[temperature] \in Nat \cup {NoTimer} /\ Warmup[temperature] # NoTimer
BY Durations

\* plan in IDLE.
LEMMA PlanIdleSound ==
  ASSUME NEW c, WellFormed(c), c.initialized, c.phase = "idle",
         NEW obs \in Observation, NEW desired \in BOOLEAN
  PROVE  Sound(c, PlanIdle(c, obs, desired))
<1> DEFINE d == [c EXCEPT !.phase = "external_running"]
<1>1. c \in Engine /\ c.deadline = NoTimer
  BY DEF WellFormed, TimedPhases
<1>2. /\ d \in Engine /\ d.phase = "external_running"
      /\ d.deadline = NoTimer /\ d.initialized
  BY <1>1 DEF Engine, GeneratorPhase
<1> HIDE DEF d
<1>3. Closable(d)
  BY <1>2 DEF Closable, SurePhases
<1>4. Sound(c, Stays(d))
  BY <1>2, <1>3, QuietSound DEF TimedPhases
<1>5. PlanIdle(c, obs, desired) \in {Stays(d), BeginStart(c, obs), Stays(c)}
  BY DEF PlanIdle, d
<1> QED
  BY <1>4, <1>5, BeginStartSound, StaysSound

\* plan in PREPARING.
LEMMA PlanPreparingSound ==
  ASSUME NEW c, WellFormed(c), c.initialized, c.phase = "preparing",
         NEW obs \in Observation, NEW desired \in BOOLEAN
  PROVE  Sound(c, PlanPreparing(c, obs, desired))
<1> DEFINE out == Outcome(Enter(c, "waiting_for_running", StartTimeout), <<"remote_on">>)
<1>1. <<"remote_on">> \in ActionLists \ {<<"choke_to_cold_start">>}
  BY QuietLists
<1>2. "waiting_for_running" \in GeneratorPhase /\ "waiting_for_running" \in TimedPhases
  BY DEF GeneratorPhase, TimedPhases
<1>3. StartTimeout \in Nat \cup {NoTimer} /\ StartTimeout # NoTimer
  BY Timers
<1>4. Sound(c, out)
  BY <1>1, <1>2, <1>3, EnterSound
<1>5. PlanPreparing(c, obs, desired) \in {AbortStart(c), FaultActions(c), out, Stays(c)}
  BY DEF PlanPreparing
<1> QED
  BY <1>4, <1>5, AbortStartSound, FaultActionsSound, StaysSound

\* _running_confirmed holds a closed choke and warms up with an open one.
LEMMA RunningConfirmedSound ==
  ASSUME NEW c, WellFormed(c), c.initialized, c.phase = "waiting_for_running"
  PROVE  Sound(c, Stays(RunningConfirmed(c)))
<1>1. <<>> \in ActionLists \ {<<"choke_to_cold_start">>}
  BY QuietLists
<1>2. /\ {"holding_cold_start_choke", "warming_up"} \subseteq GeneratorPhase
      /\ {"holding_cold_start_choke", "warming_up"} \subseteq TimedPhases
      /\ "holding_cold_start_choke" \notin SurePhases
  BY DEF GeneratorPhase, TimedPhases, SurePhases
<1>3. c.startTemperature \in Temperatures
  BY DEF WellFormed, Engine
<1>4. CASE c.chokeUsed
  <2>1. ChokeHold \in Nat \cup {NoTimer} /\ ChokeHold # NoTimer
    BY Timers
  <2>2. Sound(c, Outcome(Enter(c, "holding_cold_start_choke", ChokeHold), <<>>))
    BY <1>1, <1>2, <2>1, EnterSound
  <2> QED
    BY <1>4, <2>2 DEF RunningConfirmed, Stays
<1>5. CASE ~c.chokeUsed
  <2> DEFINE w == Warmup[c.startTemperature]
  <2>1. w \in Nat \cup {NoTimer} /\ w # NoTimer
    BY <1>3, Timers
  <2>2. Sound(c, Outcome(Enter(c, "warming_up", w), <<>>))
    <3> HIDE DEF w
    <3> QED
      BY <1>1, <1>2, <1>5, <2>1, EnterSound
  <2> QED
    BY <1>5, <2>2 DEF RunningConfirmed, Stays
<1> QED
  BY <1>4, <1>5

\* plan in WAITING_FOR_RUNNING.
LEMMA PlanWaitingForRunningSound ==
  ASSUME NEW c, WellFormed(c), c.initialized, c.phase = "waiting_for_running",
         NEW obs \in Observation, NEW desired \in BOOLEAN
  PROVE  Sound(c, PlanWaitingForRunning(c, obs, desired))
<1>1. PlanWaitingForRunning(c, obs, desired) \in
        {AbortStart(c), FaultActions(c), Stays(RunningConfirmed(c)), Stays(c)}
  BY DEF PlanWaitingForRunning
<1> QED
  BY <1>1, AbortStartSound, FaultActionsSound, RunningConfirmedSound, StaysSound

\* plan in HOLDING_COLD_START_CHOKE.
LEMMA PlanHoldingSound ==
  ASSUME NEW c, WellFormed(c), c.initialized, c.phase = "holding_cold_start_choke",
         NEW obs \in Observation, NEW desired \in BOOLEAN
  PROVE  Sound(c, PlanHolding(c, obs, desired))
<1> DEFINE w == Warmup[c.startTemperature]
           out == Outcome(Enter(c, "warming_up", w), <<"choke_to_run">>)
<1>1. <<"choke_to_run">> \in ActionLists \ {<<"choke_to_cold_start">>}
  BY QuietLists
<1>2. "warming_up" \in GeneratorPhase /\ "warming_up" \in TimedPhases
  BY DEF GeneratorPhase, TimedPhases
<1>3. w \in Nat \cup {NoTimer} /\ w # NoTimer
  BY Timers DEF WellFormed, Engine
<1>4. Sound(c, out)
  <2> HIDE DEF w
  <2> QED
    BY <1>1, <1>2, <1>3, EnterSound, PressesFacts
<1>5. PlanHolding(c, obs, desired) \in {AbortStart(c), FaultActions(c), out, Stays(c)}
  BY DEF PlanHolding
<1> QED
  BY <1>4, <1>5, AbortStartSound, FaultActionsSound, StaysSound

\* Entering ready_for_load from a phase that takes the choke for open.
LEMMA ReadySound ==
  ASSUME NEW c, WellFormed(c), c.initialized, c.phase \in SurePhases,
         NEW actions \in {<<>>, <<"remote_on">>}
  PROVE  Sound(c, Outcome(Enter(c, "ready_for_load", NoTimer), actions))
<1>1. actions \in ActionLists \ {<<"choke_to_cold_start">>}
  BY QuietLists
<1>2. "ready_for_load" \in GeneratorPhase /\ "ready_for_load" \notin TimedPhases
  BY DEF GeneratorPhase, TimedPhases
<1> QED
  BY <1>1, <1>2, EnterSound

\* plan in WARMING_UP.
LEMMA PlanWarmingUpSound ==
  ASSUME NEW c, WellFormed(c), c.initialized, c.phase = "warming_up",
         NEW obs \in Observation, NEW desired \in BOOLEAN
  PROVE  Sound(c, PlanWarmingUp(c, obs, desired))
<1>1. Sound(c, Stays(Enter(c, "ready_for_load", NoTimer)))
  BY ReadySound DEF Stays, SurePhases
<1>2. PlanWarmingUp(c, obs, desired) \in
        {AbortStart(c), FaultActions(c), Stays(Enter(c, "ready_for_load", NoTimer)), Stays(c)}
  BY DEF PlanWarmingUp
<1> QED
  BY <1>1, <1>2, AbortStartSound, FaultActionsSound, StaysSound

\* Starting a cooldown, from a phase that takes the choke for open.
LEMMA StartCooldownSound ==
  ASSUME NEW c, WellFormed(c), c.initialized, c.phase \in SurePhases
  PROVE  Sound(c, Stays(StartCooldown(c)))
<1>1. <<>> \in ActionLists \ {<<"choke_to_cold_start">>}
  BY QuietLists
<1>2. "cooling_down" \in GeneratorPhase /\ "cooling_down" \in TimedPhases
  BY DEF GeneratorPhase, TimedPhases
<1>3. Cooldown \in Nat \cup {NoTimer} /\ Cooldown # NoTimer
  BY Timers
<1> QED
  BY <1>1, <1>2, <1>3, EnterSound DEF StartCooldown, Stays

\* plan in READY_FOR_LOAD.
LEMMA PlanReadySound ==
  ASSUME NEW c, WellFormed(c), c.initialized, c.phase = "ready_for_load",
         NEW obs \in Observation, NEW desired \in BOOLEAN
  PROVE  Sound(c, PlanReady(c, obs, desired))
<1> DEFINE release == Stays(Enter(c, "waiting_for_load_release", NoTimer))
<1>1. c.phase \in SurePhases
  BY DEF SurePhases
<1>2. Sound(c, release)
  <2>1. <<>> \in ActionLists \ {<<"choke_to_cold_start">>}
    BY QuietLists
  <2>2. /\ "waiting_for_load_release" \in GeneratorPhase
        /\ "waiting_for_load_release" \notin TimedPhases
    BY DEF GeneratorPhase, TimedPhases
  <2> QED
    BY <1>1, <2>1, <2>2, EnterSound DEF Stays
<1>3. PlanReady(c, obs, desired) \in
        {Stays(Idle(c)), FaultActions(c), Stays(c), Stays(StartCooldown(c)), release}
  BY DEF PlanReady
<1> QED
  BY <1>1, <1>2, <1>3, IdleSound, FaultActionsSound, StaysSound, StartCooldownSound

\* plan in WAITING_FOR_LOAD_RELEASE.
LEMMA PlanLoadReleaseSound ==
  ASSUME NEW c, WellFormed(c), c.initialized, c.phase = "waiting_for_load_release",
         NEW obs \in Observation, NEW desired \in BOOLEAN
  PROVE  Sound(c, PlanLoadRelease(c, obs, desired))
<1> DEFINE d == [c EXCEPT !.phase = "ready_for_load"]
<1>1. c.phase \in SurePhases
  BY DEF SurePhases
<1>2. Sound(c, Stays(d))
  <2>1. c \in Engine /\ c.deadline = NoTimer
    BY DEF WellFormed, TimedPhases
  <2>2. /\ d \in Engine /\ d.phase = "ready_for_load"
        /\ d.deadline = NoTimer /\ d.initialized
    BY <2>1 DEF Engine, GeneratorPhase
  <2> HIDE DEF d
  <2> QED
    BY <1>1, <2>2, QuietSound DEF TimedPhases, Closable
<1>3. PlanLoadRelease(c, obs, desired) \in
        {Stays(Idle(c)), FaultActions(c), Stays(d), Stays(StartCooldown(c)), Stays(c)}
  BY DEF PlanLoadRelease
<1> QED
  BY <1>1, <1>2, <1>3, IdleSound, FaultActionsSound, StaysSound, StartCooldownSound

\* Switching off, from a phase that takes the choke for open.
LEMMA RemoteOffSound ==
  ASSUME NEW c, WellFormed(c), c.initialized, c.phase \in SurePhases
  PROVE  Sound(c, RemoteOff(c))
<1>1. <<"remote_off">> \in ActionLists \ {<<"choke_to_cold_start">>}
  BY QuietLists
<1>2. "waiting_for_stop" \in GeneratorPhase /\ "waiting_for_stop" \in TimedPhases
  BY DEF GeneratorPhase, TimedPhases
<1>3. StopTimeout \in Nat \cup {NoTimer} /\ StopTimeout # NoTimer
  BY Timers
<1> QED
  BY <1>1, <1>2, <1>3, EnterSound DEF RemoteOff

\* plan in COOLING_DOWN.
LEMMA PlanCoolingSound ==
  ASSUME NEW c, WellFormed(c), c.initialized, c.phase = "cooling_down",
         NEW obs \in Observation, NEW desired \in BOOLEAN
  PROVE  Sound(c, PlanCooling(c, obs, desired))
<1>1. c.phase \in SurePhases
  BY DEF SurePhases
<1>2. Sound(c, Stays(Enter(c, "ready_for_load", NoTimer)))
  BY <1>1, ReadySound DEF Stays
<1>3. PlanCooling(c, obs, desired) \in
        {Stays(Idle(c)), FaultActions(c), Stays(Enter(c, "ready_for_load", NoTimer)),
         RemoteOff(c), Stays(c)}
  BY DEF PlanCooling
<1> QED
  BY <1>1, <1>2, <1>3, IdleSound, FaultActionsSound, RemoteOffSound, StaysSound

\* plan in WAITING_FOR_STOP.
LEMMA PlanStoppingSound ==
  ASSUME NEW c, WellFormed(c), c.initialized, c.phase = "waiting_for_stop",
         NEW obs \in Observation, NEW desired \in BOOLEAN
  PROVE  Sound(c, PlanStopping(c, obs, desired))
<1> DEFINE ready == Outcome(Enter(c, "ready_for_load", NoTimer), <<"remote_on">>)
           again == Outcome(Enter(c, "waiting_for_running", StartTimeout), <<"remote_on">>)
<1>1. c.phase \in SurePhases
  BY DEF SurePhases
<1>2. Sound(c, ready)
  BY <1>1, ReadySound
<1>3. Sound(c, again)
  <2>1. <<"remote_on">> \in ActionLists \ {<<"choke_to_cold_start">>}
    BY QuietLists
  <2>2. "waiting_for_running" \in GeneratorPhase /\ "waiting_for_running" \in TimedPhases
    BY DEF GeneratorPhase, TimedPhases
  <2>3. StartTimeout \in Nat \cup {NoTimer} /\ StartTimeout # NoTimer
    BY Timers
  <2> QED
    BY <1>1, <2>1, <2>2, <2>3, EnterSound
<1>4. PlanStopping(c, obs, desired) \in
        {Stays(Idle(c)), ready, again, FaultActions(c), Stays(c)}
  BY DEF PlanStopping
<1> QED
  BY <1>2, <1>3, <1>4, IdleSound, FaultActionsSound, StaysSound

\* plan in any phase.
LEMMA PlanSound ==
  ASSUME NEW c, WellFormed(c), NEW obs \in Observation,
         RequiredStatesKnown(obs) => c.initialized,
         NEW desired \in BOOLEAN, NEW allowed \in BOOLEAN
  PROVE  Sound(c, Plan(c, obs, desired, allowed))
<1>1. CASE ~RequiredStatesKnown(obs) \/ obs.emergencyStop = "yes" \/ ~allowed
  BY <1>1, StaysSound DEF Plan
<1>2. CASE ~(~RequiredStatesKnown(obs) \/ obs.emergencyStop = "yes" \/ ~allowed)
  <2>1. c.initialized
    BY <1>2
  <2> QED
    BY <1>2, <2>1, PlanIdleSound, PlanPreparingSound, PlanWaitingForRunningSound,
       PlanHoldingSound, PlanWarmingUpSound, PlanReadySound, PlanLoadReleaseSound,
       PlanCoolingSound, PlanStoppingSound, StaysSound DEF Plan
<1> QED
  BY <1>1, <1>2

\* Two commands in a row.
LEMMA TwoCommands ==
  ASSUME NEW S, NEW a \in S, NEW b \in S
  PROVE  <<a>> \o <<b>> = <<a, b>>
<1> DEFINE s == <<a>> \o <<b>>
<1>1. s \in Seq(S) /\ <<a, b>> \in Seq(S) /\ Len(<<a, b>>) = 2
  OBVIOUS
<1>2. Len(s) = 2 /\ s[1] = a /\ s[2] = b
  OBVIOUS
<1> HIDE DEF s
<1>3. \A i \in 1..Len(s) : s[i] = <<a, b>>[i]
  BY <1>2
<1>4. s = <<a, b>>
  BY <1>1, <1>2, <1>3, SeqEqual
<1> QED
  BY <1>4 DEF s

\* step_authorized_shutdown, which opens an uncertain choke first.
LEMMA AuthorizedShutdownSound ==
  ASSUME NEW c, WellFormed(c), NEW obs \in Observation,
         RequiredStatesKnown(obs) => c.initialized
  PROVE  Sound(c, AuthorizedShutdown(c, obs))
<1>1. CASE \/ ~RequiredStatesKnown(obs)
           \/ obs.emergencyStop # "no"
           \/ LoadConnected(obs) # "no"
  BY <1>1, StaysSound DEF AuthorizedShutdown
<1>2. CASE ~(\/ ~RequiredStatesKnown(obs)
             \/ obs.emergencyStop # "no"
             \/ LoadConnected(obs) # "no")
  <2> DEFINE opens == IF ChokeUncertain(c) THEN <<"choke_to_run">> ELSE <<>>
             cooled == Outcome(StartCooldown(c), opens)
             stopped == Outcome(RemoteOff(c).g, opens \o RemoteOff(c).actions)
  <2>1. c.initialized /\ c \in Engine
    BY <1>2 DEF WellFormed
  <2>2. [c EXCEPT !.initialized = TRUE] = c
    <3>1. c.initialized = TRUE
      BY <2>1 DEF Engine
    <3> QED
      BY <2>1, <3>1 DEF Engine
  <2>3. AuthorizedShutdown(c, obs) =
          IF Stopped(obs) THEN Stays(Idle(c))
          ELSE IF c.phase = "waiting_for_stop"
          THEN Stays(IF Expired(c) THEN LatchFault(c) ELSE c)
          ELSE IF c.phase = "cooling_down"
          THEN IF obs.running = "no" \/ Expired(c) THEN RemoteOff(c) ELSE Stays(c)
          ELSE IF obs.running = "yes" THEN cooled
          ELSE stopped
    BY <1>2, <2>2 DEF AuthorizedShutdown
  <2>4. \/ ChokeUncertain(c) /\ opens = <<"choke_to_run">>
        \/ c.phase \in SurePhases /\ opens = <<>>
    BY <2>1 DEF ChokeUncertain, SurePhases, Engine, GeneratorPhase
  <2> HIDE DEF opens
  <2>5. /\ {"cooling_down", "waiting_for_stop"} \subseteq GeneratorPhase
        /\ {"cooling_down", "waiting_for_stop"} \subseteq TimedPhases
    BY DEF GeneratorPhase, TimedPhases
  <2>6. /\ Cooldown \in Nat \cup {NoTimer} /\ Cooldown # NoTimer
        /\ StopTimeout \in Nat \cup {NoTimer} /\ StopTimeout # NoTimer
    BY Timers
  <2>7. Sound(c, cooled)
    <3>1. opens \in ActionLists \ {<<"choke_to_cold_start">>}
      BY <2>4, QuietLists
    <3>2. c.phase \in SurePhases \/ Presses(opens)
      BY <2>4, PressesFacts
    <3> QED
      BY <2>1, <2>5, <2>6, <3>1, <3>2, EnterSound DEF StartCooldown
  <2>8. Sound(c, stopped)
    <3> DEFINE both == opens \o <<"remote_off">>
    <3>1. \/ ChokeUncertain(c) /\ both = <<"choke_to_run", "remote_off">>
          \/ c.phase \in SurePhases /\ both = <<"remote_off">>
      <4>1. /\ <<"choke_to_run">> \o <<"remote_off">> = <<"choke_to_run", "remote_off">>
            /\ <<>> \o <<"remote_off">> = <<"remote_off">>
        <5>1. /\ "choke_to_run" \in GeneratorActionKind
              /\ "remote_off" \in GeneratorActionKind
          BY DEF GeneratorActionKind
        <5>2. <<"remote_off">> \in Seq(GeneratorActionKind)
          BY <5>1
        <5> QED
          BY <5>1, <5>2, TwoCommands, ConcatEmptySeq
      <4> QED
        BY <2>4, <4>1, Zenon
    <3>2. stopped = Outcome(Enter(c, "waiting_for_stop", StopTimeout), both)
      BY DEF RemoteOff, Outcome
    <3> HIDE DEF both
    <3>3. both \in ActionLists \ {<<"choke_to_cold_start">>}
      BY <3>1, QuietLists
    <3>4. c.phase \in SurePhases \/ Presses(both)
      BY <3>1, PressesFacts
    <3>5. Sound(c, Outcome(Enter(c, "waiting_for_stop", StopTimeout), both))
      BY <2>1, <2>5, <2>6, <3>3, <3>4, EnterSound
    <3> QED
      BY <3>2, <3>5
  <2>9. c.phase = "waiting_for_stop" => Sound(c, Stays(LatchFault(c)))
    BY <2>1, LatchFaultFields, QuietSound DEF Closable, SurePhases, TimedPhases
  <2>10. c.phase = "cooling_down" => Sound(c, RemoteOff(c))
    BY <2>1, RemoteOffSound DEF SurePhases
  <2> HIDE DEF cooled, stopped
  <2> QED
    BY <2>1, <2>3, <2>7, <2>8, <2>9, <2>10, IdleSound, StaysSound
<1> QED
  BY <1>1, <1>2

\* reset_if_safe.
LEMMA ResetIfSafeSound ==
  ASSUME NEW c, WellFormed(c), NEW obs \in Observation,
         RequiredStatesKnown(obs) => c.initialized
  PROVE  Sound(c, Stays(ResetIfSafe(c, obs)))
<1>1. CASE RequiredStatesKnown(obs) /\ obs.emergencyStop = "no" /\ Stopped(obs)
  <2>1. c.initialized /\ c \in Engine
    BY <1>1 DEF WellFormed
  <2>2. Idle(c) \in Engine /\ Idle(c).initialized = TRUE
    BY <2>1, IdleFields DEF Engine
  <2>3. [Idle(c) EXCEPT !.initialized = TRUE] = Idle(c)
    BY <2>2 DEF Engine
  <2>4. ResetIfSafe(c, obs) = Idle(c)
    BY <1>1, <2>3 DEF ResetIfSafe
  <2> QED
    BY <2>1, <2>4, IdleSound
<1>2. CASE ~(RequiredStatesKnown(obs) /\ obs.emergencyStop = "no" /\ Stopped(obs))
  BY <1>2, StaysSound DEF ResetIfSafe
<1> QED
  BY <1>1, <1>2

\* An idle controller at a stopped engine that starts it presses the choke one
\* way or the other.
LEMMA RestReopens ==
  ASSUME NEW c, WellFormed(c), c.initialized, c.phase = "idle",
         NEW obs \in Observation, Stopped(obs),
         NEW desired \in BOOLEAN, NEW allowed \in BOOLEAN
  PROVE  /\ Reopens(Plan(c, obs, desired, allowed))
         /\ Reopens(AuthorizedShutdown(c, obs))
         /\ Reopens(Stays(ResetIfSafe(c, obs)))
<1>1. c \in Engine /\ c.initialized = TRUE
  BY DEF WellFormed, Engine
<1>2. Reopens(Stays(c))
  BY DEF Reopens, Stays, Outcome
<1>3. /\ Idle(c) \in Engine /\ Idle(c).phase = "idle" /\ Idle(c).initialized = TRUE
  BY <1>1, IdleFields
<1>4. [c EXCEPT !.initialized = TRUE] = c /\ [Idle(c) EXCEPT !.initialized = TRUE] = Idle(c)
  BY <1>1, <1>3 DEF Engine
<1>5. Reopens(Stays(Idle(c)))
  BY <1>3 DEF Reopens, Stays, Outcome
<1>6. Reopens(BeginStart(c, obs))
  <2> DEFINE e == Enter(c, "preparing", ChokeMove)
             close == obs.temperature \in ClosesChoke
             d == [e EXCEPT !.startTemperature = obs.temperature, !.chokeUsed = close]
             actions == IF close THEN <<"choke_to_cold_start">> ELSE <<"choke_to_run">>
  <2>1. e \in Engine /\ e.phase = "preparing"
    <3>1. ChokeMove \in Nat \cup {NoTimer} /\ "preparing" \in GeneratorPhase
      BY Durations DEF GeneratorPhase
    <3> QED
      BY <1>1, <3>1, Entered
  <2>2. d.phase = "preparing" /\ d.chokeUsed = close
    <3> HIDE DEF e, close
    <3> QED
      BY <2>1 DEF Engine
  <2>3. BeginStart(c, obs) = Outcome(d, actions)
    BY DEF BeginStart
  <2>4. close \/ Presses(actions)
    BY PressesFacts
  <2> HIDE DEF d, actions, close
  <2> QED
    BY <2>2, <2>3, <2>4 DEF Reopens, Outcome, Closable, SurePhases
<1>7. Plan(c, obs, desired, allowed) \in {Stays(c), BeginStart(c, obs)}
  BY DEF Plan, PlanIdle, Stopped
<1>8. AuthorizedShutdown(c, obs) \in {Stays(c), Stays(Idle(c))}
  BY <1>4 DEF AuthorizedShutdown
<1>9. ResetIfSafe(c, obs) \in {c, Idle(c)}
  BY <1>4 DEF ResetIfSafe
<1> QED
  BY <1>2, <1>5, <1>6, <1>7, <1>8, <1>9

-------------------------------------------------------------------------------
(***************************************************************************)
(* The system.                                                             *)
(***************************************************************************)

\* The start is a state of the invariant.
LEMMA InitEngineInv == Init => EngineInv
<1> SUFFICES ASSUME Init PROVE EngineInv
  OBVIOUS
<1>1. o \in Observation
  BY DEF Init, Observation, Tri, BusReading
<1>2. o.temperature \in Temperatures
  BY <1>1 DEF Observation
<1>3. /\ g \in Engine /\ g.phase = "waiting_for_data"
      /\ g.deadline = NoTimer /\ ~g.initialized
  BY <1>2 DEF Init, NewController, Engine, GeneratorPhase
<1>4. WellFormed(g)
  BY <1>3 DEF WellFormed, TimedPhases
<1>5. 0 \in 0..Cooldown
  BY ProfileAssumption
<1> QED
  BY <1>1, <1>3, <1>4, <1>5
     DEF Init, EngineInv, TypeOK, Wants, ActionLists, ChokeAccounted, ClosingIsMeant,
         CooldownAccounted

\* Rest adds up.
LEMMA AddingRest == \A d, rest \in Nat : d + rest >= d
OBVIOUS

\* A tick of rest makes up for a tick of the deadline.
LEMMA LongerFacts ==
  ASSUME restFor \in 0..Cooldown
  PROVE  /\ Longer \in 0..Cooldown
         /\ \A d \in Nat : d + restFor >= Cooldown =>
              IF d > 0 THEN d - 1 + Longer >= Cooldown ELSE d + Longer >= Cooldown
BY ProfileAssumption DEF Longer

\* A tick with a sound outcome keeps the invariant.
LEMMA TickKeepsInv ==
  ASSUME EngineInv, pending = <<>>, NEW stable \in BOOLEAN, NEW out,
         Sound(Observed(stable), out),
         Observed(stable).phase = "idle" /\ Stopped(o) => Reopens(out),
         g' = out.g, UNCHANGED <<o, want, choke>>,
         \/ /\ pending' = out.actions
            /\ chokeForgotten' = (chokeForgotten \/ ForgetsChoke(Observed(stable), out.g))
         \/ /\ pending' = <<>>
            /\ chokeForgotten' = (\/ chokeForgotten \/ ForgetsChoke(Observed(stable), out.g)
                                  \/ Presses(out.actions)),
         \/ restFor' = Longer
         \/ restFor' = 0 /\ (out.g.phase = "cooling_down" => out.g.deadline = Cooldown)
  PROVE  EngineInv'
<1> DEFINE e == Elapse(g)
           u == Observed(stable)
           v == out.g
<1>1. /\ WellFormed(e) /\ e.phase = g.phase /\ e.chokeUsed = g.chokeUsed
      /\ e.initialized = g.initialized
      /\ e.deadline = IF g.deadline > 0 THEN g.deadline - 1 ELSE g.deadline
  BY ElapseFields DEF EngineInv
<1>2. /\ WellFormed(u)
      /\ \/ u = e
         \/ u.phase = "fault"
         \/ u.phase = "idle" /\ Stopped(o)
         \/ ~e.initialized /\ u.phase \in {"external_running", "ready_for_load",
                                           "holding_cold_start_choke"}
  <2>1. o \in Observation
    BY DEF EngineInv, TypeOK
  <2> QED
    BY <1>1, <2>1, ObserveFields DEF Observed
<1> HIDE DEF e, u
<1>3. /\ WellFormed(v) /\ out.actions \in ActionLists
      /\ Closable(u) => Reopens(out)
      /\ u.phase = "idle" /\ Stopped(o) => Reopens(out)
      /\ out.actions = <<"choke_to_cold_start">> => v.phase = "preparing" /\ v.chokeUsed
      /\ v.phase = "cooling_down" =>
           \/ v.deadline = Cooldown
           \/ u.phase = "cooling_down" /\ v.deadline = u.deadline
  BY DEF Sound, u
<1>4. chokeForgotten' \in BOOLEAN /\ pending' \in ActionLists /\ restFor' \in 0..Cooldown
  <2>1. chokeForgotten \in BOOLEAN /\ restFor \in 0..Cooldown
    BY DEF EngineInv, TypeOK
  <2>2. pending' \in ActionLists
    BY <1>3 DEF ActionLists
  <2>3. restFor' \in 0..Cooldown
    BY <2>1, LongerFacts, ProfileAssumption
  <2>4. chokeForgotten' \in BOOLEAN
    BY DEF Presses, ForgetsChoke
  <2> QED
    BY <2>2, <2>3, <2>4
<1>5. TypeOK'
  BY <1>3, <1>4 DEF EngineInv, TypeOK, WellFormed
<1>6. WellFormed(g')
  BY <1>3
<1>7. ChokeAccounted'
  <2> SUFFICES ASSUME choke = "cold_start", ~chokeForgotten'
               PROVE  Closable(v) \/ Presses(pending')
    BY DEF ChokeAccounted
  <2>1. ~chokeForgotten /\ ~ForgetsChoke(u, v)
    BY DEF u
  <2>2. v.phase # "idle" /\ (~g.initialized => u.phase # "ready_for_load")
    BY <2>1 DEF ForgetsChoke
  <2>3. Closable(g)
    BY <2>1, PressesFacts DEF EngineInv, ChokeAccounted
  <2>4. Closable(u) \/ (u.phase = "idle" /\ Stopped(o))
    BY <1>1, <1>2, <2>2, <2>3 DEF Closable, SurePhases
  <2>5. Closable(v) \/ Presses(out.actions)
    BY <1>3, <2>2, <2>4 DEF Reopens
  <2>6. pending' = out.actions \/ ~Presses(out.actions)
    OBVIOUS
  <2> QED
    BY <2>5, <2>6
<1>8. ClosingIsMeant'
  BY <1>3 DEF ClosingIsMeant
<1>9. CooldownAccounted'
  <2> SUFFICES ASSUME v.phase = "cooling_down"
               PROVE  v.deadline + restFor' >= Cooldown
    BY DEF CooldownAccounted
  <2>1. CASE v.deadline = Cooldown
    <3>1. restFor' \in Nat /\ Cooldown \in Nat
      BY <1>4, ProfileAssumption
    <3>2. Cooldown + restFor' >= Cooldown
      BY <3>1, AddingRest, Zenon
    <3> HIDE DEF v
    <3> QED
      BY <2>1, <3>2, Zenon
  <2>2. CASE v.deadline # Cooldown
    <3>1. u.phase = "cooling_down" /\ v.deadline = u.deadline /\ restFor' = Longer
      BY <1>3, <2>2
    <3>2. u = e
      BY <1>2, <3>1
    <3>3. g.phase = "cooling_down" /\ g \in Engine /\ g.deadline # NoTimer
      BY <1>1, <3>1, <3>2 DEF EngineInv, WellFormed, TimedPhases
    <3>4. g.deadline \in Nat /\ g.deadline + restFor >= Cooldown /\ restFor \in 0..Cooldown
      BY <3>3 DEF EngineInv, CooldownAccounted, TypeOK, Engine
    <3>5. restFor' >= 0 /\ Longer \in 0..Cooldown
      BY <3>4, LongerFacts, ProfileAssumption
    <3>6. v.deadline = IF g.deadline > 0 THEN g.deadline - 1 ELSE g.deadline
      BY <1>1, <3>1, <3>2
    <3> HIDE DEF v
    <3>7. v.deadline + Longer >= Cooldown
      BY <3>4, <3>6, LongerFacts
    <3> QED
      BY <3>1, <3>7
  <2> QED
    BY <2>1, <2>2
<1> HIDE DEF v
<1> QED
  BY <1>5, <1>6, <1>7, <1>8, <1>9 DEF EngineInv

\* The environment and the clock keep the invariant.
LEMMA EnvironmentKeepsInv == EngineInv /\ (Environment \/ TimePasses) => EngineInv'
<1> SUFFICES ASSUME EngineInv, Environment \/ TimePasses PROVE EngineInv'
  OBVIOUS
<1>1. CASE Environment
  <2>1. o' \in Observation
    BY <1>1 DEF Environment, EngineChanges, RemoteChanges, EmergencyStopChanges,
                BusChanges, TemperatureChanges, WantChanges, EngineInv, TypeOK,
                Observation, Tri
  <2>2. want' \in Wants /\ UNCHANGED <<g, choke, pending, chokeForgotten, restFor>>
    BY <1>1 DEF Environment, EngineChanges, RemoteChanges, EmergencyStopChanges,
                BusChanges, TemperatureChanges, WantChanges, EngineInv, TypeOK
  <2> QED
    BY <2>1, <2>2 DEF EngineInv, TypeOK, ChokeAccounted, ClosingIsMeant, CooldownAccounted
<1>2. CASE TimePasses
  <2>1. /\ WellFormed(g') /\ g'.phase = g.phase /\ g'.chokeUsed = g.chokeUsed
        /\ g'.deadline = IF g.deadline > 0 THEN g.deadline - 1 ELSE g.deadline
    BY <1>2, ElapseFields DEF EngineInv, TimePasses
  <2>2. /\ restFor' = IF g.phase = "cooling_down" THEN Longer ELSE restFor
        /\ restFor \in 0..Cooldown /\ Longer \in 0..Cooldown
    BY <1>2, LongerFacts DEF EngineInv, TypeOK, TimePasses
  <2>3. TypeOK'
    BY <1>2, <2>1, <2>2 DEF TimePasses, EngineInv, TypeOK, WellFormed
  <2>4. ChokeAccounted' /\ ClosingIsMeant'
    BY <1>2, <2>1 DEF TimePasses, EngineInv, ChokeAccounted, ClosingIsMeant, Closable
  <2>5. CooldownAccounted'
    <3>1. CASE g.phase # "cooling_down"
      BY <2>1, <3>1 DEF CooldownAccounted
    <3>2. CASE g.phase = "cooling_down"
      <4>1. g.deadline \in Nat /\ g.deadline + restFor >= Cooldown /\ restFor \in 0..Cooldown
        BY <3>2 DEF EngineInv, WellFormed, CooldownAccounted, TypeOK, Engine, TimedPhases
      <4>2. g'.deadline + Longer >= Cooldown
        BY <2>1, <4>1, LongerFacts
      <4> QED
        BY <2>2, <3>2, <4>2 DEF CooldownAccounted
    <3> QED
      BY <3>1, <3>2
  <2> QED
    BY <2>1, <2>3, <2>4, <2>5 DEF EngineInv
<1> QED
  BY <1>1, <1>2

\* Every kind of tick keeps the invariant.
LEMMA TicksKeepInv == EngineInv /\ Tick => EngineInv'
<1> SUFFICES ASSUME EngineInv, Tick PROVE EngineInv'
  OBVIOUS
<1>1. o \in Observation
  BY DEF EngineInv, TypeOK
<1>2. \A stable \in BOOLEAN :
        /\ WellFormed(Observed(stable))
        /\ RequiredStatesKnown(o) => Observed(stable).initialized
  BY <1>1, ElapseFields, ObserveFields DEF EngineInv, Observed
<1>3. \A stable \in BOOLEAN : Observed(stable).phase = "idle" /\ Stopped(o) =>
        Observed(stable).initialized
  BY <1>2 DEF Stopped, WellFormed
<1>5. CASE PlanTick
  <2> DEFINE desired == want = "run"
             allowed == want # "nothing"
  <2>1. PICK stable \in BOOLEAN :
          LET u == Observed(stable)
              outcome == Plan(u, o, desired, allowed)
          IN /\ g' = outcome.g
             /\ pending' = outcome.actions
             /\ Watch(u, outcome.g, want # "nothing" /\ RequiredStatesKnown(o))
    BY <1>5 DEF PlanTick
  <2> DEFINE u == Observed(stable)
             out == Plan(u, o, desired, allowed)
  <2>2. desired \in BOOLEAN /\ allowed \in BOOLEAN
    OBVIOUS
  <2> HIDE DEF desired, allowed
  <2>3. Sound(u, out)
    BY <1>1, <1>2, <2>2, PlanSound
  <2>4. u.phase = "idle" /\ Stopped(o) => Reopens(out)
    BY <1>1, <1>2, <1>3, <2>2, RestReopens
  <2>5. \/ restFor' = Longer
        \/ restFor' = 0 /\ (out.g.phase = "cooling_down" => out.g.deadline = Cooldown)
    <3>1. CASE ~(want # "nothing" /\ RequiredStatesKnown(o) /\ LoadConnected(o) = "yes")
      BY <2>1, <3>1 DEF Watch, Rest
    <3>2. CASE want # "nothing" /\ RequiredStatesKnown(o) /\ LoadConnected(o) = "yes"
      <4>1. restFor' = 0
        BY <2>1, <3>2 DEF Watch, Rest
      <4>2. u.phase = "cooling_down" => out.g.phase # "cooling_down"
        <5> SUFFICES ASSUME u.phase = "cooling_down" PROVE out.g.phase # "cooling_down"
          OBVIOUS
        <5>1. o.emergencyStop # "yes"
          BY <1>1, <3>2, ElapseFields, ObserveFields DEF EngineInv, Observed
        <5>2. out = PlanCooling(u, o, desired)
          BY <3>2, <5>1 DEF Plan, allowed
        <5>3. u \in Engine
          BY <1>2 DEF WellFormed
        <5>4. /\ Idle(u).phase = "idle" /\ LatchFault(u).phase = "fault"
              /\ Enter(u, "ready_for_load", NoTimer).phase = "ready_for_load"
          <6> HIDE DEF u
          <6> QED
            BY <5>3 DEF Idle, LatchFault, Enter, Engine
        <5>5. out \in {Stays(Idle(u)), FaultActions(u),
                       Stays(Enter(u, "ready_for_load", NoTimer))}
          BY <3>2, <5>2 DEF PlanCooling
        <5> HIDE DEF u, out
        <5> QED
          BY <5>4, <5>5 DEF Stays, FaultActions, Outcome
      <4>3. out.g.phase = "cooling_down" => out.g.deadline = Cooldown
        BY <2>3, <4>2 DEF Sound
      <4> QED
        BY <4>1, <4>3
    <3> QED
      BY <3>1, <3>2
  <2>6. /\ g' = out.g /\ pending' = out.actions
        /\ chokeForgotten' = (chokeForgotten \/ ForgetsChoke(u, out.g))
        /\ pending = <<>> /\ UNCHANGED <<o, want, choke>>
    BY <1>5, <2>1 DEF Watch, PlanTick
  <2> HIDE DEF out
  <2> QED
    BY <2>3, <2>4, <2>5, <2>6, TickKeepsInv
<1>6. CASE ShutdownTick
  <2>1. PICK stable \in BOOLEAN :
          LET u == Observed(stable)
              outcome == AuthorizedShutdown(u, o)
          IN /\ g' = outcome.g
             /\ \/ /\ pending' = outcome.actions
                   /\ Watch(u, outcome.g, FALSE)
                \/ /\ pending' = <<>>
                   /\ chokeForgotten' = (\/ chokeForgotten \/ ForgetsChoke(u, outcome.g)
                                         \/ Presses(outcome.actions))
                   /\ restFor' = Rest(outcome.g, FALSE)
    BY <1>6 DEF ShutdownTick
  <2> DEFINE u == Observed(stable)
             out == AuthorizedShutdown(u, o)
  <2>2. Sound(u, out)
    BY <1>1, <1>2, AuthorizedShutdownSound
  <2>3. u.phase = "idle" /\ Stopped(o) => Reopens(out)
    BY <1>1, <1>2, <1>3, RestReopens
  <2>4. /\ g' = out.g
        /\ (restFor' = Longer \/ (restFor' = 0 /\ out.g.phase # "cooling_down"))
        /\ pending = <<>> /\ UNCHANGED <<o, want, choke>>
    BY <1>6, <2>1 DEF Watch, Rest, ShutdownTick
  <2>5. \/ /\ pending' = out.actions
           /\ chokeForgotten' = (chokeForgotten \/ ForgetsChoke(u, out.g))
        \/ /\ pending' = <<>>
           /\ chokeForgotten' = (\/ chokeForgotten \/ ForgetsChoke(u, out.g)
                                 \/ Presses(out.actions))
    BY <2>1 DEF Watch
  <2> HIDE DEF out
  <2> QED
    BY <2>2, <2>3, <2>4, <2>5, TickKeepsInv
<1>7. CASE RecoveryTick
  <2>1. PICK stable \in BOOLEAN :
          LET u == Observed(stable)
          IN /\ g' \in {u, ResetIfSafe(u, o)}
             /\ Watch(u, g', FALSE)
    BY <1>7 DEF RecoveryTick
  <2> DEFINE u == Observed(stable)
             out == Stays(g')
  <2>2. Sound(u, out)
    BY <1>1, <1>2, <2>1, StaysSound, ResetIfSafeSound
  <2>3. u.phase = "idle" /\ Stopped(o) => Reopens(out)
    <3>1. u.phase = "idle" => Reopens(Stays(u))
      BY DEF Reopens, Stays, Outcome
    <3>2. u.phase = "idle" /\ Stopped(o) => Reopens(Stays(ResetIfSafe(u, o)))
      BY <1>1, <1>2, <1>3, RestReopens
    <3> QED
      BY <2>1, <3>1, <3>2
  <2>4. /\ g' = out.g /\ out.actions = <<>>
        /\ (restFor' = Longer \/ (restFor' = 0 /\ out.g.phase # "cooling_down"))
        /\ pending = <<>> /\ pending' = <<>> /\ UNCHANGED <<o, want, choke>>
        /\ chokeForgotten' = (chokeForgotten \/ ForgetsChoke(u, out.g))
    BY <1>7, <2>1 DEF Watch, Rest, RecoveryTick, Stays, Outcome
  <2> HIDE DEF out
  <2> QED
    BY <2>2, <2>3, <2>4, TickKeepsInv
<1> QED
  BY <1>5, <1>6, <1>7 DEF Tick

\* The first command is executed, or the rest is dropped.
LEMMA ExecuteKeepsInv == EngineInv /\ Execute => EngineInv'
<1> SUFFICES ASSUME EngineInv, Execute PROVE EngineInv'
  OBVIOUS
<1> DEFINE first == Head(pending)
<1>1. /\ first \in GeneratorActionKind
      /\ pending' \in ActionLists /\ pending' # <<"choke_to_cold_start">>
      /\ Presses(pending) => first = "choke_to_run" \/ Presses(pending')
      /\ first = "choke_to_cold_start" => pending = <<"choke_to_cold_start">>
  <2>1. pending' = Tail(pending) /\ pending # <<>> /\ pending \in ActionLists
    BY DEF Execute, EngineInv, TypeOK
  <2>2. CASE \E a \in GeneratorActionKind : pending = <<a>>
    <3>1. PICK a \in GeneratorActionKind : pending = <<a>>
      BY <2>2
    <3>2. Head(pending) = a /\ pending' = <<>>
      BY <2>1, <3>1
    <3> QED
      BY <3>1, <3>2, PressesFacts DEF ActionLists
  <2>3. CASE pending = <<"remote_off", "choke_to_run">>
    <3>1. Head(pending) = "remote_off" /\ pending' = <<"choke_to_run">>
      BY <2>1, <2>3
    <3> QED
      BY <3>1, PressesFacts, QuietLists DEF GeneratorActionKind
  <2>4. CASE pending = <<"choke_to_run", "remote_off">>
    <3>1. Head(pending) = "choke_to_run" /\ pending' = <<"remote_off">>
      BY <2>1, <2>4
    <3> QED
      BY <3>1, PressesFacts, QuietLists DEF GeneratorActionKind
  <2> QED
    BY <2>1, <2>2, <2>3, <2>4 DEF ActionLists
<1> HIDE DEF first
<1>2. o' \in Observation
  BY DEF Execute, Perform, EngineInv, TypeOK, Observation, Tri
<1>3. choke' = CASE first = "choke_to_cold_start" -> "cold_start"
                 [] first = "choke_to_run" -> "run"
                 [] OTHER -> choke
  BY DEF Execute, Perform, first
<1>4. /\ UNCHANGED <<g, want, restFor>>
      /\ chokeForgotten' = (/\ chokeForgotten
                            /\ first \notin {"choke_to_run", "choke_to_cold_start"})
  BY DEF Execute, first
<1>5. TypeOK'
  BY <1>1, <1>2, <1>3, <1>4 DEF EngineInv, TypeOK
<1>6. ChokeAccounted'
  <2> SUFFICES ASSUME choke' = "cold_start", ~chokeForgotten'
               PROVE  Closable(g) \/ Presses(pending')
    BY <1>4 DEF ChokeAccounted
  <2>1. CASE first = "choke_to_cold_start"
    BY <1>1, <2>1 DEF EngineInv, ClosingIsMeant, Closable, SurePhases
  <2>2. CASE first # "choke_to_cold_start"
    <3>1. first # "choke_to_run" /\ choke = "cold_start"
      BY <1>3, <2>2
    <3>2. ~chokeForgotten
      BY <1>4, <2>2, <3>1
    <3> QED
      BY <1>1, <3>1, <3>2 DEF EngineInv, ChokeAccounted
  <2> QED
    BY <2>1, <2>2
<1>7. ClosingIsMeant' /\ CooldownAccounted'
  BY <1>1, <1>4 DEF EngineInv, ClosingIsMeant, CooldownAccounted
<1> QED
  BY <1>4, <1>5, <1>6, <1>7 DEF EngineInv

\* A refusal, a broken connection and a restart keep the invariant.
LEMMA LossesKeepInv == EngineInv /\ (Refuse \/ Disconnect \/ Restart) => EngineInv'
<1> SUFFICES ASSUME EngineInv, Refuse \/ Disconnect \/ Restart PROVE EngineInv'
  OBVIOUS
<1>1. /\ pending' = <<>> /\ chokeForgotten' = (chokeForgotten \/ Presses(pending))
      /\ UNCHANGED <<o, want, choke>>
  BY DEF Refuse, Disconnect, Restart, Drop
<1>2. \/ g' = g /\ restFor' = restFor
      \/ g' = NewController(o.temperature) /\ restFor' = 0
  BY DEF Refuse, Disconnect, Restart
<1>3. o.temperature \in Temperatures
  BY DEF EngineInv, TypeOK, Observation
<1>4. LET new == NewController(o.temperature)
      IN  WellFormed(new) /\ Closable(new) /\ new.phase = "waiting_for_data"
  BY <1>3 DEF NewController, WellFormed, Engine, GeneratorPhase, TimedPhases, Closable,
              SurePhases
<1>5. WellFormed(g') /\ (Closable(g) => Closable(g'))
      /\ \/ g' = g /\ restFor' = restFor
         \/ g'.phase = "waiting_for_data" /\ restFor' = 0
  BY <1>2, <1>4 DEF EngineInv
<1>6. TypeOK'
  <2>1. pending' \in ActionLists /\ chokeForgotten' \in BOOLEAN
    BY <1>1 DEF ActionLists, Presses
  <2>2. g' \in Engine
    BY <1>5 DEF WellFormed
  <2>3. restFor' \in 0..Cooldown
    BY <1>5, ProfileAssumption DEF EngineInv, TypeOK
  <2> QED
    BY <1>1, <2>1, <2>2, <2>3 DEF EngineInv, TypeOK
<1>7. ChokeAccounted'
  BY <1>1, <1>5 DEF EngineInv, ChokeAccounted
<1>8. ClosingIsMeant' /\ CooldownAccounted'
  BY <1>1, <1>5 DEF EngineInv, ClosingIsMeant, CooldownAccounted
<1> QED
  BY <1>5, <1>6, <1>7, <1>8 DEF EngineInv

\* EngineInv is inductive.
LEMMA NextEngineInv == EngineInv /\ [Next]_vars => EngineInv'
<1> SUFFICES ASSUME EngineInv, [Next]_vars PROVE EngineInv'
  OBVIOUS
<1>1. CASE UNCHANGED vars
  BY <1>1 DEF vars, EngineInv, TypeOK, WellFormed, ChokeAccounted, ClosingIsMeant,
              CooldownAccounted, Closable, Presses
<1>2. CASE Environment \/ TimePasses
  BY <1>2, EnvironmentKeepsInv
<1>3. CASE Tick
  BY <1>3, TicksKeepInv
<1>4. CASE Execute
  BY <1>4, ExecuteKeepsInv
<1>5. CASE Refuse \/ Disconnect \/ Restart
  BY <1>5, LossesKeepInv
<1> QED
  BY <1>1, <1>2, <1>3, <1>4, <1>5 DEF Next

-------------------------------------------------------------------------------
(***************************************************************************)
(* The results.                                                            *)
(***************************************************************************)

\* The inductive invariant holds throughout.
THEOREM EngineInvariant == Spec => []EngineInv
<1>1. Init => EngineInv
  BY InitEngineInv
<1>2. EngineInv /\ [Next]_vars => EngineInv'
  BY NextEngineInv
<1> QED
  BY <1>1, <1>2, PTL DEF Spec

\* Every value stays in its type, the pending commands among the lists a tick
\* can plan.
THEOREM SpecTypes == Spec => []TypeOK
<1>1. EngineInv => TypeOK
  BY DEF EngineInv
<1> QED
  BY <1>1, EngineInvariant, PTL

\* The controller has a deadline just when its phase waits for something, so
\* no phase of plan or step_authorized_shutdown waits without a timeout.
THEOREM WaitingHasADeadline == Spec => []TimersMatchPhases
<1>1. EngineInv => TimersMatchPhases
  BY DEF EngineInv, WellFormed, TimersMatchPhases
<1> QED
  BY <1>1, EngineInvariant, PTL

\* An engine reported ready for load has its choke open, unless the program
\* has forgotten that it is closed.
THEOREM ReadyEngineIsNotChoked == Spec => []ReadyMeansChokeOpen
<1>1. EngineInv => ReadyMeansChokeOpen
  <2> SUFFICES ASSUME EngineInv, ReadyForLoad(g, o), ~chokeForgotten
               PROVE  choke = "run" \/ Presses(pending)
    BY DEF ReadyMeansChokeOpen
  <2>1. g.phase \in SurePhases
    BY DEF ReadyForLoad, ReadyPhases, SurePhases
  <2> QED
    BY <2>1 DEF EngineInv, TypeOK, ChokeAccounted, Closable
<1> QED
  BY <1>1, EngineInvariant, PTL

\* Which lone REMOTE_OFF a tick can plan for a running engine that cooled down.
LEMMA RemoteOffIsTimed ==
  ASSUME NEW c, WellFormed(c), c.phase \in {"cooling_down", "fault"},
         RequiredStatesKnown(o) => c.initialized, o.running = "yes",
         NEW desired, NEW allowed, NEW out,
         \/ out = Plan(c, o, desired, allowed)
         \/ out = AuthorizedShutdown(c, o)
         \/ out = Stays(c)
         \/ out = Stays(ResetIfSafe(c, o)),
         out.actions = <<"remote_off">>
  PROVE  c.phase = "cooling_down" /\ Expired(c) /\ LoadConnected(o) # "yes"
<1>1. \A d : Stays(d).actions # out.actions
  BY DEF Stays, Outcome
<1>2. ~Stopped(o) /\ c \in Engine
  BY DEF Stopped, WellFormed
<1>3. CASE out = Plan(c, o, desired, allowed)
  <2>1. c.phase = "cooling_down" /\ out = PlanCooling(c, o, desired)
    BY <1>1, <1>3 DEF Plan
  <2>2. FaultActions(c).actions # out.actions
    BY DEF FaultActions, Outcome
  <2> QED
    BY <1>1, <1>2, <2>1, <2>2 DEF PlanCooling
<1>4. CASE out = AuthorizedShutdown(c, o)
  <2> DEFINE u == [c EXCEPT !.initialized = TRUE]
  <2>1. CASE c.phase = "cooling_down"
    <3>1. Expired(c)
      BY <1>1, <1>2, <1>4, <2>1 DEF AuthorizedShutdown
    <3>2. LoadConnected(o) = "no"
      BY <1>1, <1>4 DEF AuthorizedShutdown
    <3> QED
      BY <2>1, <3>1, <3>2
  <2>2. CASE c.phase = "fault"
    <3>1. out = Outcome(StartCooldown(u), <<"choke_to_run">>)
      BY <1>1, <1>2, <1>4, <2>2 DEF AuthorizedShutdown, ChokeUncertain
    <3>2. out.actions = <<"choke_to_run">>
      BY <3>1 DEF Outcome
    <3> QED
      BY <3>2
  <2> QED
    BY <2>1, <2>2
<1> QED
  BY <1>1, <1>3, <1>4

\* CooldownIsFull: the planner switches a running engine off only when what is
\* left of the cooldown is nothing, and by CooldownAccounted the engine has
\* then rested for the whole of it.
THEOREM CooldownIsNeverCut == Spec => CooldownIsFull
<1> DEFINE A == g.phase = "cooling_down" /\ pending = <<>> /\ pending' = <<"remote_off">>
                  /\ o.running = "yes" => restFor' >= Cooldown
<1>1. EngineInv /\ [Next]_vars => [A]_vars
  <2> SUFFICES ASSUME EngineInv, Next, g.phase = "cooling_down", pending = <<>>,
                      pending' = <<"remote_off">>, o.running = "yes"
               PROVE  restFor' >= Cooldown
    OBVIOUS
  <2>1. PlanTick \/ ShutdownTick
    BY DEF Next, Environment, EngineChanges, RemoteChanges, EmergencyStopChanges,
           BusChanges, TemperatureChanges, WantChanges, TimePasses, Tick, RecoveryTick,
           Execute, Refuse, Disconnect, Restart, Drop
  <2>0. PICK stable \in BOOLEAN : \E out :
          /\ \/ out = Plan(Observed(stable), o, want = "run", want # "nothing")
             \/ out = AuthorizedShutdown(Observed(stable), o)
          /\ pending' = out.actions
          /\ restFor' = Longer \/ LoadConnected(o) = "yes"
    <3>1. CASE PlanTick
      BY <3>1 DEF PlanTick, Watch, Rest
    <3>2. CASE ShutdownTick
      BY <3>2 DEF ShutdownTick, Watch, Rest
    <3> QED
      BY <2>1, <3>1, <3>2
  <2>2. PICK out :
          /\ \/ out = Plan(Observed(stable), o, want = "run", want # "nothing")
             \/ out = AuthorizedShutdown(Observed(stable), o)
          /\ pending' = out.actions
          /\ restFor' = Longer \/ LoadConnected(o) = "yes"
    BY <2>0
  <2> DEFINE e == Elapse(g)
             u == Observed(stable)
  <2>3. /\ WellFormed(e) /\ e.phase = "cooling_down"
        /\ e.deadline = IF g.deadline > 0 THEN g.deadline - 1 ELSE g.deadline
        /\ e.initialized
    BY ElapseFields DEF EngineInv, WellFormed
  <2>4. /\ WellFormed(u) /\ (RequiredStatesKnown(o) => u.initialized)
        /\ u = e \/ u.phase = "fault"
    <3>1. o \in Observation /\ ~Stopped(o)
      BY DEF EngineInv, TypeOK, Stopped
    <3> QED
      BY <2>3, <3>1, ObserveFields DEF Observed
  <2> HIDE DEF e, u
  <2>5. u.phase = "cooling_down" /\ Expired(u) /\ LoadConnected(o) # "yes"
    <3>1. u.phase \in {"cooling_down", "fault"}
      BY <2>3, <2>4
    <3>2. out = Plan(u, o, want = "run", want # "nothing") \/ out = AuthorizedShutdown(u, o)
      BY <2>2 DEF u
    <3>3. out.actions = <<"remote_off">>
      BY <2>2
    <3> QED
      BY <2>4, <3>1, <3>2, <3>3, RemoteOffIsTimed
  <2>6. restFor' = Longer /\ u = e /\ e.deadline = 0
    BY <2>2, <2>4, <2>5 DEF Expired
  <2>7. g.deadline \in Nat /\ g.deadline + restFor >= Cooldown /\ restFor \in 0..Cooldown
    BY DEF EngineInv, WellFormed, CooldownAccounted, TypeOK, Engine, TimedPhases
  <2>8. e.deadline + Longer >= Cooldown /\ Longer \in 0..Cooldown
    BY <2>3, <2>7, LongerFacts
  <2>9. 0 + Longer >= Cooldown
    BY <2>6, <2>8
  <2> QED
    BY <2>6, <2>8, <2>9, ProfileAssumption
<1> QED
  BY <1>1, EngineInvariant, PTL DEF Spec, CooldownIsFull

\* FaultEndsSafely: plan leaves a fault alone, and step_authorized_shutdown and
\* reset_if_safe check the engine first.
THEOREM FaultsEndSafely == Spec => FaultEndsSafely
<1> DEFINE A == g.phase = "fault" /\ g'.phase # "fault" =>
                  \/ g' = NewController(o.temperature)
                  \/ Stopped(o) /\ g'.phase = "idle"
                  \/ /\ LoadConnected(o) = "no" /\ o.emergencyStop = "no"
                     /\ g'.phase \in {"cooling_down", "waiting_for_stop"}
<1>1. EngineInv /\ [Next]_vars => [A]_vars
  <2> SUFFICES ASSUME EngineInv, Next, g.phase = "fault", g'.phase # "fault"
               PROVE  A
    OBVIOUS
  <2>1. CASE Tick
    <3>1. PICK stable \in BOOLEAN : LET u == Observed(stable) IN
            \/ g' = Plan(u, o, want = "run", want # "nothing").g
            \/ g' = AuthorizedShutdown(u, o).g
            \/ g' \in {u, ResetIfSafe(u, o)}
      BY <2>1 DEF Tick, PlanTick, ShutdownTick, RecoveryTick
    <3> DEFINE u == Observed(stable)
    <3>2. u \in Engine /\ u.phase = "fault"
      BY ElapseFields, ObserveFields DEF EngineInv, TypeOK, Observed, WellFormed
    <3> HIDE DEF u
    <3>3. g' # u
      BY <3>2
    <3>4. CASE g' = Plan(u, o, want = "run", want # "nothing").g
      BY <3>2, <3>3, <3>4 DEF Plan, Stays, Outcome
    <3>5. CASE g' = ResetIfSafe(u, o)
      <4>1. Stopped(o) /\ g' = [Idle(u) EXCEPT !.initialized = TRUE]
        BY <3>3, <3>5 DEF ResetIfSafe
      <4>2. g'.phase = "idle"
        BY <3>2, <4>1, IdleFields DEF Engine
      <4> QED
        BY <4>1, <4>2
    <3>6. CASE g' = AuthorizedShutdown(u, o).g
      <4> DEFINE d == [u EXCEPT !.initialized = TRUE]
      <4>1. d \in Engine
        BY <3>2 DEF Engine
      <4>2. LoadConnected(o) = "no" /\ o.emergencyStop = "no"
        <5>1. RequiredStatesKnown(o) => o.emergencyStop \in {"yes", "no"}
          BY DEF RequiredStatesKnown, EngineInv, TypeOK, Observation, Tri
        <5> QED
          BY <3>3, <3>6 DEF AuthorizedShutdown, Stays, Outcome
      <4>3. CASE Stopped(o)
        <5>1. g' = Idle(d)
          BY <3>3, <3>6, <4>3 DEF AuthorizedShutdown, Stays, Outcome
        <5> QED
          BY <4>1, <4>3, <5>1, IdleFields
      <4>4. CASE ~Stopped(o)
        <5>1. g' \in {StartCooldown(d), RemoteOff(d).g}
          BY <3>2, <3>3, <3>6, <4>4 DEF AuthorizedShutdown, Stays, Outcome
        <5>2. /\ StartCooldown(d).phase = "cooling_down"
              /\ RemoteOff(d).g.phase = "waiting_for_stop"
          <6> HIDE DEF d
          <6> QED
            BY <4>1 DEF StartCooldown, RemoteOff, Outcome, Enter, Engine
        <5> QED
          BY <4>2, <5>1, <5>2
      <4> QED
        BY <4>3, <4>4
    <3> QED
      BY <3>1, <3>3, <3>4, <3>5, <3>6 DEF u
  <2>2. CASE Restart
    BY <2>2 DEF Restart
  <2>3. CASE TimePasses
    BY <2>3, ElapseFields DEF TimePasses, EngineInv
  <2>4. CASE UNCHANGED g
    BY <2>4
  <2> QED
    BY <2>1, <2>2, <2>3, <2>4
       DEF Next, Environment, EngineChanges, RemoteChanges, EmergencyStopChanges,
           BusChanges, TemperatureChanges, WantChanges, Execute, Refuse, Disconnect
<1> QED
  BY <1>1, EngineInvariant, PTL DEF Spec, FaultEndsSafely
===============================================================================
