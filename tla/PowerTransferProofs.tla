-------------------------- MODULE PowerTransferProofs --------------------------
(***************************************************************************)
(* Proofs about PowerTransfer, for every confirmation timeout and every    *)
(* set of readings that may be lost.                                       *)
(*                                                                         *)
(* The main result is PlannerRespectsInterlock: no interleaving of sensor  *)
(* changes, ticks, interruptions, restarts and recovery resets makes the   *)
(* controller plan a command the adapter would refuse on those readings.   *)
(* A planning tick acts on a path it has just inferred from the readings.  *)
(* The exception is a recovery reset, which may act on a remembered path;  *)
(* NoStaleIsolation says that it never remembers the house as isolated     *)
(* without a connect_grid already under way.                               *)
(***************************************************************************)
EXTENDS PowerTransfer, TLAPS

\* The inductive invariant.
TransferInv ==
  /\ TypeOK
  /\ PhaseMatchesPath
  /\ StepIsTimed
  /\ NoStaleIsolation

\* The controller half of TransferInv, on a controller c.
WellFormed(c) ==
  /\ c \in Controller
  /\ c.phase \in StablePhases =>
       c.path \in DOMAIN StablePhaseOf /\ c.phase = StablePhaseOf[c.path]
  /\ InTransition(c) => c.deadline # NoTimer \/ c.lostFor # NoTimer

-------------------------------------------------------------------------------
(***************************************************************************)
(* The operators of the controller keep it well formed.                    *)
(***************************************************************************)

\* What _infer_topology can return.
LEMMA TopologyCases ==
  ASSUME NEW obs \in Observation
  PROVE  \/ Topology(obs) = Ambiguous
         \/ Topology(obs) = On("generator", "generator")
         \/ Topology(obs) = On("grid", "grid")
         \/ Topology(obs) = On("grid", "ups_only")
         \/ Topology(obs) = On("isolated", "ups_only")
<1>1. CASE ~RequiredStatesKnown(obs) \/ UnsafeOverlap(obs)
  BY <1>1 DEF Topology
<1>2. CASE RequiredStatesKnown(obs) /\ ~UnsafeOverlap(obs)
  BY <1>2 DEF Topology
<1> QED
  BY <1>1, <1>2

\* A topology names a path and a source; only an ambiguous one an unknown path.
LEMMA TopologyFields ==
  ASSUME NEW obs \in Observation
  PROVE  /\ Topology(obs).path \in PowerPath
         /\ Topology(obs).source \in PowerSource
         /\ ~IsAmbiguous(obs) => Topology(obs).path \in {"grid", "isolated", "generator"}
BY TopologyCases DEF Ambiguous, On, PowerPath, PowerSource, IsAmbiguous

\* _set_stable ends in a stable phase that names the path.
LEMMA SetStableWellFormed ==
  ASSUME NEW c \in Controller, NEW obs \in Observation, ~IsAmbiguous(obs)
  PROVE  /\ WellFormed(SetStable(c, Topology(obs)))
         /\ SetStable(c, Topology(obs)).path = Topology(obs).path
         /\ ~InTransition(SetStable(c, Topology(obs)))
<1> DEFINE top == Topology(obs)
           s == SetStable(c, top)
<1>1. top.path \in {"grid", "isolated", "generator"} /\ top.source \in PowerSource
  BY TopologyFields
<1>2. /\ StablePhaseOf[top.path] \in StablePhases
      /\ top.path \in DOMAIN StablePhaseOf
  BY <1>1 DEF StablePhaseOf, StablePhases
<1>3. /\ s.path = top.path /\ s.source = top.source
      /\ s.phase = StablePhaseOf[top.path]
      /\ s.deadline = NoTimer /\ s.lostFor = NoTimer
      /\ s.initialized = c.initialized
  BY DEF SetStable, Controller
<1>4. s \in Controller
  <2> HIDE DEF top
  <2>1. NoTimer \in NoTimer..ConfirmTimeout
    BY ConfirmTimeoutAssumption DEF NoTimer
  <2>2. StablePhaseOf[top.path] \in TransferPhase /\ top.path \in PowerPath
    BY <1>1, <1>2 DEF TransferPhase, PowerPath
  <2> QED
    BY <1>1, <2>1, <2>2 DEF SetStable, Controller
<1>5. ~InTransition(s)
  BY <1>2, <1>3 DEF InTransition, StablePhases, Transitions
<1> HIDE DEF top, s
<1>6. WellFormed(s)
  BY <1>2, <1>3, <1>4, <1>5 DEF WellFormed
<1> QED
  BY <1>3, <1>5, <1>6 DEF s, top

\* _set_unknown believes in no path.
LEMMA SetUnknownWellFormed ==
  ASSUME NEW c \in Controller, NEW phase \in {"waiting_for_data", "recovery_required"}
  PROVE  /\ WellFormed(SetUnknown(c, phase))
         /\ SetUnknown(c, phase).path = "unknown"
         /\ SetUnknown(c, phase).phase = phase
<1> DEFINE s == SetUnknown(c, phase)
<1>1. s.path = "unknown" /\ s.phase = phase
  BY DEF SetUnknown, Controller
<1>2. s \in Controller
  <2>1. NoTimer \in NoTimer..ConfirmTimeout
    BY ConfirmTimeoutAssumption DEF NoTimer
  <2>2. phase \in TransferPhase /\ "unknown" \in PowerPath /\ "unknown" \in PowerSource
    BY DEF TransferPhase, PowerPath, PowerSource
  <2> QED
    BY <2>1, <2>2 DEF SetUnknown, Controller
<1>3. s.phase \notin StablePhases /\ ~InTransition(s)
  BY <1>1 DEF InTransition, StablePhases, Transitions
<1> HIDE DEF s
<1>4. WellFormed(s)
  BY <1>2, <1>3 DEF WellFormed
<1> QED
  BY <1>1, <1>4 DEF s

\* _require_recovery believes in no path.
LEMMA RequireRecoveryWellFormed ==
  ASSUME NEW c \in Controller
  PROVE  /\ WellFormed(RequireRecovery(c))
         /\ RequireRecovery(c).path = "unknown"
         /\ RequireRecovery(c).phase = "recovery_required"
BY SetUnknownWellFormed DEF RequireRecovery

\* Time only moves the timers.
LEMMA ElapseWellFormed ==
  ASSUME NEW c, WellFormed(c)
  PROVE  /\ WellFormed(Elapse(c))
         /\ Elapse(c).phase = c.phase
         /\ Elapse(c).path = c.path
<1> DEFINE e == Elapse(c)
<1>1. c \in Controller
  BY DEF WellFormed
<1>2. /\ e.phase = c.phase /\ e.path = c.path
      /\ e.deadline = IF c.deadline > 0 THEN c.deadline - 1 ELSE c.deadline
      /\ e.lostFor = IF c.lostFor \in 0..(ConfirmTimeout - 1)
                     THEN c.lostFor + 1 ELSE c.lostFor
  BY <1>1 DEF Elapse, Controller
<1>3. c.deadline \in NoTimer..ConfirmTimeout /\ c.lostFor \in NoTimer..ConfirmTimeout
  BY <1>1 DEF Controller
<1>4. /\ e.deadline \in NoTimer..ConfirmTimeout
      /\ e.lostFor \in NoTimer..ConfirmTimeout
      /\ e.deadline = NoTimer <=> c.deadline = NoTimer
      /\ e.lostFor = NoTimer <=> c.lostFor = NoTimer
  BY <1>2, <1>3, ConfirmTimeoutAssumption DEF NoTimer
<1>5. e = [c EXCEPT !.deadline = e.deadline, !.lostFor = e.lostFor]
  BY <1>1, <1>2 DEF Elapse, Controller
<1> HIDE DEF e
<1>6. e \in Controller
  BY <1>1, <1>4, <1>5 DEF Controller
<1>7. WellFormed(e)
  BY <1>2, <1>4, <1>6 DEF WellFormed, InTransition
<1> QED
  BY <1>2, <1>7 DEF e

\* _begin starts the timer of the step.
LEMMA BeginWellFormed ==
  ASSUME NEW c \in Controller, NEW command \in TransferCommand
  PROVE  /\ WellFormed(Begin(c, command))
         /\ Begin(c, command).path = c.path
         /\ Begin(c, command).phase = PhaseOf[command]
<1> DEFINE s == Begin(c, command)
<1>1. s.path = c.path /\ s.phase = PhaseOf[command] /\ s.deadline = ConfirmTimeout
  BY DEF Begin, Controller
<1>2. PhaseOf[command] \in Transitions
  BY DEF PhaseOf, Transitions, TransferCommand
<1>3. s \in Controller
  <2>1. ConfirmTimeout \in NoTimer..ConfirmTimeout
    BY ConfirmTimeoutAssumption DEF NoTimer
  <2>2. PhaseOf[command] \in TransferPhase
    BY <1>2 DEF TransferPhase
  <2> QED
    BY <2>1, <2>2 DEF Begin, Controller
<1>4. s.deadline # NoTimer /\ s.phase \notin StablePhases
  BY <1>1, <1>2, ConfirmTimeoutAssumption DEF NoTimer, StablePhases, Transitions
<1> HIDE DEF s
<1>5. WellFormed(s)
  BY <1>3, <1>4 DEF WellFormed
<1> QED
  BY <1>1, <1>5 DEF s

\* Losing the feedback starts or checks its clock, so that a transition
\* without a deadline is timed afterwards.
LEMMA LoseFeedbackWellFormed ==
  ASSUME NEW c \in Controller,
         c.phase \in StablePhases =>
           c.path \in DOMAIN StablePhaseOf /\ c.phase = StablePhaseOf[c.path]
  PROVE  /\ WellFormed(LoseFeedback(c))
         /\ \/ LoseFeedback(c).path = c.path /\ LoseFeedback(c).phase = c.phase
            \/ /\ LoseFeedback(c).path = "unknown"
               /\ LoseFeedback(c).phase = "recovery_required"
<1>1. CASE c.lostFor = NoTimer
  BY <1>1, ConfirmTimeoutAssumption
     DEF LoseFeedback, WellFormed, Controller, InTransition, NoTimer
<1>2. CASE c.lostFor # NoTimer /\ c.lostFor >= ConfirmTimeout
  <2>1. LoseFeedback(c) = RequireRecovery(c)
    BY <1>2 DEF LoseFeedback
  <2> QED
    BY <2>1, RequireRecoveryWellFormed
<1>3. CASE c.lostFor # NoTimer /\ ~(c.lostFor >= ConfirmTimeout)
  <2>1. LoseFeedback(c) = c
    BY <1>3 DEF LoseFeedback
  <2> QED
    BY <1>3, <2>1 DEF WellFormed
<1> QED
  BY <1>1, <1>2, <1>3

\* A confirmed step that ends in no clear topology is timed by lost feedback.
LEMMA SettleAmbiguous ==
  ASSUME NEW c, WellFormed(c), InTransition(c), NEW obs \in Observation,
         IsAmbiguous(obs)
  PROVE  /\ Settle(c, obs) \in Controller
         /\ Settle(c, obs).path = c.path
         /\ Settle(c, obs).phase = c.phase
         /\ Settle(c, obs).phase \notin StablePhases
<1>1. c \in Controller
  BY DEF WellFormed
<1>2. Settle(c, obs) = [c EXCEPT !.deadline = NoTimer]
  BY DEF Settle
<1>3. NoTimer \in NoTimer..ConfirmTimeout
  BY ConfirmTimeoutAssumption DEF NoTimer
<1>4. c.phase \notin StablePhases
  BY DEF InTransition, StablePhases, Transitions
<1> QED
  BY <1>1, <1>2, <1>3, <1>4 DEF Controller

\* In recovery a path is believed only on the readings.
LEMMA ObserveOnlyWellFormed ==
  ASSUME NEW c, WellFormed(c), c.phase = "recovery_required",
         NEW obs \in Observation
  PROVE  /\ WellFormed(ObserveOnly(c, obs))
         /\ ObserveOnly(c, obs).phase = "recovery_required"
         /\ \/ ObserveOnly(c, obs).path = c.path
            \/ ~IsAmbiguous(obs) /\ ObserveOnly(c, obs).path = Topology(obs).path
<1>1. c \in Controller
  BY DEF WellFormed
<1>2. CASE IsAmbiguous(obs)
  BY <1>2 DEF ObserveOnly
<1>3. CASE ~IsAmbiguous(obs)
  <2> DEFINE path == Topology(obs).path
             source == Topology(obs).source
  <2>1. path \in PowerPath /\ source \in PowerSource
    BY TopologyFields
  <2>2. ObserveOnly(c, obs) = [c EXCEPT !.path = path, !.source = source]
    BY <1>3 DEF ObserveOnly
  <2> HIDE DEF path, source
  <2>3. /\ ObserveOnly(c, obs) \in Controller
        /\ ObserveOnly(c, obs).phase = c.phase
        /\ ObserveOnly(c, obs).path = path
    BY <1>1, <2>1, <2>2 DEF Controller
  <2>4. WellFormed(ObserveOnly(c, obs))
    BY <2>3 DEF WellFormed, InTransition, StablePhases, Transitions
  <2> QED
    BY <1>3, <2>3, <2>4 DEF path
<1> QED
  BY <1>2, <1>3

\* What observing does to an initialised controller: the path afterwards is
\* the one inferred from the readings unless recovery or an unconfirmed step
\* stands in the way, and isolation is only believed on the readings.
LEMMA FollowCases ==
  ASSUME NEW c, WellFormed(c), NEW obs \in Observation
  PROVE  /\ WellFormed(Follow(c, obs))
         /\ Follow(c, obs).path = "isolated" =>
              \/ Topology(obs).path = "isolated" /\ ~InTransition(Follow(c, obs))
              \/ Follow(c, obs).path = c.path /\ Follow(c, obs).phase = c.phase
         /\ ~IsAmbiguous(obs) =>
              \/ Follow(c, obs).phase = "recovery_required"
              \/ InTransition(Follow(c, obs))
              \/ Follow(c, obs).path = Topology(obs).path
<1>0. c \in Controller
  BY DEF WellFormed
<1>1. CASE c.phase = "recovery_required"
  <2>1. Follow(c, obs) = ObserveOnly(c, obs)
    BY <1>1 DEF Follow, InTransition, Transitions
  <2>2. ~InTransition(ObserveOnly(c, obs))
    BY <1>1, ObserveOnlyWellFormed DEF InTransition, Transitions
  <2> QED
    BY <1>1, <2>1, <2>2, ObserveOnlyWellFormed
<1>2. CASE InTransition(c) /\ TimedOut(c)
  <2>1. Follow(c, obs) = RequireRecovery(c)
    BY <1>2 DEF Follow, InTransition, Transitions
  <2> QED
    BY <1>0, <2>1, RequireRecoveryWellFormed
<1>3. CASE InTransition(c) /\ ~TimedOut(c) /\ ~Confirmed(c, obs)
  <2>1. Follow(c, obs) = c
    BY <1>3 DEF Follow, InTransition, Transitions
  <2> QED
    BY <1>3, <2>1
<1>4. CASE /\ c.phase # "recovery_required"
           /\ ~(InTransition(c) /\ TimedOut(c))
           /\ ~(InTransition(c) /\ ~TimedOut(c) /\ ~Confirmed(c, obs))
  <2>1. CASE ~IsAmbiguous(obs)
    <3>1. Follow(c, obs) = SetStable(c, Topology(obs))
      BY <1>4, <2>1 DEF Follow
    <3> QED
      BY <1>0, <2>1, <3>1, SetStableWellFormed
  <2>2. CASE IsAmbiguous(obs) /\ InTransition(c)
    <3>1. Follow(c, obs) = LoseFeedback(Settle(c, obs))
      BY <1>4, <2>2 DEF Follow
    <3> QED
      BY <2>2, <3>1, SettleAmbiguous, LoseFeedbackWellFormed
  <2>3. CASE IsAmbiguous(obs) /\ ~InTransition(c)
    <3>1. Follow(c, obs) = LoseFeedback(c)
      BY <1>4, <2>3 DEF Follow
    <3> QED
      BY <1>0, <2>3, <3>1, LoseFeedbackWellFormed DEF WellFormed
  <2> QED
    BY <2>1, <2>2, <2>3
<1> QED
  BY <1>1, <1>2, <1>3, <1>4

\* The first complete observation decides on a path or on recovery.
LEMMA InitializeCases ==
  ASSUME NEW c, WellFormed(c), NEW obs \in Observation
  PROVE  /\ WellFormed(Initialize(c, obs))
         /\ ~InTransition(Initialize(c, obs))
         /\ IsAmbiguous(obs) => /\ Initialize(c, obs).path = "unknown"
                               /\ Initialize(c, obs).phase = "recovery_required"
         /\ ~IsAmbiguous(obs) => Initialize(c, obs).path = Topology(obs).path
<1> DEFINE d == [c EXCEPT !.initialized = TRUE]
<1>1. d \in Controller
  BY DEF WellFormed, Controller
<1>2. CASE IsAmbiguous(obs)
  <2>1. Initialize(c, obs) = RequireRecovery(d)
    BY <1>2 DEF Initialize
  <2> HIDE DEF d
  <2> QED
    BY <1>1, <1>2, <2>1, RequireRecoveryWellFormed DEF InTransition, Transitions
<1>3. CASE ~IsAmbiguous(obs)
  <2>1. Initialize(c, obs) = SetStable(d, Topology(obs))
    BY <1>3 DEF Initialize
  <2> HIDE DEF d
  <2> QED
    BY <1>1, <1>3, <2>1, SetStableWellFormed
<1> QED
  BY <1>2, <1>3

\* observe as a whole; as FollowCases.
LEMMA ObserveCases ==
  ASSUME NEW c, WellFormed(c), NEW obs \in Observation
  PROVE  /\ WellFormed(Observe(c, obs))
         /\ Observe(c, obs).path = "isolated" =>
              \/ Topology(obs).path = "isolated" /\ ~InTransition(Observe(c, obs))
              \/ Observe(c, obs).path = c.path /\ Observe(c, obs).phase = c.phase
         /\ ~IsAmbiguous(obs) =>
              \/ Observe(c, obs).phase = "recovery_required"
              \/ InTransition(Observe(c, obs))
              \/ Observe(c, obs).path = Topology(obs).path
<1>0. c \in Controller
  BY DEF WellFormed
<1>1. CASE ~RequiredStatesKnown(obs)
  <2>1. IsAmbiguous(obs)
    BY <1>1 DEF IsAmbiguous, Topology, Ambiguous, On
  <2>2. CASE c.initialized
    <3>1. Observe(c, obs) = c
      BY <1>1, <2>2 DEF Observe
    <3> QED
      BY <2>1, <3>1
  <2>3. CASE ~c.initialized
    <3>1. Observe(c, obs) = SetUnknown(c, "waiting_for_data")
      BY <1>1, <2>3 DEF Observe
    <3> QED
      BY <1>0, <2>1, <3>1, SetUnknownWellFormed
  <2> QED
    BY <2>2, <2>3
<1>2. CASE RequiredStatesKnown(obs) /\ UnsafeOverlap(obs)
  <2>1. Observe(c, obs) = RequireRecovery(c)
    BY <1>2 DEF Observe
  <2> QED
    BY <1>0, <2>1, RequireRecoveryWellFormed
<1>3. CASE RequiredStatesKnown(obs) /\ ~UnsafeOverlap(obs)
  <2>1. CASE c.initialized
    <3>1. Observe(c, obs) = Follow(c, obs)
      BY <1>3, <2>1 DEF Observe
    <3> QED
      BY <3>1, FollowCases
  <2>2. CASE ~c.initialized /\ IsAmbiguous(obs)
    <3>1. Observe(c, obs) = Initialize(c, obs)
      BY <1>3, <2>2 DEF Observe
    <3> QED
      BY <2>2, <3>1, InitializeCases
  <2>3. CASE ~c.initialized /\ ~IsAmbiguous(obs)
    <3>1. Observe(c, obs) = Follow(Initialize(c, obs), obs)
      BY <1>3, <2>3 DEF Observe
    <3>2. /\ WellFormed(Initialize(c, obs))
          /\ Initialize(c, obs).path = Topology(obs).path
          /\ ~InTransition(Initialize(c, obs))
      BY <2>3, InitializeCases
    <3> DEFINE d == Initialize(c, obs)
    <3> HIDE DEF d
    <3>3. ~InTransition(Follow(d, obs)) \/ Follow(d, obs).phase # d.phase
      BY <3>2 DEF InTransition, d
    <3>4. /\ WellFormed(Follow(d, obs))
          /\ Follow(d, obs).path = "isolated" =>
               \/ Topology(obs).path = "isolated" /\ ~InTransition(Follow(d, obs))
               \/ Follow(d, obs).path = d.path /\ Follow(d, obs).phase = d.phase
          /\ \/ Follow(d, obs).phase = "recovery_required"
             \/ InTransition(Follow(d, obs))
             \/ Follow(d, obs).path = Topology(obs).path
      BY <2>3, <3>2, FollowCases DEF d
    <3> QED
      BY <3>1, <3>2, <3>3, <3>4 DEF d
  <2> QED
    BY <2>1, <2>2, <2>3
<1> QED
  BY <1>1, <1>2, <1>3

-------------------------------------------------------------------------------
(***************************************************************************)
(* The commands.                                                           *)
(***************************************************************************)

\* An isolated house has both branches open, switch and voltage.
LEMMA IsolatedMeansOpen ==
  ASSUME NEW obs \in Observation, Topology(obs).path = "isolated"
  PROVE  /\ obs.gridConnected = "no" /\ obs.houseOnGrid = "no"
         /\ obs.generatorSelected = "no" /\ obs.houseOnGenerator = "no"
<1>1. RequiredStatesKnown(obs) /\ ~UnsafeOverlap(obs)
  BY DEF Topology, Ambiguous, On
<1>2. /\ obs.generatorSelected # "yes" /\ obs.houseOnGenerator # "yes"
      /\ obs.gridConnected # "yes" /\ obs.houseOnGrid = "no"
  BY <1>1 DEF Topology, Ambiguous, On
<1> QED
  BY <1>1, <1>2 DEF RequiredStatesKnown, Observation, Tri

\* plan() issues a command only on the path it has just observed, so the
\* interlock accepts it.
LEMMA NormalPlanSafe ==
  ASSUME NEW c, WellFormed(c), o \in Observation,
         NEW desired, NEW ready
  PROVE  LET u == Observe(c, o)
             command == Planned(u, o, desired, ready, TRUE)
         IN  /\ command \in TransferCommand \cup {Nothing}
             /\ InterlockAllows(command)
             /\ WellFormed(AfterPlan(u, o, command))
<1> DEFINE u == Observe(c, o)
           command == Planned(u, o, desired, ready, TRUE)
<1>1. WellFormed(u) /\ u \in Controller
  BY ObserveCases DEF WellFormed
<1>2. command \in {Nothing, "deselect_generator", "disconnect_grid"}
        \/ /\ command \in {"select_generator", "connect_grid"}
           /\ ~IsAmbiguous(o) /\ u.path = "isolated"
           /\ u.phase # "recovery_required" /\ ~InTransition(u)
  <2> HIDE DEF u
  <2> QED
    BY DEF Planned, MayPlan, Drive
<1>3. command \in TransferCommand \cup {Nothing}
  BY <1>2 DEF TransferCommand
<1>4. InterlockAllows(command)
  <2>1. CASE command \in {Nothing, "deselect_generator", "disconnect_grid"}
    BY <2>1 DEF InterlockAllows, Nothing
  <2>2. CASE /\ command \in {"select_generator", "connect_grid"}
             /\ ~IsAmbiguous(o) /\ u.path = "isolated"
             /\ u.phase # "recovery_required" /\ ~InTransition(u)
    <3>1. Topology(o).path = "isolated"
      BY <2>2, ObserveCases
    <3> HIDE DEF command
    <3> QED
      BY <2>2, <3>1, IsolatedMeansOpen DEF InterlockAllows
  <2> QED
    BY <1>2, <2>1, <2>2
<1>5. WellFormed(AfterPlan(u, o, command))
  <2> HIDE DEF u, command
  <2>1. CASE command = Nothing
    BY <1>1, <2>1 DEF AfterPlan
  <2>2. CASE command # Nothing
    <3>1. [u EXCEPT !.lostFor = NoTimer] \in Controller
      BY <1>1, ConfirmTimeoutAssumption DEF Controller, NoTimer
    <3>2. command \in TransferCommand
      BY <1>3, <2>2
    <3> QED
      BY <1>1, <2>2, <3>1, <3>2, BeginWellFormed DEF AfterPlan
  <2> QED
    BY <2>1, <2>2
<1> QED
  BY <1>3, <1>4, <1>5

\* A recovery reset may act on a remembered path; while that is not a
\* remembered isolation, its commands too pass the interlock.
LEMMA RecoverFromSafe ==
  ASSUME NEW c \in Controller, o \in Observation,
         c.phase \in StablePhases =>
           c.path \in DOMAIN StablePhaseOf /\ c.phase = StablePhaseOf[c.path],
         IsAmbiguous(o) => c.path # "isolated"
  PROVE  LET outcome == RecoverFrom(c, o)
         IN  /\ WellFormed(outcome.t)
             /\ outcome.command \in TransferCommand \cup {Nothing}
             /\ outcome.failed \in BOOLEAN
             /\ InterlockAllows(outcome.command)
             /\ outcome.t.path = "isolated" => outcome.t.phase = "connecting_grid"
<1> DEFINE cleared == [c EXCEPT !.lostFor = NoTimer]
<1>0. cleared \in Controller /\ cleared.path = c.path
  BY ConfirmTimeoutAssumption DEF Controller, NoTimer
<1>1. CASE IsAmbiguous(o)
  <2> DEFINE command == IF SafeBreak(o) THEN "deselect_generator"
                        ELSE Drive(c, o, "grid", FALSE)
  <2>1. Topology(o).path = "unknown"
    BY <1>1 DEF IsAmbiguous
  <2>2. command \in {"deselect_generator", Nothing}
    BY <1>1 DEF Drive
  <2>3. RecoverFrom(c, o) =
          IF command # Nothing THEN Outcome(Begin(cleared, command), command, FALSE)
          ELSE Outcome(LoseFeedback(c), Nothing, c.lostFor >= ConfirmTimeout)
    BY <1>1, <2>1 DEF RecoverFrom
  <2> HIDE DEF cleared, command
  <2>4. CASE command = "deselect_generator"
    <3>1. RecoverFrom(c, o) = Outcome(Begin(cleared, command), command, FALSE)
      BY <2>3, <2>4 DEF Nothing
    <3>2. command \in TransferCommand
      BY <2>4 DEF TransferCommand
    <3>3. /\ WellFormed(Begin(cleared, command))
          /\ Begin(cleared, command).path # "isolated"
      BY <1>0, <1>1, <3>2, BeginWellFormed
    <3> QED
      BY <2>4, <3>1, <3>2, <3>3 DEF Outcome, InterlockAllows
  <2>5. CASE command = Nothing
    <3>1. RecoverFrom(c, o) =
            Outcome(LoseFeedback(c), Nothing, c.lostFor >= ConfirmTimeout)
      BY <2>3, <2>5
    <3>2. WellFormed(LoseFeedback(c)) /\ LoseFeedback(c).path # "isolated"
      BY <1>1, LoseFeedbackWellFormed
    <3>3. (c.lostFor >= ConfirmTimeout) \in BOOLEAN
      OBVIOUS
    <3> QED
      BY <3>1, <3>2, <3>3 DEF Outcome, InterlockAllows, Nothing
  <2> QED
    BY <2>2, <2>4, <2>5
<1>2. CASE ~IsAmbiguous(o)
  <2> DEFINE u == SetStable(c, Topology(o))
             freed == [u EXCEPT !.lostFor = NoTimer]
  <2>1. /\ WellFormed(u) /\ u \in Controller /\ ~InTransition(u)
        /\ u.path = Topology(o).path
        /\ u.path \in {"grid", "isolated", "generator"}
    BY <1>2, SetStableWellFormed, TopologyFields DEF WellFormed
  <2>2. freed \in Controller /\ freed.path = u.path
    <3> HIDE DEF u
    <3> QED
      BY <2>1, ConfirmTimeoutAssumption DEF Controller, NoTimer
  <2>3. CASE u.path = "grid"
    <3>1. RecoverFrom(c, o) = Outcome(u, Nothing, FALSE)
      BY <1>2, <2>1, <2>3 DEF RecoverFrom
    <3> HIDE DEF u
    <3> QED
      BY <2>1, <2>3, <3>1 DEF Outcome, InterlockAllows, Nothing
  <2>4. CASE u.path # "grid"
    <3> DEFINE command == IF u.path = "generator"
                          THEN "deselect_generator" ELSE "connect_grid"
    <3>1. Drive(u, o, "grid", FALSE) = command
      <4> HIDE DEF u
      <4> QED
        BY <2>1, <2>4 DEF Drive
    <3>2. RecoverFrom(c, o) = Outcome(Begin(freed, command), command, FALSE)
      <4>1. command # Nothing
        BY DEF Nothing
      <4> HIDE DEF command
      <4> QED
        BY <1>2, <2>1, <2>4, <3>1, <4>1 DEF RecoverFrom
    <3> HIDE DEF freed, u
    <3>3. command \in TransferCommand
      BY DEF TransferCommand
    <3>4. InterlockAllows(command)
      BY <2>1, <2>4, IsolatedMeansOpen DEF InterlockAllows
    <3>5. /\ WellFormed(Begin(freed, command))
          /\ Begin(freed, command).path = u.path
          /\ Begin(freed, command).phase = PhaseOf[command]
      <4> HIDE DEF command
      <4> QED
        BY <2>2, <3>3, BeginWellFormed
    <3>6. u.path = "isolated" => PhaseOf[command] = "connecting_grid"
      BY DEF PhaseOf
    <3> HIDE DEF command
    <3> QED
      BY <3>2, <3>3, <3>4, <3>5, <3>6 DEF Outcome
  <2> QED
    BY <2>3, <2>4
<1> QED
  BY <1>1, <1>2

\* step_recovery_to_grid_path as a whole; as RecoverFromSafe.
LEMMA StepRecoverySafe ==
  ASSUME NEW c, WellFormed(c), o \in Observation,
         c.path = "isolated" =>
           \/ Topology(o).path = "isolated" /\ ~InTransition(c)
           \/ c.phase = "connecting_grid"
  PROVE  LET outcome == StepRecovery(c, o)
         IN  /\ WellFormed(outcome.t)
             /\ outcome.command \in TransferCommand \cup {Nothing}
             /\ outcome.failed \in BOOLEAN
             /\ InterlockAllows(outcome.command)
             /\ ~outcome.failed /\ outcome.t.path = "isolated" =>
                  outcome.t.phase = "connecting_grid"
<1>0. c \in Controller
  BY DEF WellFormed
<1>1. CASE RecoveryBlocked(o)
  <2>1. StepRecovery(c, o) = Outcome(c, Nothing, TRUE)
    BY <1>1 DEF StepRecovery
  <2> QED
    BY <2>1 DEF Outcome, InterlockAllows, Nothing
<1>2. CASE ~RecoveryBlocked(o) /\ InTransition(c) /\ TimedOut(c)
  <2>1. StepRecovery(c, o) = Outcome(RequireRecovery(c), Nothing, TRUE)
    BY <1>2 DEF StepRecovery
  <2> QED
    BY <1>0, <2>1, RequireRecoveryWellFormed DEF Outcome, InterlockAllows, Nothing
<1>3. CASE ~RecoveryBlocked(o) /\ InTransition(c) /\ ~TimedOut(c) /\ ~Confirmed(c, o)
  <2>1. StepRecovery(c, o) = Outcome(c, Nothing, FALSE)
    BY <1>3 DEF StepRecovery
  <2> QED
    BY <1>3, <2>1 DEF Outcome, InterlockAllows, Nothing
<1>4. CASE ~RecoveryBlocked(o) /\ InTransition(c) /\ ~TimedOut(c) /\ Confirmed(c, o)
  <2>1. StepRecovery(c, o) = RecoverFrom(Settle(c, o), o)
    BY <1>4 DEF StepRecovery
  <2>2. CASE IsAmbiguous(o)
    <3>1. c.phase # "connecting_grid"
      BY <1>4, <2>2 DEF Confirmed, IsAmbiguous
    <3>2. c.path # "isolated"
      BY <1>4, <3>1
    <3>3. /\ Settle(c, o) \in Controller
          /\ Settle(c, o).path # "isolated"
          /\ Settle(c, o).phase \notin StablePhases
      BY <1>4, <2>2, <3>2, SettleAmbiguous
    <3> QED
      BY <2>1, <3>3, RecoverFromSafe
  <2>3. CASE ~IsAmbiguous(o)
    <3>1. WellFormed(Settle(c, o))
      BY <1>0, <2>3, SetStableWellFormed DEF Settle
    <3>2. /\ Settle(c, o) \in Controller
          /\ Settle(c, o).phase \in StablePhases =>
               /\ Settle(c, o).path \in DOMAIN StablePhaseOf
               /\ Settle(c, o).phase = StablePhaseOf[Settle(c, o).path]
      BY <3>1 DEF WellFormed
    <3> QED
      BY <2>1, <2>3, <3>2, RecoverFromSafe
  <2> QED
    BY <2>2, <2>3
<1>5. CASE ~RecoveryBlocked(o) /\ ~InTransition(c)
  <2>1. StepRecovery(c, o) = RecoverFrom(c, o)
    BY <1>5 DEF StepRecovery
  <2>2. IsAmbiguous(o) => c.path # "isolated"
    BY <1>5 DEF IsAmbiguous, InTransition, Transitions
  <2> QED
    BY <1>0, <2>1, <2>2, RecoverFromSafe DEF WellFormed
<1> QED
  BY <1>1, <1>2, <1>3, <1>4, <1>5

\* mark_interrupted forgets the path of a step under way.
LEMMA MarkInterruptedWellFormed ==
  ASSUME NEW c, WellFormed(c)
  PROVE  /\ WellFormed(MarkInterrupted(c))
         /\ \/ MarkInterrupted(c) = c
            \/ MarkInterrupted(c).path = "unknown"
<1>1. c \in Controller
  BY DEF WellFormed
<1> QED
  BY <1>1, RequireRecoveryWellFormed DEF MarkInterrupted

\* RequestReset and BeginRecovery only re-initialise what they found.
LEMMA InitializedWellFormed ==
  ASSUME NEW c, WellFormed(c)
  PROVE  /\ WellFormed([c EXCEPT !.initialized = TRUE])
         /\ [c EXCEPT !.initialized = TRUE].path = c.path
<1> DEFINE d == [c EXCEPT !.initialized = TRUE]
<1>1. c \in Controller
  BY DEF WellFormed
<1>2. /\ d \in Controller
      /\ d.path = c.path /\ d.phase = c.phase
      /\ d.deadline = c.deadline /\ d.lostFor = c.lostFor
  BY <1>1 DEF Controller
<1> HIDE DEF d
<1>3. WellFormed(d)
  BY <1>2 DEF WellFormed, InTransition
<1> QED
  BY <1>2, <1>3 DEF d

\* begin_recovery forgets the path.
LEMMA BeginRecoveryWellFormed ==
  ASSUME NEW c, WellFormed(c)
  PROVE  WellFormed(BeginRecovery(c)) /\ BeginRecovery(c).path = "unknown"
<1>1. c \in Controller
  BY DEF WellFormed
<1> DEFINE d == SetUnknown(c, "recovery_required")
<1>2. WellFormed(d) /\ d.path = "unknown"
  BY <1>1, SetUnknownWellFormed
<1> HIDE DEF d
<1>3. BeginRecovery(c) = [d EXCEPT !.initialized = TRUE]
  BY DEF BeginRecovery, d
<1> QED
  BY <1>2, <1>3, InitializedWellFormed

\* request_recovery_reset takes the path from the readings.
LEMMA RequestResetWellFormed ==
  ASSUME NEW c, WellFormed(c), NEW obs \in Observation
  PROVE  WellFormed(RequestReset(c, obs))
<1>1. c \in Controller
  BY DEF WellFormed
<1>2. CASE ~ResetPermitted(obs)
  BY <1>2 DEF RequestReset
<1>3. CASE ResetPermitted(obs)
  <2> DEFINE d == SetStable(c, Topology(obs))
  <2>1. ~IsAmbiguous(obs)
    BY <1>3 DEF ResetPermitted, IsAmbiguous
  <2>2. WellFormed(d)
    BY <1>1, <2>1, SetStableWellFormed
  <2>3. RequestReset(c, obs) = [d EXCEPT !.initialized = TRUE]
    BY <1>3 DEF RequestReset
  <2> HIDE DEF d
  <2> QED
    BY <2>2, <2>3, InitializedWellFormed
<1> QED
  BY <1>2, <1>3

-------------------------------------------------------------------------------
(***************************************************************************)
(* The invariant.                                                          *)
(***************************************************************************)

\* TransferInv in terms of the lemmas above.
LEMMA InvMeaning ==
  TransferInv <=>
    /\ WellFormed(t)
    /\ o \in Observation
    /\ pending \in TransferCommand \cup {Nothing}
    /\ requested \in BOOLEAN
    /\ reset \in BOOLEAN
    /\ NoStaleIsolation
BY DEF TransferInv, TypeOK, PhaseMatchesPath, StepIsTimed, WellFormed

\* A changed reading is an observation.
LEMMA ObservationUpdate ==
  ASSUME o \in Observation, NEW field \in Switches, NEW v \in Tri
  PROVE  [o EXCEPT ![field] = v] \in Observation
BY DEF Observation, Switches

\* A thrown switch is an observation.
LEMMA ThrowTypes ==
  ASSUME o \in Observation, NEW command \in TransferCommand
  PROVE  Throw(command) \in Observation
BY DEF Throw, Observation, TransferCommand, Tri

\* The start is a state of the invariant.
LEMMA InitInv == Init => TransferInv
<1> SUFFICES ASSUME Init PROVE TransferInv
  OBVIOUS
<1>1. NewController \in Controller
  BY ConfirmTimeoutAssumption
     DEF NewController, Controller, NoTimer, TransferPhase, PowerPath, PowerSource
<1>2. WellFormed(NewController)
  BY <1>1
     DEF WellFormed, NewController, StablePhases, InTransition, Transitions
<1>3. o \in Observation
  BY DEF Init, Observation, Tri, GridInputState
<1> QED
  BY <1>2, <1>3, InvMeaning DEF Init, NoStaleIsolation

\* What a tick starts from: the controller after it observed.
LEMMA ObservedCases ==
  ASSUME TransferInv
  PROVE  /\ WellFormed(Observed)
         /\ reset /\ Observed.path = "isolated" =>
              \/ Topology(o).path = "isolated" /\ ~InTransition(Observed)
              \/ Observed.phase = "connecting_grid"
<1>1. WellFormed(t) /\ o \in Observation /\ NoStaleIsolation
  BY InvMeaning
<1> DEFINE e == Elapse(t)
<1>2. WellFormed(e) /\ e.phase = t.phase /\ e.path = t.path
  BY <1>1, ElapseWellFormed
<1> HIDE DEF e
<1>3. Observed = Observe(e, o)
  BY DEF Observed, e
<1> QED
  BY <1>1, <1>2, <1>3, ObserveCases DEF NoStaleIsolation

\* Every kind of tick keeps the invariant.
LEMMA TickInv ==
  ASSUME TransferInv, Tick
  PROVE  TransferInv'
<1>1. /\ WellFormed(t) /\ o \in Observation
      /\ pending \in TransferCommand \cup {Nothing}
      /\ requested \in BOOLEAN /\ reset \in BOOLEAN
  BY InvMeaning
<1>2. Nothing \in TransferCommand \cup {Nothing}
  OBVIOUS
<1> DEFINE u == Observed
<1>3. WellFormed(u)
  BY ObservedCases
<1>4. SUFFICES /\ WellFormed(t')
               /\ o' = o
               /\ pending' \in TransferCommand \cup {Nothing}
               /\ requested' \in BOOLEAN /\ reset' \in BOOLEAN
               /\ reset' /\ t'.path = "isolated" => t'.phase = "connecting_grid"
  BY <1>1, InvMeaning DEF TransferInv, TypeOK, PhaseMatchesPath, StepIsTimed,
       WellFormed, NoStaleIsolation, InTransition
<1>5. CASE NormalTick
  <2>1. PICK desired \in {"grid", "generator", "ups_only", Nothing},
             ready \in BOOLEAN :
          /\ t' = AfterPlan(u, o, Planned(u, o, desired, ready, TRUE))
          /\ pending' = Planned(u, o, desired, ready, TRUE)
    BY <1>5 DEF NormalTick
  <2>2. WellFormed(Elapse(t))
    BY <1>1, ElapseWellFormed
  <2>3. /\ pending' \in TransferCommand \cup {Nothing}
        /\ WellFormed(t')
    BY <1>1, <2>1, <2>2, NormalPlanSafe DEF Observed
  <2> QED
    BY <1>1, <1>5, <2>3 DEF NormalTick
<1>6. CASE ResetRequestTick
  <2>1. WellFormed(BeginRecovery(u)) /\ BeginRecovery(u).path = "unknown"
    BY <1>3, BeginRecoveryWellFormed
  <2>2. WellFormed(RequestReset(u, o))
    BY <1>1, <1>3, RequestResetWellFormed
  <2>3. GridPathConfirmed(u) => u.path = "grid"
    BY DEF GridPathConfirmed
  <2> HIDE DEF u
  <2> QED
    BY <1>1, <1>2, <1>3, <1>6, <2>1, <2>2, <2>3 DEF ResetRequestTick, u
<1>7. CASE ResetBlockedTick
  BY <1>1, <1>2, <1>3, <1>7 DEF ResetBlockedTick
<1>8. CASE ResetDriveTick
  <2>1. u.path = "isolated" =>
          \/ Topology(o).path = "isolated" /\ ~InTransition(u)
          \/ u.phase = "connecting_grid"
    BY <1>8, ObservedCases DEF ResetDriveTick
  <2> DEFINE outcome == StepRecovery(u, o)
  <2>2. /\ WellFormed(outcome.t)
        /\ outcome.command \in TransferCommand \cup {Nothing}
        /\ outcome.failed \in BOOLEAN
        /\ ~outcome.failed /\ outcome.t.path = "isolated" =>
             outcome.t.phase = "connecting_grid"
    <3> HIDE DEF u
    <3> QED
      BY <1>1, <1>3, <2>1, StepRecoverySafe
  <2>3. /\ t' = outcome.t /\ pending' = outcome.command
        /\ reset' = ~outcome.failed /\ requested' = FALSE /\ o' = o
    BY <1>8 DEF ResetDriveTick
  <2> HIDE DEF outcome
  <2> QED
    BY <2>2, <2>3
<1>9. CASE ResetFinishTick
  <2>1. WellFormed(RequestReset(u, o))
    BY <1>1, <1>3, RequestResetWellFormed
  <2>2. u.path = "grid"
    BY <1>9 DEF ResetFinishTick, GridPathConfirmed
  <2> HIDE DEF u
  <2> QED
    BY <1>1, <1>2, <1>3, <1>9, <2>1, <2>2 DEF ResetFinishTick, u
<1> QED
  BY <1>5, <1>6, <1>7, <1>8, <1>9 DEF Tick

\* So do the environment, the adapter, a broken connection and a restart.
LEMMA EnvironmentInv ==
  ASSUME TransferInv,
         \/ ReadingChanges \/ RequestRecoveryReset \/ TimePasses
         \/ Execute \/ Refuse \/ Disconnect \/ Restart \/ UNCHANGED vars
  PROVE  TransferInv'
<1>1. /\ WellFormed(t) /\ o \in Observation
      /\ pending \in TransferCommand \cup {Nothing}
      /\ requested \in BOOLEAN /\ reset \in BOOLEAN
      /\ NoStaleIsolation
  BY InvMeaning
<1>2. SUFFICES /\ WellFormed(t')
               /\ o' \in Observation
               /\ pending' \in TransferCommand \cup {Nothing}
               /\ requested' \in BOOLEAN /\ reset' \in BOOLEAN
               /\ reset' /\ t'.path = "isolated" => t'.phase = "connecting_grid"
  BY DEF TransferInv, TypeOK, PhaseMatchesPath, StepIsTimed,
       WellFormed, NoStaleIsolation, InTransition
<1>3. CASE ReadingChanges
  <2>1. o' \in Observation
    <3>1. CASE \E field \in Switches : \E v \in Readings(field) \ {o[field]} :
                 o' = [o EXCEPT ![field] = v]
      BY <1>1, <3>1, ObservationUpdate DEF Readings, Tri
    <3>2. CASE \E v \in {"normal", "lost"} \ {o.gridInput} :
                 o' = [o EXCEPT !.gridInput = v]
      BY <1>1, <3>2 DEF Observation, GridInputState
    <3> QED
      BY <1>3, <3>1, <3>2 DEF ReadingChanges
  <2> QED
    BY <1>1, <1>3, <2>1 DEF ReadingChanges, NoStaleIsolation
<1>4. CASE RequestRecoveryReset
  BY <1>1, <1>4 DEF RequestRecoveryReset, NoStaleIsolation
<1>5. CASE TimePasses
  <2>1. WellFormed(t') /\ t'.phase = t.phase /\ t'.path = t.path
    BY <1>1, <1>5, ElapseWellFormed DEF TimePasses
  <2> QED
    BY <1>1, <1>5, <2>1 DEF TimePasses, NoStaleIsolation
<1>6. CASE Execute
  <2>1. o' \in Observation
    BY <1>1, <1>6, ThrowTypes DEF Execute
  <2> QED
    BY <1>1, <1>6, <2>1 DEF Execute, NoStaleIsolation
<1>7. CASE Refuse \/ Disconnect
  <2>1. o' \in Observation
    BY <1>1, <1>7, ThrowTypes DEF Refuse, Disconnect
  <2>2. t' = MarkInterrupted(t) /\ requested' = requested /\ reset' = reset
    BY <1>7 DEF Refuse, Disconnect
  <2>3. pending' = Nothing
    BY <1>7 DEF Refuse, Disconnect
  <2> QED
    BY <1>1, <2>1, <2>2, <2>3, MarkInterruptedWellFormed DEF NoStaleIsolation
<1>8. CASE Restart
  <2>1. NewController \in Controller
    BY ConfirmTimeoutAssumption
       DEF NewController, Controller, NoTimer, TransferPhase, PowerPath, PowerSource
  <2>2. WellFormed(NewController)
    BY <2>1
       DEF WellFormed, NewController, StablePhases, InTransition, Transitions
  <2> QED
    BY <1>1, <1>8, <2>2 DEF Restart
<1>9. CASE UNCHANGED vars
  BY <1>1, <1>9 DEF vars, NoStaleIsolation
<1> QED
  BY <1>3, <1>4, <1>5, <1>6, <1>7, <1>8, <1>9

\* Every interleaving of the program and its environment keeps the invariant.
THEOREM TransferInvariant == Spec => []TransferInv
<1>1. TransferInv /\ [Next]_vars => TransferInv'
  BY TickInv, EnvironmentInv DEF Next
<1> QED
  BY <1>1, InitInv, PTL DEF Spec

-------------------------------------------------------------------------------
(***************************************************************************)
(* The properties.                                                         *)
(***************************************************************************)

\* The variables keep their types.
THEOREM SpecTypes == Spec => []TypeOK
<1>1. TransferInv => TypeOK
  BY DEF TransferInv
<1> QED
  BY <1>1, TransferInvariant, PTL

\* A stable phase always names the path the controller believes in.
THEOREM StablePhaseNamesPath == Spec => []PhaseMatchesPath
<1>1. TransferInv => PhaseMatchesPath
  BY DEF TransferInv
<1> QED
  BY <1>1, TransferInvariant, PTL

\* A step under way always has a running clock (_settle_transition).
THEOREM StepsAreTimed == Spec => []StepIsTimed
<1>1. TransferInv => StepIsTimed
  BY DEF TransferInv
<1> QED
  BY <1>1, TransferInvariant, PTL

\* A recovery reset never acts on an isolation it only remembers.
THEOREM ResetNeverTrustsOldIsolation == Spec => []NoStaleIsolation
<1>1. TransferInv => NoStaleIsolation
  BY DEF TransferInv
<1> QED
  BY <1>1, TransferInvariant, PTL

\* The fields of the controller tell one story (power_transfer.py).
THEOREM ControllerIsConsistent == Spec => []ControllerConsistent
<1>1. TransferInv => ControllerConsistent
  BY DEF TransferInv, ControllerConsistent
<1> QED
  BY <1>1, TransferInvariant, PTL

\* Whatever the controller plans, in normal operation or during a recovery
\* reset, the adapter's interlock accepts on the readings it was planned from.
THEOREM PlannerRespectsInterlock == Spec => PlannedIsAllowed
<1>1. TransferInv /\ [Next]_vars => [pending = Nothing => InterlockAllows(pending')]_vars
  <2> SUFFICES ASSUME TransferInv, Next, pending = Nothing
               PROVE  InterlockAllows(pending')
    OBVIOUS
  <2>1. WellFormed(t) /\ o \in Observation
    BY InvMeaning
  <2>2. CASE NormalTick
    <3>1. PICK desired, ready :
            pending' = Planned(Observed, o, desired, ready, TRUE)
      BY <2>2 DEF NormalTick
    <3>2. WellFormed(Elapse(t))
      BY <2>1, ElapseWellFormed
    <3> QED
      BY <2>1, <3>1, <3>2, NormalPlanSafe DEF Observed
  <2>3. CASE ResetDriveTick
    <3>1. /\ WellFormed(Observed)
          /\ Observed.path = "isolated" =>
               \/ Topology(o).path = "isolated" /\ ~InTransition(Observed)
               \/ Observed.phase = "connecting_grid"
      BY <2>3, ObservedCases DEF ResetDriveTick
    <3>2. pending' = StepRecovery(Observed, o).command
      BY <2>3 DEF ResetDriveTick
    <3> QED
      BY <2>1, <3>1, <3>2, StepRecoverySafe
  <2>4. CASE /\ Next
             /\ ~NormalTick /\ ~ResetDriveTick
    <3>1. pending' = Nothing
      BY <2>4 DEF Next, Tick, ReadingChanges, RequestRecoveryReset, TimePasses,
           ResetRequestTick, ResetBlockedTick, ResetFinishTick,
           Execute, Refuse, Disconnect, Restart
    <3> QED
      BY <3>1 DEF InterlockAllows, Nothing
  <2> QED
    BY <2>2, <2>3, <2>4
<1> QED
  BY <1>1, TransferInvariant, PTL DEF Spec, PlannedIsAllowed

\* Observing never ends a recovery that is required.
LEMMA ObserveKeepsRecovery ==
  ASSUME NEW c, WellFormed(c), c.initialized, c.phase = "recovery_required",
         NEW obs \in Observation
  PROVE  Observe(c, obs).phase = "recovery_required"
<1>0. c \in Controller
  BY DEF WellFormed
<1>1. CASE ~RequiredStatesKnown(obs)
  BY <1>1 DEF Observe
<1>2. CASE RequiredStatesKnown(obs) /\ UnsafeOverlap(obs)
  <2>1. Observe(c, obs) = RequireRecovery(c)
    BY <1>2 DEF Observe
  <2> QED
    BY <1>0, <2>1, RequireRecoveryWellFormed
<1>3. CASE RequiredStatesKnown(obs) /\ ~UnsafeOverlap(obs)
  <2>1. Observe(c, obs) = Follow(c, obs)
    BY <1>3 DEF Observe
  <2>2. Follow(c, obs) = ObserveOnly(c, obs)
    BY DEF Follow, InTransition, Transitions
  <2> QED
    BY <2>1, <2>2, ObserveOnlyWellFormed
<1> QED
  BY <1>1, <1>2, <1>3

\* A controller that needs recovery observes in that phase, and plans nothing.
LEMMA RecoveryObserved ==
  ASSUME TransferInv, t.phase = "recovery_required", t.initialized
  PROVE  /\ Observed.phase = "recovery_required"
         /\ \A desired, ready : Planned(Observed, o, desired, ready, TRUE) = Nothing
<1>1. WellFormed(t) /\ t \in Controller /\ o \in Observation
  BY InvMeaning DEF WellFormed
<1> DEFINE e == Elapse(t)
<1>2. e.initialized = t.initialized
  BY <1>1 DEF Elapse, Controller
<1>3. WellFormed(e) /\ e.phase = t.phase
  BY <1>1, ElapseWellFormed
<1> HIDE DEF e
<1>4. Observed = Observe(e, o)
  BY DEF Observed, e
<1>5. Observed.phase = "recovery_required"
  BY <1>1, <1>2, <1>3, <1>4, ObserveKeepsRecovery
<1>6. \A desired, ready : Planned(Observed, o, desired, ready, TRUE) = Nothing
  BY <1>5 DEF Planned, MayPlan
<1> QED
  BY <1>5, <1>6

\* No interruption, observation or passage of time lets the controller plan
\* again before the user's reset.
THEOREM RecoveryPlansNothing == Spec => NoCommandInRecovery
<1>1. TransferInv /\ [Next]_vars =>
        [t.phase = "recovery_required" /\ t.initialized /\ pending = Nothing =>
           pending' = Nothing \/ reset]_vars
  <2> SUFFICES ASSUME TransferInv, Next, pending = Nothing, ~reset,
                      t.phase = "recovery_required", t.initialized
               PROVE  pending' = Nothing
    OBVIOUS
  <2>1. CASE NormalTick
    BY <2>1, RecoveryObserved DEF NormalTick
  <2>2. CASE ~NormalTick
    BY <2>2 DEF Next, Tick, ReadingChanges, RequestRecoveryReset, TimePasses,
         ResetRequestTick, ResetBlockedTick, ResetDriveTick, ResetFinishTick,
         Execute, Refuse, Disconnect, Restart
  <2> QED
    BY <2>1, <2>2
<1> QED
  BY <1>1, TransferInvariant, PTL DEF Spec, NoCommandInRecovery

\* Only the user's reset or a restart ends a recovery that is required.
THEOREM RecoveryLatched == Spec => RecoveryIsLatched
<1>1. TransferInv /\ [Next]_vars =>
        [t.phase = "recovery_required" /\ t.initialized =>
           \/ t'.phase = "recovery_required"
           \/ reset \/ requested
           \/ t' = NewController]_vars
  <2> SUFFICES ASSUME TransferInv, Next, ~reset, ~requested,
                      t.phase = "recovery_required", t.initialized,
                      t' # NewController
               PROVE  t'.phase = "recovery_required"
    OBVIOUS
  <2>1. WellFormed(t)
    BY InvMeaning
  <2>2. CASE NormalTick
    <3>1. t' = Observed
      BY <2>2, RecoveryObserved DEF NormalTick, AfterPlan
    <3> QED
      BY <3>1, RecoveryObserved
  <2>3. CASE TimePasses
    BY <2>1, <2>3, ElapseWellFormed DEF TimePasses
  <2>4. CASE Refuse \/ Disconnect
    BY <2>4 DEF Refuse, Disconnect, MarkInterrupted, InTransition, Transitions
  <2>5. CASE ReadingChanges \/ RequestRecoveryReset \/ Execute
    BY <2>5 DEF ReadingChanges, RequestRecoveryReset, Execute
  <2>6. ~Restart /\ ~ResetRequestTick /\ ~ResetBlockedTick
          /\ ~ResetDriveTick /\ ~ResetFinishTick
    BY DEF Restart, ResetRequestTick, ResetBlockedTick, ResetDriveTick,
         ResetFinishTick
  <2> QED
    BY <2>2, <2>3, <2>4, <2>5, <2>6 DEF Next, Tick
<1> QED
  BY <1>1, TransferInvariant, PTL DEF Spec, RecoveryIsLatched

-------------------------------------------------------------------------------
(***************************************************************************)
(* One step at a time.                                                     *)
(***************************************************************************)

\* A step is only ever under way in a controller that has been initialised.
Started(c) == InTransition(c) => c.initialized

\* Following the readings leaves the initialisation alone and begins no step.
LEMMA FollowStarts ==
  ASSUME NEW c, WellFormed(c), NEW obs \in Observation
  PROVE  /\ Follow(c, obs).initialized = c.initialized
         /\ InTransition(Follow(c, obs)) => InTransition(c)
<1>0. c \in Controller
  BY DEF WellFormed
<1>1. CASE c.phase = "recovery_required"
  <2>1. Follow(c, obs) = ObserveOnly(c, obs)
    BY <1>1 DEF Follow, InTransition, Transitions
  <2>2. ~InTransition(ObserveOnly(c, obs))
    BY <1>1, ObserveOnlyWellFormed DEF InTransition, Transitions
  <2>3. ObserveOnly(c, obs).initialized = c.initialized
    BY <1>0 DEF ObserveOnly, Controller
  <2> QED
    BY <2>1, <2>2, <2>3
<1>2. CASE InTransition(c)
  <2>1. Follow(c, obs) \in {RequireRecovery(c), c, SetStable(c, Topology(obs)),
                            LoseFeedback(Settle(c, obs))}
    BY <1>2 DEF Follow, InTransition, Transitions
  <2>2. /\ RequireRecovery(c).initialized = c.initialized
        /\ SetStable(c, Topology(obs)).initialized = c.initialized
    BY <1>0 DEF RequireRecovery, SetUnknown, SetStable, Controller
  <2>3. LoseFeedback(Settle(c, obs)).initialized = c.initialized
    BY <1>0 DEF LoseFeedback, Settle, SetStable, RequireRecovery, SetUnknown, Controller
  <2> QED
    BY <1>2, <2>1, <2>2, <2>3
<1>3. CASE c.phase # "recovery_required" /\ ~InTransition(c)
  <2>1. CASE IsAmbiguous(obs)
    <3>1. Follow(c, obs) = LoseFeedback(c)
      BY <1>3, <2>1 DEF Follow
    <3>2. /\ LoseFeedback(c).initialized = c.initialized
          /\ LoseFeedback(c).phase \in {c.phase, "recovery_required"}
      BY <1>0 DEF LoseFeedback, RequireRecovery, SetUnknown, Controller
    <3> QED
      BY <1>3, <3>1, <3>2 DEF InTransition, Transitions
  <2>2. CASE ~IsAmbiguous(obs)
    <3>1. Follow(c, obs) = SetStable(c, Topology(obs))
      BY <1>3, <2>2 DEF Follow
    <3>2. SetStable(c, Topology(obs)).initialized = c.initialized
      BY <1>0 DEF SetStable, Controller
    <3> QED
      BY <1>0, <2>2, <3>1, <3>2, SetStableWellFormed
  <2> QED
    BY <2>1, <2>2
<1> QED
  BY <1>1, <1>2, <1>3

\* A tick on complete readings leaves the controller initialised, and no
\* observation begins a step.
LEMMA ObserveStarts ==
  ASSUME NEW c, WellFormed(c), Started(c), NEW obs \in Observation
  PROVE  /\ Started(Observe(c, obs))
         /\ RequiredStatesKnown(obs) /\ ~UnsafeOverlap(obs) =>
              Observe(c, obs).initialized
<1>0. c \in Controller
  BY DEF WellFormed
<1>1. CASE ~RequiredStatesKnown(obs)
  <2>1. Observe(c, obs) \in {c, SetUnknown(c, "waiting_for_data")}
    BY <1>1 DEF Observe
  <2>2. ~InTransition(SetUnknown(c, "waiting_for_data"))
    BY <1>0, SetUnknownWellFormed DEF InTransition, Transitions
  <2> QED
    BY <1>1, <2>1, <2>2 DEF Started
<1>2. CASE RequiredStatesKnown(obs) /\ UnsafeOverlap(obs)
  <2>1. Observe(c, obs) = RequireRecovery(c)
    BY <1>2 DEF Observe
  <2> QED
    BY <1>0, <1>2, <2>1, RequireRecoveryWellFormed DEF Started, InTransition, Transitions
<1>3. CASE RequiredStatesKnown(obs) /\ ~UnsafeOverlap(obs)
  <2>1. CASE c.initialized
    <3>1. Observe(c, obs) = Follow(c, obs)
      BY <1>3, <2>1 DEF Observe
    <3> QED
      BY <2>1, <3>1, FollowStarts DEF Started
  <2>2. CASE ~c.initialized
    <3> DEFINE d == Initialize(c, obs)
    <3>1. WellFormed(d) /\ ~InTransition(d)
      BY InitializeCases
    <3>2. d.initialized
      BY <1>0 DEF Initialize, RequireRecovery, SetUnknown, SetStable, Controller
    <3> HIDE DEF d
    <3>3. Observe(c, obs) \in {d, Follow(d, obs)}
      BY <1>3, <2>2 DEF Observe, d
    <3> QED
      BY <3>1, <3>2, <3>3, FollowStarts DEF Started
  <2> QED
    BY <2>1, <2>2
<1> QED
  BY <1>1, <1>2, <1>3

\* Time does not initialise a controller, nor undo it.
LEMMA ElapseStarts ==
  ASSUME NEW c, WellFormed(c), Started(c)
  PROVE  Started(Elapse(c))
<1>1. Elapse(c).initialized = c.initialized
  BY DEF WellFormed, Elapse, Controller
<1> QED
  BY <1>1, ElapseWellFormed DEF Started, InTransition

\* A planned command goes to a controller that has been initialised.
LEMMA NormalPlanStarts ==
  ASSUME NEW c, WellFormed(c), Started(c), o \in Observation,
         NEW desired, NEW ready
  PROVE  LET u == Observe(c, o)
         IN  Started(AfterPlan(u, o, Planned(u, o, desired, ready, TRUE)))
<1> DEFINE u == Observe(c, o)
           command == Planned(u, o, desired, ready, TRUE)
<1>1. u \in Controller /\ Started(u)
  BY ObserveCases, ObserveStarts DEF WellFormed
<1>2. CASE command = Nothing
  BY <1>1, <1>2 DEF AfterPlan
<1>3. CASE command # Nothing
  <2>1. RequiredStatesKnown(o) /\ u.phase # "recovery_required"
    BY <1>3 DEF Planned, MayPlan
  <2>2. ~UnsafeOverlap(o)
    <3>1. UnsafeOverlap(o) => u = RequireRecovery(c)
      BY <2>1 DEF Observe
    <3> QED
      BY <2>1, <3>1, RequireRecoveryWellFormed DEF WellFormed
  <2>3. u.initialized
    BY <2>1, <2>2, ObserveStarts
  <2> HIDE DEF u, command
  <2>4. AfterPlan(u, o, command).initialized
    BY <1>1, <1>3, <2>3 DEF AfterPlan, Begin, Controller
  <2> QED
    BY <2>4 DEF Started, u, command
<1> QED
  BY <1>2, <1>3

\* Neither does a recovery step undo the initialisation.
LEMMA StepRecoveryStarts ==
  ASSUME NEW c \in Controller, NEW obs \in Observation
  PROVE  StepRecovery(c, obs).t.initialized = c.initialized
<1>1. ASSUME NEW d \in Controller
      PROVE  /\ RequireRecovery(d).initialized = d.initialized
             /\ LoseFeedback(d).initialized = d.initialized
             /\ RecoverFrom(d, obs).t.initialized = d.initialized
  <2> DEFINE u == IF IsAmbiguous(obs) THEN d ELSE SetStable(d, Topology(obs))
             begun(command) == Begin([u EXCEPT !.lostFor = NoTimer], command)
  <2>1. u \in Controller /\ u.initialized = d.initialized
    <3>1. ~IsAmbiguous(obs) => SetStable(d, Topology(obs)) \in Controller
      BY SetStableWellFormed DEF WellFormed
    <3>2. SetStable(d, Topology(obs)).initialized = d.initialized
      BY DEF SetStable, Controller
    <3> QED
      BY <3>1, <3>2
  <2>2. RequireRecovery(d).initialized = d.initialized
    BY DEF RequireRecovery, SetUnknown, Controller
  <2>3. \A e \in Controller : LoseFeedback(e).initialized = e.initialized
    BY DEF LoseFeedback, RequireRecovery, SetUnknown, Controller
  <2>4. \A command : begun(command).initialized = u.initialized
    <3> HIDE DEF u
    <3> QED
      BY <2>1 DEF Begin, Controller
  <2>5. RecoverFrom(d, obs).t \in {u, LoseFeedback(u)}
          \/ \E command : RecoverFrom(d, obs).t = begun(command)
    BY DEF RecoverFrom, Outcome
  <2> HIDE DEF u, begun
  <2> QED
    BY <2>1, <2>2, <2>3, <2>4, <2>5
<1>2. Settle(c, obs) \in Controller /\ Settle(c, obs).initialized = c.initialized
  <2>1. NoTimer \in NoTimer..ConfirmTimeout
    BY ConfirmTimeoutAssumption DEF NoTimer
  <2>2. CASE IsAmbiguous(obs)
    BY <2>1, <2>2 DEF Settle, Controller
  <2>3. CASE ~IsAmbiguous(obs)
    <3>1. Settle(c, obs) = SetStable(c, Topology(obs))
      BY <2>3 DEF Settle
    <3>2. SetStable(c, Topology(obs)).initialized = c.initialized
      BY DEF SetStable, Controller
    <3> QED
      BY <2>3, <3>1, <3>2, SetStableWellFormed DEF WellFormed
  <2> QED
    BY <2>2, <2>3
<1>3. StepRecovery(c, obs).t \in {c, RequireRecovery(c), RecoverFrom(c, obs).t,
                                  RecoverFrom(Settle(c, obs), obs).t}
  BY DEF StepRecovery, Outcome
<1> QED
  BY <1>1, <1>2, <1>3

\* The steps of the system keep Started.
LEMMA StartedNext ==
  ASSUME TransferInv, Started(t), [Next]_vars
  PROVE  Started(t')
<1>1. WellFormed(t) /\ t \in Controller /\ o \in Observation
  BY InvMeaning DEF WellFormed
<1>2. WellFormed(Elapse(t)) /\ Started(Elapse(t))
  BY <1>1, ElapseWellFormed, ElapseStarts
<1>3. /\ WellFormed(Observed) /\ Observed \in Controller
      /\ Started(Observed)
      /\ ~RecoveryBlocked(o) => Observed.initialized
  BY <1>1, <1>2, ObserveCases, ObserveStarts DEF Observed, WellFormed, RecoveryBlocked
<1>4. Started(RequestReset(Observed, o))
  BY <1>3 DEF RequestReset, Started, SetStable, Controller
<1>5. CASE NormalTick
  <2>1. PICK desired, ready :
          t' = AfterPlan(Observed, o, Planned(Observed, o, desired, ready, TRUE))
    BY <1>5 DEF NormalTick
  <2> QED
    BY <1>1, <1>2, <2>1, NormalPlanStarts DEF Observed
<1>6. CASE ResetRequestTick
  <2>1. Started(BeginRecovery(Observed))
    BY <1>3 DEF BeginRecovery, SetUnknown, Started, Controller
  <2>2. t' \in {Observed, BeginRecovery(Observed), RequestReset(Observed, o)}
    BY <1>6 DEF ResetRequestTick
  <2> QED
    BY <1>3, <1>4, <2>1, <2>2
<1>7. CASE ResetBlockedTick
  BY <1>3, <1>7 DEF ResetBlockedTick
<1>8. CASE ResetDriveTick
  <2>1. t' = StepRecovery(Observed, o).t /\ Observed.initialized
    BY <1>3, <1>8 DEF ResetDriveTick
  <2>2. t'.initialized
    BY <1>1, <1>3, <2>1, StepRecoveryStarts
  <2> QED
    BY <2>2 DEF Started
<1>9. CASE ResetFinishTick
  BY <1>3, <1>4, <1>9 DEF ResetFinishTick
<1>10. CASE TimePasses
  BY <1>2, <1>10 DEF TimePasses
<1>11. CASE Refuse \/ Disconnect
  <2>1. t' = MarkInterrupted(t)
    BY <1>11 DEF Refuse, Disconnect
  <2>2. MarkInterrupted(t) = t \/ MarkInterrupted(t) = RequireRecovery(t)
    BY DEF MarkInterrupted
  <2> QED
    BY <1>1, <2>1, <2>2, RequireRecoveryWellFormed DEF Started, InTransition, Transitions
<1>12. CASE Restart
  BY <1>12 DEF Restart, NewController, Started, InTransition, Transitions
<1>13. CASE ReadingChanges \/ RequestRecoveryReset \/ Execute \/ UNCHANGED vars
  BY <1>13 DEF ReadingChanges, RequestRecoveryReset, Execute, vars
<1> QED
  BY <1>5, <1>6, <1>7, <1>8, <1>9, <1>10, <1>11, <1>12, <1>13 DEF Next, Tick

\* Every step under way belongs to an initialised controller.
LEMMA StartedAlways == Spec => [](TransferInv /\ Started(t))
<1>1. Init => Started(t)
  BY DEF Init, NewController, Started, InTransition, Transitions
<1>2. TransferInv /\ Started(t) /\ [Next]_vars => Started(t)'
  BY StartedNext
<1> QED
  BY <1>1, <1>2, TransferInvariant, PTL DEF Spec

\* A step that is neither confirmed nor timed out is left alone, unless both
\* branches read closed, which requires recovery.
LEMMA UnconfirmedWaits ==
  ASSUME NEW c, WellFormed(c), Started(c), InTransition(c), NEW obs \in Observation,
         ~TimedOut(c), ~Confirmed(c, obs)
  PROVE  \/ Observe(c, obs) = c
         \/ Observe(c, obs).phase = "recovery_required" /\ UnsafeOverlap(obs)
<1>1. c.initialized /\ c \in Controller
  BY DEF Started, WellFormed
<1>2. Follow(c, obs) = c
  BY DEF Follow, InTransition, Transitions
<1>3. RequireRecovery(c).phase = "recovery_required"
  BY <1>1, RequireRecoveryWellFormed
<1> QED
  BY <1>1, <1>2, <1>3 DEF Observe

\* Neither normal planning nor a recovery reset issues a command while an
\* earlier one is unconfirmed and within its time.
THEOREM StepsAreSequential == Spec => OneStepAtATime
<1> DEFINE A == pending = Nothing /\ pending' # Nothing /\ InTransition(t) =>
                  Confirmed(t, o) \/ TimedOut(Elapse(t))
<1>1. TransferInv /\ Started(t) /\ [Next]_vars => [A]_vars
  <2> SUFFICES ASSUME TransferInv, Started(t), Next, pending = Nothing,
                      InTransition(t), ~Confirmed(t, o), ~TimedOut(Elapse(t))
               PROVE  pending' = Nothing
    OBVIOUS
  <2>1. WellFormed(t) /\ o \in Observation
    BY InvMeaning
  <2> DEFINE e == Elapse(t)
  <2>2. WellFormed(e) /\ Started(e) /\ e.phase = t.phase
    BY <2>1, ElapseWellFormed, ElapseStarts
  <2>3. ~TimedOut(e)
    OBVIOUS
  <2>4. Observed = Observe(e, o)
    BY DEF Observed
  <2> HIDE DEF e
  <2>5. InTransition(e) /\ ~Confirmed(e, o)
    BY <2>2 DEF InTransition, Confirmed
  <2>6. \/ Observed = e
        \/ Observed.phase = "recovery_required" /\ UnsafeOverlap(o)
    BY <2>1, <2>2, <2>3, <2>4, <2>5, UnconfirmedWaits
  <2>7. CASE NormalTick
    <3>1. PICK desired, ready :
            pending' = Planned(Observed, o, desired, ready, TRUE)
      BY <2>7 DEF NormalTick
    <3> QED
      BY <2>5, <2>6, <3>1 DEF Planned, MayPlan
  <2>8. CASE ResetDriveTick
    <3>1. /\ ~RecoveryBlocked(o)
          /\ pending' = StepRecovery(Observed, o).command
      BY <2>8 DEF ResetDriveTick
    <3>2. Observed = e
      BY <2>6, <3>1 DEF RecoveryBlocked
    <3>3. StepRecovery(e, o) = Outcome(e, Nothing, FALSE)
      BY <2>3, <2>5, <3>1 DEF StepRecovery
    <3> QED
      BY <3>1, <3>2, <3>3 DEF Outcome
  <2>9. CASE ~NormalTick /\ ~ResetDriveTick
    BY <2>9 DEF Next, Tick, ReadingChanges, RequestRecoveryReset, TimePasses,
         ResetRequestTick, ResetBlockedTick, ResetFinishTick,
         Execute, Refuse, Disconnect, Restart
  <2> QED
    BY <2>7, <2>8, <2>9
<1> HIDE DEF A
<1>2. Spec => [][A]_vars
  BY <1>1, StartedAlways, PTL DEF Spec
<1> QED
  BY <1>2 DEF A, OneStepAtATime
===============================================================================
