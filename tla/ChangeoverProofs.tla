---------------------------- MODULE ChangeoverProofs ----------------------------
(***************************************************************************)
(* PowerTransfer implements Changeover, for every confirmation timeout and *)
(* every set of readings that may be lost.                                 *)
(*                                                                         *)
(* A step of the transfer is a step of the changeover or changes nothing   *)
(* in it.  The passage of time and of readings is the latter; a tick looks *)
(* at the house or orders a throw; the adapter answers it.  What has to be *)
(* shown is how far observing can carry the controller: it never ends a    *)
(* recovery, and it ends a connection only when that is confirmed, on a    *)
(* house that is then not isolated and is connected nowhere else.          *)
(***************************************************************************)
EXTENDS PowerTransferProofs

\* A controller has left its first phase exactly when it has looked at the house;
\* an overlap of both supplies may send it to recovery before.
PhaseFits(c) ==
  /\ c.initialized => c.phase # "waiting_for_data"
  /\ ~c.initialized => c.phase \in {"waiting_for_data", "recovery_required"}

\* Stage and Step of a controller c.
StageOf(c) ==
  CASE ~c.initialized -> "waiting"
    [] c.initialized /\ c.phase \in StablePhases -> "still"
    [] c.initialized /\ InTransition(c) -> "moving"
    [] OTHER -> "recovery"

StepOf(c) ==
  IF InTransition(c) THEN CHOOSE command \in TransferCommand : PhaseOf[command] = c.phase
  ELSE Nothing

\* What looking at the house may make of a controller c.
Later(c, u) ==
  \/ StageOf(u) = StageOf(c) /\ StepOf(u) = StepOf(c)
  \/ StageOf(u) = "recovery" /\ StepOf(u) = Nothing
  \/ StageOf(c) # "recovery" /\ StageOf(u) = "still" /\ StepOf(u) = Nothing

ChangeInv == TransferInv /\ PhaseFits(t)

-------------------------------------------------------------------------------
(***************************************************************************)
(* Stages and steps of a controller.                                       *)
(***************************************************************************)

\* A phase is of one kind only.
LEMMA PhaseKinds ==
  /\ "recovery_required" \notin StablePhases \cup Transitions
  /\ "waiting_for_data" \notin StablePhases \cup Transitions
  /\ StablePhases \cap Transitions = {}
BY DEF StablePhases, Transitions

\* The stage is read off the phase.
LEMMA StageCases ==
  ASSUME NEW c \in Controller, PhaseFits(c)
  PROVE  /\ ~c.initialized => StageOf(c) = "waiting" /\ StepOf(c) = Nothing
         /\ c.initialized /\ c.phase \in StablePhases =>
              StageOf(c) = "still" /\ StepOf(c) = Nothing
         /\ c.initialized /\ c.phase = "recovery_required" =>
              StageOf(c) = "recovery" /\ StepOf(c) = Nothing
         /\ InTransition(c) => c.initialized /\ StageOf(c) = "moving"
<1>1. c.phase \in {"waiting_for_data", "recovery_required"} =>
        c.phase \notin StablePhases /\ ~InTransition(c)
  BY PhaseKinds DEF InTransition
<1>2. c.phase \in StablePhases => ~InTransition(c)
  BY PhaseKinds DEF InTransition
<1>3. CASE ~c.initialized
  BY <1>1, <1>3 DEF StageOf, StepOf, PhaseFits
<1>4. CASE c.initialized
  BY <1>1, <1>2, <1>4 DEF StageOf, StepOf
<1> QED
  BY <1>3, <1>4

\* Different commands begin different phases.
LEMMA StepOfCommand ==
  ASSUME NEW c, NEW command \in TransferCommand, c.phase = PhaseOf[command]
  PROVE  InTransition(c) /\ StepOf(c) = command
<1>1. InTransition(c)
  BY DEF InTransition, TransferCommand, PhaseOf, Transitions
<1>2. \A d \in TransferCommand : PhaseOf[d] = c.phase => d = command
  BY DEF TransferCommand, PhaseOf
<1>3. \E d \in TransferCommand : PhaseOf[d] = c.phase
  OBVIOUS
<1> QED
  BY <1>1, <1>2, <1>3 DEF StepOf

\* Controllers of the same phase are in the same stage and step.
LEMMA SamePhase ==
  ASSUME NEW c, NEW u, u.phase = c.phase, u.initialized = c.initialized
  PROVE  /\ StageOf(u) = StageOf(c) /\ StepOf(u) = StepOf(c)
         /\ PhaseFits(c) => PhaseFits(u)
BY DEF StageOf, StepOf, PhaseFits, InTransition

\* Time does not change the phase.
LEMMA ElapseKeepsPhase ==
  ASSUME NEW c \in Controller
  PROVE  Elapse(c).phase = c.phase /\ Elapse(c).initialized = c.initialized
BY DEF Elapse, Controller

\* What the state changes do to the phase.
LEMMA StableKind ==
  ASSUME NEW c \in Controller, NEW obs \in Observation, ~IsAmbiguous(obs)
  PROVE  /\ SetStable(c, Topology(obs)).phase \in StablePhases
         /\ SetStable(c, Topology(obs)).initialized = c.initialized
         /\ SetStable(c, Topology(obs)).path = Topology(obs).path
<1>1. Topology(obs).path \in {"grid", "isolated", "generator"}
  BY TopologyFields
<1>2. StablePhaseOf[Topology(obs).path] \in StablePhases
  BY <1>1 DEF StablePhaseOf, StablePhases
<1> QED
  BY <1>2 DEF SetStable, Controller

\* Requiring recovery changes the phase, not what was looked at.
LEMMA RecoveryKind ==
  ASSUME NEW c \in Controller
  PROVE  /\ RequireRecovery(c).phase = "recovery_required"
         /\ RequireRecovery(c).initialized = c.initialized
BY DEF RequireRecovery, SetUnknown, Controller

\* Lost feedback leaves the phase, or needs recovery.
LEMMA LoseFeedbackKind ==
  ASSUME NEW c \in Controller
  PROVE  /\ LoseFeedback(c).phase \in {c.phase, "recovery_required"}
         /\ LoseFeedback(c).initialized = c.initialized
<1>1. CASE c.lostFor = NoTimer
  BY <1>1, ConfirmTimeoutAssumption DEF LoseFeedback, Controller, NoTimer
<1>2. CASE c.lostFor # NoTimer /\ c.lostFor >= ConfirmTimeout
  <2>1. LoseFeedback(c) = RequireRecovery(c)
    BY <1>2 DEF LoseFeedback
  <2> QED
    BY <2>1, RecoveryKind
<1>3. CASE c.lostFor # NoTimer /\ ~(c.lostFor >= ConfirmTimeout)
  BY <1>3 DEF LoseFeedback
<1> QED
  BY <1>1, <1>2, <1>3

\* Observing an initialised controller (Follow): it stays in its phase, needs
\* recovery, or has come to rest on the path the readings show, never from
\* recovery and from a step only when the step is confirmed.
LEMMA FollowKinds ==
  ASSUME NEW c, WellFormed(c), NEW obs \in Observation
  PROVE  /\ Follow(c, obs).initialized = c.initialized
         /\ \/ Follow(c, obs).phase = c.phase
            \/ Follow(c, obs).phase = "recovery_required"
            \/ /\ Follow(c, obs).phase \in StablePhases
               /\ c.phase # "recovery_required"
               /\ Follow(c, obs).path = Topology(obs).path
               /\ ~IsAmbiguous(obs)
               /\ InTransition(c) => Confirmed(c, obs)
<1>0. c \in Controller
  BY DEF WellFormed
<1>1. CASE c.phase = "recovery_required"
  <2>1. Follow(c, obs) = ObserveOnly(c, obs)
    BY <1>1, PhaseKinds DEF Follow, InTransition
  <2>2. /\ ObserveOnly(c, obs).phase = c.phase
        /\ ObserveOnly(c, obs).initialized = c.initialized
    BY <1>0 DEF ObserveOnly, Controller
  <2> QED
    BY <2>1, <2>2
<1>2. CASE InTransition(c) /\ TimedOut(c)
  <2>1. Follow(c, obs) = RequireRecovery(c)
    BY <1>2, PhaseKinds DEF Follow, InTransition
  <2> QED
    BY <1>0, <2>1, RecoveryKind
<1>3. CASE InTransition(c) /\ ~TimedOut(c) /\ ~Confirmed(c, obs)
  <2>1. Follow(c, obs) = c
    BY <1>3, PhaseKinds DEF Follow, InTransition
  <2> QED
    BY <2>1
<1>4. CASE /\ c.phase # "recovery_required"
           /\ ~(InTransition(c) /\ TimedOut(c))
           /\ ~(InTransition(c) /\ ~TimedOut(c) /\ ~Confirmed(c, obs))
  <2>1. CASE ~IsAmbiguous(obs)
    <3>1. Follow(c, obs) = SetStable(c, Topology(obs))
      BY <1>4, <2>1 DEF Follow
    <3> QED
      BY <1>0, <1>4, <2>1, <3>1, StableKind
  <2>2. CASE IsAmbiguous(obs) /\ InTransition(c)
    <3> DEFINE d == Settle(c, obs)
    <3>1. Follow(c, obs) = LoseFeedback(d)
      BY <1>4, <2>2 DEF Follow
    <3>2. d \in Controller /\ d.phase = c.phase /\ d.initialized = c.initialized
      BY <1>0, <2>2, ConfirmTimeoutAssumption DEF Settle, Controller, NoTimer
    <3> HIDE DEF d
    <3> QED
      BY <3>1, <3>2, LoseFeedbackKind
  <2>3. CASE IsAmbiguous(obs) /\ ~InTransition(c)
    <3>1. Follow(c, obs) = LoseFeedback(c)
      BY <1>4, <2>3 DEF Follow
    <3> QED
      BY <1>0, <3>1, LoseFeedbackKind
  <2> QED
    BY <2>1, <2>2, <2>3
<1> QED
  BY <1>1, <1>2, <1>3, <1>4

\* Observing, as the changeover sees it.
LEMMA FollowIsLater ==
  ASSUME NEW c, WellFormed(c), PhaseFits(c), c.initialized, NEW obs \in Observation
  PROVE  /\ PhaseFits(Follow(c, obs)) /\ Later(c, Follow(c, obs))
         /\ Follow(c, obs).initialized
<1> DEFINE u == Follow(c, obs)
<1>1. c \in Controller /\ u \in Controller
  BY FollowCases DEF WellFormed
<1>2. /\ u.initialized = c.initialized
      /\ \/ u.phase = c.phase
         \/ u.phase = "recovery_required"
         \/ u.phase \in StablePhases /\ c.phase # "recovery_required"
  BY FollowKinds
<1> HIDE DEF u
<1>3. CASE u.phase = c.phase
  BY <1>2, <1>3, SamePhase DEF Later, u
<1>4. CASE u.phase = "recovery_required"
  <2>1. PhaseFits(u)
    BY <1>2, <1>4 DEF PhaseFits
  <2> QED
    BY <1>1, <1>2, <1>4, <2>1, StageCases DEF Later, u
<1>5. CASE u.phase \in StablePhases /\ c.phase # "recovery_required"
  <2>1. PhaseFits(u)
    BY <1>2, <1>5, PhaseKinds DEF PhaseFits
  <2>2. StageOf(c) # "recovery"
    BY <1>1, <1>5 DEF StageOf, PhaseFits, InTransition, Controller, TransferPhase
  <2> QED
    BY <1>1, <1>2, <1>5, <2>1, <2>2, StageCases DEF Later, u
<1> QED
  BY <1>2, <1>3, <1>4, <1>5

\* observe as a whole.
LEMMA ObserveIsLater ==
  ASSUME NEW c, WellFormed(c), PhaseFits(c), NEW obs \in Observation
  PROVE  /\ PhaseFits(Observe(c, obs)) /\ Later(c, Observe(c, obs))
         /\ RequiredStatesKnown(obs) /\ ~UnsafeOverlap(obs) =>
              Observe(c, obs).initialized
<1>0. c \in Controller
  BY DEF WellFormed
<1>1. CASE ~RequiredStatesKnown(obs) /\ c.initialized
  <2>1. Observe(c, obs) = c
    BY <1>1 DEF Observe
  <2> QED
    BY <1>1, <2>1 DEF Later
<1>2. CASE ~RequiredStatesKnown(obs) /\ ~c.initialized
  <2> DEFINE u == SetUnknown(c, "waiting_for_data")
  <2>1. Observe(c, obs) = u
    BY <1>2 DEF Observe
  <2>2. u \in Controller /\ u.phase = "waiting_for_data" /\ ~u.initialized
    BY <1>0, <1>2, SetUnknownWellFormed DEF SetUnknown, Controller, WellFormed
  <2> HIDE DEF u
  <2>3. PhaseFits(u)
    BY <2>2 DEF PhaseFits
  <2> QED
    BY <1>0, <1>2, <2>1, <2>2, <2>3, StageCases DEF Later
<1>3. CASE RequiredStatesKnown(obs) /\ UnsafeOverlap(obs)
  <2> DEFINE u == RequireRecovery(c)
  <2>1. Observe(c, obs) = u
    BY <1>3 DEF Observe
  <2>2. /\ u \in Controller /\ u.phase = "recovery_required"
        /\ u.initialized = c.initialized
    BY <1>0, RecoveryKind, RequireRecoveryWellFormed DEF WellFormed
  <2> HIDE DEF u
  <2>3. PhaseFits(u)
    BY <2>2 DEF PhaseFits
  <2> QED
    BY <1>0, <1>3, <2>1, <2>2, <2>3, StageCases DEF Later
<1>4. CASE RequiredStatesKnown(obs) /\ ~UnsafeOverlap(obs) /\ c.initialized
  <2>1. Observe(c, obs) = Follow(c, obs)
    BY <1>4 DEF Observe
  <2> QED
    BY <1>4, <2>1, FollowIsLater
<1>5. CASE RequiredStatesKnown(obs) /\ ~UnsafeOverlap(obs) /\ ~c.initialized
  <2> DEFINE d == Initialize(c, obs)
             b == [c EXCEPT !.initialized = TRUE]
  <2>0. b \in Controller /\ b.initialized
    BY <1>0 DEF Controller
  <2>1. /\ WellFormed(d) /\ d \in Controller /\ d.initialized
        /\ d.phase \in StablePhases \cup {"recovery_required"}
    <3>1. CASE IsAmbiguous(obs)
      <4>1. d = RequireRecovery(b)
        BY <3>1 DEF Initialize
      <4> HIDE DEF b
      <4> QED
        BY <2>0, <4>1, RecoveryKind, InitializeCases DEF WellFormed
    <3>2. CASE ~IsAmbiguous(obs)
      <4>1. d = SetStable(b, Topology(obs))
        BY <3>2 DEF Initialize
      <4> HIDE DEF b
      <4> QED
        BY <2>0, <3>2, <4>1, StableKind, InitializeCases DEF WellFormed
    <3> QED
      BY <3>1, <3>2
  <2>2. Observe(c, obs) = d \/ Observe(c, obs) = Follow(d, obs)
    BY <1>5 DEF Observe
  <2> HIDE DEF d, b
  <2>3. PhaseFits(d)
    BY <2>1, PhaseKinds DEF PhaseFits
  <2>4. StageOf(c) = "waiting" /\ StageOf(d) \in {"still", "recovery"} /\ StepOf(d) = Nothing
    BY <1>0, <1>5, <2>1, <2>3, StageCases
  <2>5. CASE Observe(c, obs) = d
    BY <2>1, <2>3, <2>4, <2>5 DEF Later
  <2>6. CASE Observe(c, obs) = Follow(d, obs)
    <3>1. /\ PhaseFits(Follow(d, obs)) /\ Later(d, Follow(d, obs))
          /\ Follow(d, obs).initialized
      BY <2>1, <2>3, FollowIsLater
    <3> QED
      BY <2>4, <2>6, <3>1 DEF Later
  <2> QED
    BY <2>2, <2>5, <2>6
<1> QED
  BY <1>1, <1>2, <1>3, <1>4, <1>5

\* To look again is to look later.
LEMMA LaterTwice ==
  ASSUME NEW c, NEW u, NEW v, Later(c, u), Later(u, v)
  PROVE  Later(c, v)
BY DEF Later

-------------------------------------------------------------------------------
(***************************************************************************)
(* The commands.                                                           *)
(***************************************************************************)

\* _begin keeps the path.
LEMMA BeginKind ==
  ASSUME NEW c \in Controller, NEW command
  PROVE  /\ Begin(c, command).phase = PhaseOf[command]
         /\ Begin(c, command).path = c.path
         /\ Begin(c, command).initialized = c.initialized
BY DEF Begin, Controller

\* What a tick starts from, as the changeover sees it.
LEMMA ObservedIsLater ==
  ASSUME ChangeInv
  PROVE  /\ WellFormed(Observed) /\ Observed \in Controller
         /\ PhaseFits(Observed) /\ Later(t, Observed)
         /\ RequiredStatesKnown(o) /\ ~UnsafeOverlap(o) => Observed.initialized
<1> DEFINE e == Elapse(t)
<1>1. WellFormed(t) /\ t \in Controller /\ o \in Observation /\ PhaseFits(t)
  BY InvMeaning DEF ChangeInv, WellFormed
<1>2. /\ WellFormed(e) /\ PhaseFits(e)
      /\ StageOf(e) = StageOf(t) /\ StepOf(e) = StepOf(t)
  BY <1>1, ElapseWellFormed, ElapseKeepsPhase, SamePhase
<1> HIDE DEF e
<1>3. Observed = Observe(e, o)
  BY DEF Observed, e
<1>4. WellFormed(Observed) /\ Observed \in Controller
  BY <1>1, <1>2, <1>3, ObserveCases DEF WellFormed
<1>5. /\ PhaseFits(Observed) /\ Later(e, Observed)
      /\ RequiredStatesKnown(o) /\ ~UnsafeOverlap(o) => Observed.initialized
  BY <1>1, <1>2, <1>3, ObserveIsLater
<1> QED
  BY <1>2, <1>4, <1>5 DEF Later

\* A connection that has been observed to end is confirmed, so the house is not
\* isolated then: plan() does not order the same connection again.
LEMMA ConnectionIsNotRepeated ==
  ASSUME ChangeInv, RequiredStatesKnown(o), ~IsAmbiguous(o),
         NEW command \in {"select_generator", "connect_grid"},
         t.phase = PhaseOf[command],
         ~InTransition(Observed), Observed.phase # "recovery_required"
  PROVE  Observed.path # "isolated"
<1> DEFINE e == Elapse(t)
<1>1. WellFormed(t) /\ t \in Controller /\ o \in Observation /\ PhaseFits(t)
  BY InvMeaning DEF ChangeInv, WellFormed
<1>2. /\ WellFormed(e) /\ e \in Controller
      /\ e.phase = t.phase /\ e.initialized = t.initialized
  BY <1>1, ElapseWellFormed, ElapseKeepsPhase DEF WellFormed
<1> HIDE DEF e
<1>3. /\ e.phase \in {"selecting_generator", "connecting_grid"}
      /\ InTransition(e)
  BY <1>2 DEF PhaseOf, InTransition, Transitions
<1>4. e.initialized
  BY <1>1, <1>2, <1>3, PhaseKinds DEF PhaseFits, InTransition
<1>5. Observed = Observe(e, o)
  BY DEF Observed, e
<1>6. ~UnsafeOverlap(o)
  BY DEF IsAmbiguous, Topology, Ambiguous, On
<1>7. Observed = Follow(e, o)
  BY <1>4, <1>5, <1>6 DEF Observe
<1>8. Confirmed(e, o) /\ Observed.path = Topology(o).path
  BY <1>1, <1>2, <1>3, <1>7, FollowKinds DEF InTransition
<1>9. CASE e.phase = "selecting_generator"
  <2>1. o.generatorSelected = "yes"
    BY <1>8, <1>9 DEF Confirmed
  <2>2. Topology(o).path # "isolated"
    BY <2>1, IsolatedMeansOpen, <1>1
  <2> QED
    BY <1>8, <2>2
<1>10. CASE e.phase = "connecting_grid"
  <2>1. Topology(o).path = "grid"
    BY <1>8, <1>10 DEF Confirmed
  <2> QED
    BY <1>8, <2>1
<1> QED
  BY <1>3, <1>9, <1>10

\* plan() orders a throw as the changeover allows it.
LEMMA PlanOrders ==
  ASSUME ChangeInv, NEW desired, NEW ready,
         Planned(Observed, o, desired, ready, TRUE) # Nothing
  PROVE  LET command == Planned(Observed, o, desired, ready, TRUE)
             after == AfterPlan(Observed, o, command)
         IN  /\ command \in TransferCommand
             /\ after \in Controller /\ after.initialized
             /\ after.phase = PhaseOf[command]
             /\ StageOf(t) # "recovery"
             /\ command \in {"select_generator", "connect_grid"} =>
                  after.path = "isolated" /\ StepOf(t) # command
<1> DEFINE u == Observed
           command == Planned(u, o, desired, ready, TRUE)
           freed == [u EXCEPT !.lostFor = NoTimer]
           after == AfterPlan(u, o, command)
<1>1. WellFormed(t) /\ t \in Controller /\ o \in Observation /\ PhaseFits(t)
  BY InvMeaning DEF ChangeInv, WellFormed
<1>2. /\ u \in Controller /\ PhaseFits(u) /\ Later(t, u)
      /\ RequiredStatesKnown(o) /\ ~UnsafeOverlap(o) => u.initialized
  BY ObservedIsLater
<1>3. RequiredStatesKnown(o) /\ u.phase # "recovery_required" /\ ~InTransition(u)
  BY DEF Planned, MayPlan
<1>4. WellFormed(Elapse(t))
  BY <1>1, ElapseWellFormed
<1>5. command \in TransferCommand /\ WellFormed(after)
  <2>1. command \in TransferCommand \cup {Nothing} /\ WellFormed(after)
    BY <1>1, <1>4, NormalPlanSafe DEF Observed
  <2> QED
    BY <2>1
<1>6. ~UnsafeOverlap(o)
  <2>1. UnsafeOverlap(o) => u = RequireRecovery(Elapse(t))
    BY <1>3 DEF Observed, Observe
  <2>2. Elapse(t) \in Controller
    BY <1>4 DEF WellFormed
  <2> HIDE DEF u
  <2> QED
    BY <1>3, <2>1, <2>2, RecoveryKind
<1>7. u.initialized
  BY <1>2, <1>3, <1>6
<1>8. StageOf(t) # "recovery"
  <2>1. StageOf(u) # "recovery"
    BY <1>2, <1>3, <1>7 DEF StageOf, PhaseFits, InTransition, Controller, TransferPhase
  <2> QED
    BY <1>2, <2>1 DEF Later
<1>9. command \in {"select_generator", "connect_grid"} =>
        u.path = "isolated" /\ ~IsAmbiguous(o)
  <2> HIDE DEF u
  <2> QED
    BY DEF Planned, Drive, Nothing
<1>10. command \in {"select_generator", "connect_grid"} => t.phase # PhaseOf[command]
  BY <1>3, <1>9, ConnectionIsNotRepeated
<1>11. command \in {"select_generator", "connect_grid"} => StepOf(t) # command
  <2> SUFFICES ASSUME command \in {"select_generator", "connect_grid"}, StepOf(t) = command
               PROVE  FALSE
    OBVIOUS
  <2>1. t.phase # PhaseOf[command]
    BY <1>10
  <2>2. InTransition(t)
    BY DEF StepOf, Nothing
  <2>3. \E d \in TransferCommand : PhaseOf[d] = t.phase
    BY <2>2 DEF InTransition, Transitions, TransferCommand, PhaseOf
  <2>4. PhaseOf[StepOf(t)] = t.phase
    BY <2>2, <2>3 DEF StepOf
  <2> QED
    BY <2>1, <2>4
<1> HIDE DEF u, command
<1>12. /\ freed \in Controller /\ freed.path = u.path
       /\ freed.initialized = u.initialized
  BY <1>2, ConfirmTimeoutAssumption DEF Controller, NoTimer
<1> HIDE DEF freed, after
<1>13. after = Begin(freed, command) \/ after = Begin(u, command)
  BY <1>5 DEF after, AfterPlan, freed, Nothing, TransferCommand
<1>14. /\ after.phase = PhaseOf[command] /\ after.path = u.path
       /\ after.initialized
  <2>1. CASE after = Begin(freed, command)
    BY <1>7, <1>12, <2>1, BeginKind
  <2>2. CASE after = Begin(u, command)
    BY <1>2, <1>7, <2>2, BeginKind
  <2> QED
    BY <1>13, <2>1, <2>2
<1>15. after \in Controller
  BY <1>5 DEF WellFormed
<1> QED
  BY <1>5, <1>8, <1>9, <1>11, <1>14, <1>15 DEF u, command, after

\* What a tick of a reset makes of the controller c that has observed: it orders
\* a throw, or looks later, or has arrived on the grid path.
Drives(c, outcome) ==
  \/ /\ outcome.command \in TransferCommand /\ outcome.failed = FALSE
     /\ outcome.t.initialized /\ outcome.t.phase = PhaseOf[outcome.command]
     /\ outcome.command \in {"select_generator", "connect_grid"} =>
          outcome.t.path = "isolated"
  \/ /\ outcome.command = Nothing /\ PhaseFits(outcome.t)
     /\ Later(c, outcome.t)
  \/ /\ outcome.command = Nothing /\ outcome.t.initialized
     /\ outcome.t.phase \in StablePhases /\ outcome.t.path = "grid"

\* step_recovery_to_grid_path with no step pending.
LEMMA RecoverFromDrives ==
  ASSUME NEW c \in Controller, PhaseFits(c), c.initialized, o \in Observation,
         IsAmbiguous(o) => c.path # "isolated"
  PROVE  Drives(c, RecoverFrom(c, o))
<1> DEFINE cleared == [c EXCEPT !.lostFor = NoTimer]
<1>0. cleared \in Controller /\ cleared.initialized
  BY ConfirmTimeoutAssumption DEF Controller, NoTimer
<1>1. CASE IsAmbiguous(o)
  <2> DEFINE command == IF SafeBreak(o) THEN "deselect_generator"
                        ELSE Drive(c, o, "grid", FALSE)
  <2>1. Topology(o).path = "unknown"
    BY <1>1 DEF IsAmbiguous
  <2>2. command \in {"deselect_generator", Nothing}
    BY <1>1 DEF Drive
  <2>3. RecoverFrom(c, o) =
          IF command # Nothing THEN Outcome(Begin(cleared, command), command, FALSE)
          ELSE Outcome(LoseFeedback(c), Nothing, c.lostFor >= ConfirmTimeout)
    BY <1>1, <2>1 DEF RecoverFrom
  <2> HIDE DEF cleared, command
  <2>4. CASE command = "deselect_generator"
    <3>1. RecoverFrom(c, o) = Outcome(Begin(cleared, command), command, FALSE)
      BY <2>3, <2>4 DEF Nothing
    <3>2. /\ Begin(cleared, command).phase = PhaseOf[command]
          /\ Begin(cleared, command).initialized
      BY <1>0, BeginKind
    <3> QED
      BY <2>4, <3>1, <3>2 DEF Drives, Outcome, TransferCommand
  <2>5. CASE command = Nothing
    <3> DEFINE u == LoseFeedback(c)
    <3>1. RecoverFrom(c, o) = Outcome(u, Nothing, c.lostFor >= ConfirmTimeout)
      BY <2>3, <2>5
    <3>2. /\ u.phase \in {c.phase, "recovery_required"}
          /\ u.initialized = c.initialized
      BY LoseFeedbackKind
    <3> HIDE DEF u
    <3>3. CASE u.phase = c.phase
      <4>1. PhaseFits(u) /\ StageOf(u) = StageOf(c) /\ StepOf(u) = StepOf(c)
        BY <3>2, <3>3, SamePhase
      <4> QED
        BY <3>1, <4>1 DEF Drives, Outcome, Later
    <3>4. CASE u.phase = "recovery_required"
      <4>1. PhaseFits(u)
        BY <3>2, <3>4 DEF PhaseFits
      <4>2. StageOf(u) = "recovery" /\ StepOf(u) = Nothing
        BY <3>2, <3>4, PhaseKinds DEF StageOf, StepOf, InTransition
      <4> QED
        BY <3>1, <4>1, <4>2 DEF Drives, Outcome, Later
    <3> QED
      BY <3>2, <3>3, <3>4
  <2> QED
    BY <2>2, <2>4, <2>5
<1>2. CASE ~IsAmbiguous(o)
  <2> DEFINE u == SetStable(c, Topology(o))
             freed == [u EXCEPT !.lostFor = NoTimer]
  <2>1. /\ u \in Controller /\ u.initialized /\ u.phase \in StablePhases
        /\ u.path = Topology(o).path
        /\ u.path \in {"grid", "isolated", "generator"}
    BY <1>2, SetStableWellFormed, StableKind, TopologyFields DEF WellFormed
  <2>2. freed \in Controller /\ freed.path = u.path /\ freed.initialized
    <3> HIDE DEF u
    <3> QED
      BY <2>1, ConfirmTimeoutAssumption DEF Controller, NoTimer
  <2>3. CASE u.path = "grid"
    <3>1. RecoverFrom(c, o) = Outcome(u, Nothing, FALSE)
      BY <1>2, <2>1, <2>3 DEF RecoverFrom
    <3> HIDE DEF u
    <3> QED
      BY <2>1, <2>3, <3>1 DEF Outcome, Drives
  <2>4. CASE u.path # "grid"
    <3> DEFINE command == IF u.path = "generator"
                          THEN "deselect_generator" ELSE "connect_grid"
    <3>1. Drive(u, o, "grid", FALSE) = command
      <4> HIDE DEF u
      <4> QED
        BY <2>1, <2>4 DEF Drive
    <3>2. RecoverFrom(c, o) = Outcome(Begin(freed, command), command, FALSE)
      <4>1. command # Nothing
        BY DEF Nothing
      <4> HIDE DEF command
      <4> QED
        BY <1>2, <2>1, <2>4, <3>1, <4>1 DEF RecoverFrom
    <3> HIDE DEF freed, u
    <3>3. /\ command \in TransferCommand
          /\ command \in {"select_generator", "connect_grid"} => u.path = "isolated"
      BY <2>1, <2>4 DEF TransferCommand
    <3>4. /\ Begin(freed, command).path = u.path
          /\ Begin(freed, command).phase = PhaseOf[command]
          /\ Begin(freed, command).initialized
      <4> HIDE DEF command
      <4> QED
        BY <2>2, BeginKind
    <3> HIDE DEF command
    <3> QED
      BY <3>2, <3>3, <3>4 DEF Outcome, Drives
  <2> QED
    BY <2>3, <2>4
<1> QED
  BY <1>1, <1>2

\* step_recovery_to_grid_path as a whole.
LEMMA StepRecoveryDrives ==
  ASSUME NEW c, WellFormed(c), PhaseFits(c), c.initialized, o \in Observation,
         ~RecoveryBlocked(o),
         c.path = "isolated" =>
           \/ Topology(o).path = "isolated" /\ ~InTransition(c)
           \/ c.phase = "connecting_grid"
  PROVE  Drives(c, StepRecovery(c, o))
<1>0. c \in Controller
  BY DEF WellFormed
<1>1. CASE InTransition(c) /\ TimedOut(c)
  <2> DEFINE u == RequireRecovery(c)
  <2>1. StepRecovery(c, o) = Outcome(u, Nothing, TRUE)
    BY <1>1 DEF StepRecovery
  <2>2. u \in Controller /\ u.phase = "recovery_required" /\ u.initialized
    BY <1>0, RecoveryKind, RequireRecoveryWellFormed DEF WellFormed
  <2> HIDE DEF u
  <2>3. PhaseFits(u)
    BY <2>2 DEF PhaseFits
  <2>4. StageOf(u) = "recovery" /\ StepOf(u) = Nothing
    BY <2>2, <2>3, StageCases
  <2> QED
    BY <2>1, <2>3, <2>4 DEF Outcome, Drives, Later
<1>2. CASE InTransition(c) /\ ~TimedOut(c) /\ ~Confirmed(c, o)
  <2>1. StepRecovery(c, o) = Outcome(c, Nothing, FALSE)
    BY <1>2 DEF StepRecovery
  <2> QED
    BY <2>1 DEF Outcome, Drives, Later
<1>3. CASE InTransition(c) /\ ~TimedOut(c) /\ Confirmed(c, o)
  <2> DEFINE d == Settle(c, o)
  <2>1. StepRecovery(c, o) = RecoverFrom(d, o)
    BY <1>3 DEF StepRecovery
  <2>2. CASE IsAmbiguous(o)
    <3>1. c.phase # "connecting_grid"
      BY <1>3, <2>2 DEF Confirmed, IsAmbiguous
    <3>2. c.path # "isolated"
      BY <1>3, <3>1
    <3>3. /\ d \in Controller /\ d.phase = c.phase
          /\ d.path = c.path /\ d.initialized = c.initialized
      <4>1. d = [c EXCEPT !.deadline = NoTimer]
        BY <2>2 DEF Settle
      <4>2. NoTimer \in NoTimer..ConfirmTimeout
        BY ConfirmTimeoutAssumption DEF NoTimer
      <4> HIDE DEF d
      <4> QED
        BY <1>0, <4>1, <4>2 DEF Controller
    <3> HIDE DEF d
    <3>4. /\ PhaseFits(d)
          /\ StageOf(d) = StageOf(c) /\ StepOf(d) = StepOf(c)
      BY <3>3, SamePhase
    <3>5. Drives(d, RecoverFrom(d, o))
      BY <3>2, <3>3, <3>4, RecoverFromDrives
    <3> QED
      BY <2>1, <3>4, <3>5 DEF Drives, Later
  <2>3. CASE ~IsAmbiguous(o)
    <3>1. /\ d \in Controller /\ d.phase \in StablePhases /\ d.initialized
      BY <1>0, <2>3, StableKind, SetStableWellFormed DEF Settle, WellFormed
    <3> HIDE DEF d
    <3>2. PhaseFits(d) /\ StageOf(d) = "still" /\ StepOf(d) = Nothing
      BY <3>1, PhaseKinds, StageCases DEF PhaseFits
    <3>3. StageOf(c) = "moving"
      BY <1>0, <1>3, StageCases
    <3>4. Drives(d, RecoverFrom(d, o))
      BY <2>3, <3>1, <3>2, RecoverFromDrives
    <3> QED
      BY <2>1, <3>2, <3>3, <3>4 DEF Drives, Later
  <2> QED
    BY <2>2, <2>3
<1>4. CASE ~InTransition(c)
  <2>1. StepRecovery(c, o) = RecoverFrom(c, o)
    BY <1>4 DEF StepRecovery
  <2>2. IsAmbiguous(o) => c.path # "isolated"
    BY <1>4 DEF IsAmbiguous, InTransition, Transitions
  <2> QED
    BY <1>0, <2>1, <2>2, RecoverFromDrives
<1> QED
  BY <1>1, <1>2, <1>3, <1>4

-------------------------------------------------------------------------------
(***************************************************************************)
(* The steps of the changeover.                                            *)
(***************************************************************************)

\* The refinement mapping in terms of the lemmas above.
LEMMA StageMeaning ==
  /\ Stage = StageOf(t) /\ Step = StepOf(t)
  /\ Stage' = StageOf(t') /\ Step' = StepOf(t')
BY DEF Stage, StageOf, Step, StepOf, InTransition

\* A tick without a command looks at the house.
LEMMA LookStep ==
  ASSUME t \in Controller, PhaseFits(t),
         pending = Nothing, pending' = Nothing, t'.path \in PowerPath,
         \/ Later(t, t')
         \/ /\ requested \/ reset
            /\ t'.path = "grid" /\ StageOf(t') = "still" /\ StepOf(t') = Nothing,
         \/ (requested' \/ reset') = (requested \/ reset)
         \/ ~requested' /\ ~reset'
  PROVE  Promised!Look
<1>1. StageOf(t) \in {"waiting", "still", "moving", "recovery"}
  BY DEF StageOf
<1>2. StageOf(t) # "moving" => StepOf(t) = Nothing
  BY StageCases DEF StepOf
<1>3. \/ Promised!Becomes(Stage)
      \/ Promised!Becomes("recovery")
      \/ Stage \in {"waiting", "moving"} /\ Promised!Becomes("still")
      \/ (requested \/ reset) /\ t'.path = "grid" /\ Promised!Becomes("still")
  BY <1>1, <1>2, StageMeaning DEF Promised!Becomes, Later, Nothing
<1>4. (requested' \/ reset') \in {requested \/ reset, FALSE}
  OBVIOUS
<1> QED
  BY <1>3, <1>4 DEF Promised!Look, Promised!PowerPath, PowerPath, Nothing

\* A tick with a command orders a throw.
LEMMA OrderStep ==
  ASSUME NEW c \in TransferCommand,
         pending = Nothing, pending' = c,
         t' \in Controller, t'.initialized, t'.phase = PhaseOf[c],
         StageOf(t) = "recovery" => requested \/ reset,
         c \in {"select_generator", "connect_grid"} =>
           t'.path = "isolated" /\ (StepOf(t) # c \/ requested \/ reset),
         (requested' \/ reset') = (requested \/ reset)
  PROVE  Promised!Next
<1>1. InTransition(t') /\ StepOf(t') = c
  BY StepOfCommand
<1>2. StageOf(t') = "moving"
  BY <1>1, PhaseKinds DEF StageOf, InTransition
<1>3. t'.path \in PowerPath
  BY DEF Controller
<1>4. Promised!Order(c)
  BY <1>1, <1>2, <1>3, StageMeaning
     DEF Promised!Order, Promised!Makes, Promised!PowerPath, PowerPath, Nothing
<1>5. c \in Promised!Makes \cup Promised!Breaks
  BY DEF TransferCommand, Promised!Makes, Promised!Breaks
<1> QED
  BY <1>4, <1>5 DEF Promised!Next

\* What request_recovery_reset makes of the controller.
LEMMA RequestResetKind ==
  ASSUME NEW c \in Controller, NEW obs \in Observation
  PROVE  \/ RequestReset(c, obs) = c
         \/ /\ RequestReset(c, obs).phase \in StablePhases
            /\ RequestReset(c, obs).initialized
            /\ RequestReset(c, obs).path = "grid"
<1> DEFINE d == SetStable(c, Topology(obs))
<1>1. CASE ~ResetPermitted(obs)
  BY <1>1 DEF RequestReset
<1>2. CASE ResetPermitted(obs)
  <2>1. ~IsAmbiguous(obs) /\ Topology(obs).path = "grid"
    BY <1>2 DEF ResetPermitted, IsAmbiguous
  <2>2. d \in Controller /\ d.phase \in StablePhases /\ d.path = "grid"
    BY <2>1, StableKind, SetStableWellFormed DEF WellFormed
  <2>3. RequestReset(c, obs) = [d EXCEPT !.initialized = TRUE]
    BY <1>2 DEF RequestReset
  <2> HIDE DEF d
  <2> QED
    BY <2>2, <2>3 DEF Controller
<1> QED
  BY <1>1, <1>2

\* begin_recovery_to_grid_path.
LEMMA BeginRecoveryKind ==
  ASSUME NEW c \in Controller
  PROVE  /\ BeginRecovery(c).phase = "recovery_required"
         /\ BeginRecovery(c).initialized
BY DEF BeginRecovery, SetUnknown, Controller

\* A stable, initialised controller is at rest.
LEMMA StillStage ==
  ASSUME NEW c, c.initialized, c.phase \in StablePhases
  PROVE  PhaseFits(c) /\ StageOf(c) = "still" /\ StepOf(c) = Nothing
BY PhaseKinds DEF PhaseFits, StageOf, StepOf, InTransition

\* An initialised controller in recovery has given up.
LEMMA RecoveryStage ==
  ASSUME NEW c, c.initialized, c.phase = "recovery_required"
  PROVE  PhaseFits(c) /\ StageOf(c) = "recovery" /\ StepOf(c) = Nothing
BY PhaseKinds DEF PhaseFits, StageOf, StepOf, InTransition

\* Every kind of tick is a step of the changeover and leaves a fitting phase.
LEMMA TickRefines ==
  ASSUME ChangeInv, Tick
  PROVE  Promised!Next /\ PhaseFits(t')
<1> DEFINE u == Observed
<1>1. /\ t \in Controller /\ PhaseFits(t) /\ o \in Observation
      /\ requested \in BOOLEAN /\ reset \in BOOLEAN
  BY InvMeaning DEF ChangeInv, WellFormed
<1>2. /\ WellFormed(u) /\ u \in Controller /\ PhaseFits(u) /\ Later(t, u)
      /\ RequiredStatesKnown(o) /\ ~UnsafeOverlap(o) => u.initialized
  BY ObservedIsLater
<1>3. t' \in Controller /\ t'.path \in PowerPath
  <2>1. WellFormed(t')
    BY TickInv DEF ChangeInv, TransferInv, TypeOK, PhaseMatchesPath, StepIsTimed,
       WellFormed, InTransition
  <2> QED
    BY <2>1 DEF WellFormed, Controller
<1>4. Promised!Look => Promised!Next
  BY DEF Promised!Next
<1>5. CASE NormalTick
  <2>1. PICK desired \in {"grid", "generator", "ups_only", Nothing},
             ready \in BOOLEAN :
          /\ t' = AfterPlan(u, o, Planned(u, o, desired, ready, TRUE))
          /\ pending' = Planned(u, o, desired, ready, TRUE)
    BY <1>5 DEF NormalTick
  <2>2. /\ pending = Nothing /\ ~reset /\ ~requested
        /\ requested' = requested /\ reset' = reset
    BY <1>5 DEF NormalTick
  <2> DEFINE command == Planned(u, o, desired, ready, TRUE)
  <2>3. CASE command = Nothing
    <3>1. t' = u /\ pending' = Nothing
      BY <2>1, <2>3 DEF AfterPlan
    <3> HIDE DEF u
    <3> QED
      BY <1>1, <1>2, <1>3, <1>4, <2>2, <3>1, LookStep
  <2>4. CASE command # Nothing
    <3>1. /\ command \in TransferCommand
          /\ t'.initialized /\ t'.phase = PhaseOf[command]
          /\ StageOf(t) # "recovery"
          /\ command \in {"select_generator", "connect_grid"} =>
               t'.path = "isolated" /\ StepOf(t) # command
      BY <2>1, <2>4, PlanOrders
    <3>2. pending' = command
      BY <2>1
    <3> HIDE DEF command, u
    <3>3. PhaseFits(t')
      BY <3>1, StepOfCommand, PhaseKinds DEF PhaseFits, InTransition
    <3> QED
      BY <1>3, <2>2, <3>1, <3>2, <3>3, OrderStep
  <2> QED
    BY <2>3, <2>4
<1>6. CASE ResetRequestTick
  <2>1. /\ pending = Nothing /\ pending' = Nothing /\ requested
        /\ requested' = FALSE /\ reset' \in BOOLEAN
        /\ t' = u \/ t' = BeginRecovery(u) \/ t' = RequestReset(u, o)
    BY <1>6 DEF ResetRequestTick
  <2> HIDE DEF u
  <2>2. \/ t' = u
        \/ t'.phase = "recovery_required" /\ t'.initialized
        \/ t'.phase \in StablePhases /\ t'.initialized /\ t'.path = "grid"
    BY <1>1, <1>2, <2>1, BeginRecoveryKind, RequestResetKind
  <2>3. /\ PhaseFits(t')
        /\ \/ Later(t, t')
           \/ t'.path = "grid" /\ StageOf(t') = "still" /\ StepOf(t') = Nothing
    BY <1>2, <2>2, StillStage, RecoveryStage DEF Later
  <2> QED
    BY <1>1, <1>3, <1>4, <2>1, <2>3, LookStep
<1>7. CASE ResetBlockedTick
  <2>1. /\ pending = Nothing /\ pending' = Nothing
        /\ requested' = FALSE /\ reset' = FALSE /\ t' = u
    BY <1>7 DEF ResetBlockedTick
  <2> HIDE DEF u
  <2> QED
    BY <1>1, <1>2, <1>3, <1>4, <2>1, LookStep
<1>8. CASE ResetDriveTick
  <2> DEFINE outcome == StepRecovery(u, o)
  <2>1. /\ pending = Nothing /\ reset /\ ~RecoveryBlocked(o)
        /\ t' = outcome.t /\ pending' = outcome.command
        /\ reset' = ~outcome.failed /\ requested' = FALSE
    BY <1>8 DEF ResetDriveTick
  <2>2. u.initialized
    BY <1>2, <2>1 DEF RecoveryBlocked
  <2>3. u.path = "isolated" =>
          \/ Topology(o).path = "isolated" /\ ~InTransition(u)
          \/ u.phase = "connecting_grid"
    BY <2>1, ObservedCases DEF ChangeInv
  <2> HIDE DEF u
  <2>4. Drives(u, outcome)
    BY <1>1, <1>2, <2>1, <2>2, <2>3, StepRecoveryDrives
  <2> HIDE DEF outcome
  <2>5. CASE outcome.command \in TransferCommand
    <3>1. /\ outcome.failed = FALSE
          /\ t'.initialized /\ t'.phase = PhaseOf[pending']
          /\ pending' \in {"select_generator", "connect_grid"} => t'.path = "isolated"
      BY <2>1, <2>4, <2>5 DEF Drives, Nothing, TransferCommand
    <3>2. PhaseFits(t')
      BY <2>1, <2>5, <3>1, StepOfCommand, PhaseKinds DEF PhaseFits, InTransition
    <3> QED
      BY <1>3, <2>1, <2>5, <3>1, <3>2, OrderStep
  <2>6. CASE /\ outcome.command = Nothing /\ PhaseFits(outcome.t)
             /\ Later(u, outcome.t)
    <3>1. Later(t, t')
      BY <1>2, <2>1, <2>6, LaterTwice
    <3> QED
      BY <1>1, <1>3, <1>4, <2>1, <2>6, <3>1, LookStep
  <2>7. CASE /\ outcome.command = Nothing /\ outcome.t.initialized
             /\ outcome.t.phase \in StablePhases /\ outcome.t.path = "grid"
    <3>1. PhaseFits(t') /\ StageOf(t') = "still" /\ StepOf(t') = Nothing
      BY <2>1, <2>7, StillStage
    <3> QED
      BY <1>1, <1>3, <1>4, <2>1, <2>7, <3>1, LookStep
  <2> QED
    BY <2>4, <2>5, <2>6, <2>7 DEF Drives
<1>9. CASE ResetFinishTick
  <2>1. /\ pending = Nothing /\ pending' = Nothing /\ reset
        /\ requested' = FALSE /\ reset' \in BOOLEAN
        /\ t' = u \/ t' = RequestReset(u, o)
    BY <1>9 DEF ResetFinishTick
  <2> HIDE DEF u
  <2>2. \/ t' = u
        \/ t'.phase \in StablePhases /\ t'.initialized /\ t'.path = "grid"
    BY <1>1, <1>2, <2>1, RequestResetKind
  <2>3. /\ PhaseFits(t')
        /\ \/ Later(t, t')
           \/ t'.path = "grid" /\ StageOf(t') = "still" /\ StepOf(t') = Nothing
    BY <1>2, <2>2, StillStage
  <2> QED
    BY <1>1, <1>3, <1>4, <2>1, <2>3, LookStep
<1> QED
  BY <1>5, <1>6, <1>7, <1>8, <1>9 DEF Tick

\* So is, or changes nothing, what the environment and the adapter do.
LEMMA EnvironmentRefines ==
  ASSUME ChangeInv,
         \/ ReadingChanges \/ RequestRecoveryReset \/ TimePasses
         \/ Execute \/ Refuse \/ Disconnect \/ Restart \/ UNCHANGED vars
  PROVE  [Promised!Next]_(Promised!vars) /\ PhaseFits(t')
<1>1. /\ t \in Controller /\ PhaseFits(t)
      /\ pending \in TransferCommand \cup {Nothing}
      /\ requested \in BOOLEAN /\ reset \in BOOLEAN
  BY InvMeaning DEF ChangeInv, WellFormed
<1>2. t' = t => Stage' = Stage /\ Step' = Step
  BY StageMeaning
<1>3. CASE ReadingChanges \/ UNCHANGED vars
  <2>1. UNCHANGED <<t, pending, requested, reset>>
    BY <1>3 DEF ReadingChanges, vars
  <2> QED
    BY <1>1, <1>2, <2>1 DEF Promised!vars
<1>4. CASE RequestRecoveryReset
  <2>1. UNCHANGED <<t, pending, reset>> /\ requested'
    BY <1>4 DEF RequestRecoveryReset
  <2>2. CASE reset
    BY <1>1, <1>2, <1>4, <2>1, <2>2 DEF RequestRecoveryReset, Promised!vars
  <2>3. CASE ~reset
    BY <1>1, <1>2, <1>4, <2>1, <2>3
       DEF RequestRecoveryReset, Promised!AskReset, Promised!Next
  <2> QED
    BY <2>2, <2>3
<1>5. CASE TimePasses
  <2>1. t' = Elapse(t) /\ UNCHANGED <<pending, requested, reset>>
    BY <1>5 DEF TimePasses
  <2>2. /\ t'.phase = t.phase /\ t'.initialized = t.initialized
        /\ t'.path = t.path
    BY <1>1, <2>1 DEF Elapse, Controller
  <2>3. /\ Stage' = Stage /\ Step' = Step
        /\ PhaseFits(t')
    BY <1>1, <2>2, SamePhase, StageMeaning
  <2> QED
    BY <2>1, <2>2, <2>3 DEF Promised!vars
<1>6. CASE Execute
  <2>1. /\ pending # Nothing /\ pending' = Nothing
        /\ UNCHANGED <<t, requested, reset>>
    BY <1>6 DEF Execute
  <2> QED
    BY <1>1, <1>2, <2>1 DEF Promised!Answer, Promised!Next, Nothing
<1>7. CASE Refuse \/ Disconnect
  <2>1. /\ t' = MarkInterrupted(t) /\ pending' = Nothing
        /\ UNCHANGED <<requested, reset>>
    BY <1>7 DEF Refuse, Disconnect
  <2>2. CASE InTransition(t)
    <3>1. /\ t' = RequireRecovery(t) /\ t.initialized /\ StageOf(t) = "moving"
      BY <1>1, <2>1, <2>2, StageCases DEF MarkInterrupted
    <3>2. /\ t'.phase = "recovery_required" /\ t'.initialized
          /\ t'.path = "unknown"
      BY <1>1, <3>1 DEF RequireRecovery, SetUnknown, Controller
    <3>3. PhaseFits(t') /\ StageOf(t') = "recovery" /\ StepOf(t') = Nothing
      BY <3>2, RecoveryStage
    <3>4. Promised!BreakOff
      BY <2>1, <3>1, <3>2, <3>3, StageMeaning
         DEF Promised!BreakOff, Promised!Becomes, Nothing
    <3> QED
      BY <3>3, <3>4 DEF Promised!Next
  <2>3. CASE ~InTransition(t)
    <3>1. t' = t
      BY <2>1, <2>3 DEF MarkInterrupted
    <3>2. CASE pending = Nothing
      BY <1>1, <1>2, <2>1, <3>1, <3>2 DEF Promised!vars
    <3>3. CASE pending # Nothing
      BY <1>1, <1>2, <2>1, <3>1, <3>3 DEF Promised!Answer, Promised!Next, Nothing
    <3> QED
      BY <3>2, <3>3
  <2> QED
    BY <2>2, <2>3
<1>8. CASE Restart
  <2>1. /\ t' = NewController /\ pending' = Nothing
        /\ requested' = FALSE /\ reset' = FALSE
    BY <1>8 DEF Restart
  <2>2. /\ PhaseFits(t') /\ t'.path = "unknown"
        /\ StageOf(t') = "waiting" /\ StepOf(t') = Nothing
    BY <2>1 DEF NewController, PhaseFits, StageOf, StepOf, InTransition, Transitions
  <2>3. Promised!Restart
    BY <2>1, <2>2, StageMeaning DEF Promised!Restart, Promised!Becomes, Nothing
  <2> QED
    BY <2>2, <2>3 DEF Promised!Next
<1> QED
  BY <1>3, <1>4, <1>5, <1>6, <1>7, <1>8

\* The transfer is a changeover: whatever the readings, the timers, the user, the
\* connection and the process do, no contactor is closed on a house that is not
\* taken to be isolated, none is thrown before the last throw is answered, none is
\* closed twice in a row, and a transfer given up is taken up by a reset alone.
THEOREM TransferImplementsChangeover == Spec => ImplementsChangeover
<1>1. Init => Promised!Init
  BY StageMeaning
     DEF Init, NewController, Promised!Init, Stage, Step, InTransition, Transitions, Nothing
<1>2. Init => ChangeInv
  BY InitInv DEF Init, ChangeInv, PhaseFits, NewController
<1>3. ChangeInv /\ [Next]_vars => ChangeInv' /\ [Promised!Next]_(Promised!vars)
  <2> SUFFICES ASSUME ChangeInv, [Next]_vars
               PROVE  ChangeInv' /\ [Promised!Next]_(Promised!vars)
    OBVIOUS
  <2>1. TransferInv'
    BY TickInv, EnvironmentInv DEF Next, ChangeInv
  <2>2. PhaseFits(t') /\ [Promised!Next]_(Promised!vars)
    BY TickRefines, EnvironmentRefines DEF Next
  <2> QED
    BY <2>1, <2>2 DEF ChangeInv, PhaseFits
<1> QED
  BY <1>1, <1>2, <1>3, PTL DEF Spec, ImplementsChangeover, Promised!Spec
===============================================================================
