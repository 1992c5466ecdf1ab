--------------------------- MODULE EnergySupervisor ---------------------------
(***************************************************************************)
(* The class EnergySupervisor (energy_supervisor.py) as operators on the   *)
(* record s of its attributes: the one place where EnergyATS decides on    *)
(* which source the house shall be, which generator it runs for that, and  *)
(* when it gives up and waits for a technician.                            *)
(*                                                                         *)
(* A tick hands it one observation o (SupervisorObservation: what the      *)
(* controllers and the bus tracker report, and the configured primary) and *)
(* the intents c of the exercise scheduler and of the UPS run strategy     *)
(* (the keyword arguments of step).                                        *)
(*                                                                         *)
(* Time is counted in ticks: failedFor and readyFor are what has passed    *)
(* since grid_failed_since and grid_ready_since, NoTimer is None.  Events, *)
(* messages and recovery_reason are left out, and so is                    *)
(* _cycle_stop_requested, which step sets, uses and clears in one call.    *)
(***************************************************************************)
EXTENDS EnergyDomain, Integers

CONSTANTS
  FailureDelay,   \* grid_failure_delay, in ticks
  StableTime,     \* grid_restore_stable_time, in ticks
  Enabled         \* the generators the configuration lets EnergyATS start

ASSUME SupervisorAssumption ==
  /\ FailureDelay \in Nat
  /\ StableTime \in Nat
  /\ Enabled \subseteq GeneratorSlot

NoTimer == -1

Nobody == "none"

SupervisorPhase ==
  {"waiting_for_data", "normal", "grid_failure_delay", "starting_generator",
   "on_generator", "returning_to_grid", "returning_to_ups",
   "external_running", "recovery_required"}

TransientPhases == {"starting_generator", "returning_to_grid", "returning_to_ups"}

ExerciseDirective ==
  {"none", "cancel_unstarted", "handoff_to_outage", "handoff_to_manual",
   "fail_active"}

GeneratorSession ==
  [reason : {"grid_outage", "manual_generator_start"}, generator : GeneratorSlot,
   gridWasUnavailable : BOOLEAN, stopRequested : BOOLEAN,
   fallbackUsed : BOOLEAN, externalTakeover : BOOLEAN,
   cycleOwned : BOOLEAN, manualOverride : BOOLEAN]

NewSession(reason, slot, outage) ==
  [reason |-> reason, generator |-> slot, gridWasUnavailable |-> outage,
   stopRequested |-> FALSE, fallbackUsed |-> FALSE, externalTakeover |-> FALSE,
   cycleOwned |-> FALSE, manualOverride |-> FALSE]

NoSession == NewSession(Nobody, Nobody, FALSE)

\* The attributes of a supervisor.
Supervisor ==
  [phase : SupervisorPhase, session : GeneratorSession \cup {NoSession},
   desiredSource : PowerSource \cup {Nobody}, desired : SUBSET GeneratorSlot,
   failedFor : NoTimer..FailureDelay, readyFor : NoTimer..StableTime,
   suppressed : BOOLEAN, restorePending : BOOLEAN, initialized : BOOLEAN,
   wantStart : BOOLEAN, wantStop : BOOLEAN, wantReset : BOOLEAN,
   resetActive : BOOLEAN, stopOutage : SUBSET GeneratorSlot,
   directive : ExerciseDirective, postCycleWait : BOOLEAN]

NewSupervisor ==
  [phase |-> "waiting_for_data", session |-> NoSession,
   desiredSource |-> Nobody, desired |-> {},
   failedFor |-> NoTimer, readyFor |-> NoTimer,
   suppressed |-> FALSE, restorePending |-> FALSE, initialized |-> FALSE,
   wantStart |-> FALSE, wantStop |-> FALSE, wantReset |-> FALSE,
   resetActive |-> FALSE, stopOutage |-> {},
   directive |-> "none", postCycleWait |-> FALSE]

HasSession(s) == s.session # NoSession

-------------------------------------------------------------------------------
(***************************************************************************)
(* What a tick brings.                                                     *)
(***************************************************************************)

\* The parts of a GeneratorStatus that the supervisor reads; failed is
\* phase FAULT.
GeneratorStatus ==
  [running : Tri, remote : Tri, failed : BOOLEAN, ready : BOOLEAN]

\* SupervisorObservation
Observation ==
  [grid : Tri, automatic : BOOLEAN, emergency : Tri, inputsKnown : BOOLEAN,
   path : PowerPath, source : PowerSource, busy : BOOLEAN,
   transferFault : BOOLEAN,
   generators : [GeneratorSlot -> GeneratorStatus],
   owner : GeneratorSlot \cup {"none", "unknown"},
   outage : SUBSET GeneratorSlot, primary : GeneratorSlot]

Intents ==
  [exercise : GeneratorSlot \cup {Nobody}, exerciseRuns : BOOLEAN,
   defer : BOOLEAN, delaySatisfied : BOOLEAN, claim : BOOLEAN,
   cycleStop : BOOLEAN, restoreGrid : BOOLEAN]

NoIntents ==
  [exercise |-> Nobody, exerciseRuns |-> FALSE, defer |-> FALSE,
   delaySatisfied |-> FALSE, claim |-> FALSE, cycleStop |-> FALSE,
   restoreGrid |-> FALSE]

RequiredStatesKnown(o) ==
  /\ o.grid # "unknown"
  /\ o.emergency # "unknown"
  /\ o.inputsKnown
  /\ \A g \in GeneratorSlot :
       o.generators[g].running # "unknown" /\ o.generators[g].remote # "unknown"

Running(o, g) == o.generators[g].running = "yes"

Stopped(o, g) == o.generators[g].running = "no" /\ o.generators[g].remote = "no"

\* running and commanded to
InService(o, g) == Running(o, g) /\ o.generators[g].remote = "yes"

ActiveSlots(o) ==
  {g \in GeneratorSlot : Running(o, g) \/ o.generators[g].remote = "yes"}

Failed(o, g) == o.generators[g].failed

GridPath(o) == o.path = "grid" /\ ~o.busy

AllStopped(o, slots) == \A g \in slots : Stopped(o, g)

OtherSlot(g) == IF g = "A" THEN "B" ELSE "A"

-------------------------------------------------------------------------------
(***************************************************************************)
(* Timers.                                                                 *)
(***************************************************************************)

\* A tick of time passes.
Elapse(s) ==
  [s EXCEPT !.failedFor = IF @ \in 0..(FailureDelay - 1) THEN @ + 1 ELSE @,
            !.readyFor = IF @ \in 0..(StableTime - 1) THEN @ + 1 ELSE @]

GridStable(s) == s.readyFor >= StableTime

UpdateGridTimer(s, grid) ==
  CASE grid = "yes" ->
         [s EXCEPT !.readyFor = IF @ = NoTimer THEN 0 ELSE @,
                   !.failedFor = NoTimer]
    [] grid = "no" -> [s EXCEPT !.readyFor = NoTimer]
    [] OTHER -> [s EXCEPT !.readyFor = NoTimer, !.failedFor = NoTimer]

-------------------------------------------------------------------------------
(***************************************************************************)
(* Sessions and recovery.                                                  *)
(***************************************************************************)

RequireRecovery(s) ==
  IF s.phase = "recovery_required" THEN s
  ELSE [s EXCEPT !.phase = "recovery_required", !.desired = {},
                 !.stopOutage = {}, !.resetActive = FALSE]

\* _finish_session(preserve_grid_failure_timer=True)
EndSession(s) ==
  [s EXCEPT !.session = NoSession, !.desiredSource = Nobody, !.desired = {},
            !.phase = "normal", !.stopOutage = {}]

FinishSession(s) == [EndSession(s) EXCEPT !.failedFor = NoTimer]

DiscardRequests(s) == [s EXCEPT !.wantStart = FALSE, !.wantStop = FALSE]

\* A failure is never overwritten by a weaker directive.
SetDirective(s, directive) ==
  IF s.directive = "fail_active" THEN s ELSE [s EXCEPT !.directive = directive]

FailExercise(s, c) ==
  IF c.exercise = Nobody THEN s ELSE SetDirective(s, "fail_active")

\* _begin_session_for_slot; the callers have looked at the active engines.
BeginSessionForSlot(s, o, reason, slot) ==
  IF slot \notin Enabled \/ Failed(o, slot) THEN s
  ELSE [s EXCEPT !.session = NewSession(reason, slot, o.grid = "no"),
                 !.desired = {slot}, !.phase = "starting_generator",
                 !.desiredSource = IF o.grid = "no" THEN "ups_only" ELSE o.source]

BeginSession(s, o, reason) ==
  IF ActiveSlots(o) # {} THEN s
  ELSE BeginSessionForSlot(s, o, reason, o.primary)

\* The engine the exercise runs can carry the house as it is.
CanAdopt(o, c) ==
  InService(o, c.exercise) /\ ~Failed(o, c.exercise) /\ c.exercise \in Enabled

\* A session and an exercise on the way: adopt its engine, cancel it before it
\* starts, or fail.  mayBegin is false while the UPS run defers a start.
TakeFromExercise(s, o, c, reason, handoff, mayBegin) ==
  IF CanAdopt(o, c)
  THEN SetDirective(BeginSessionForSlot(s, o, reason, c.exercise), handoff)
  ELSE IF Stopped(o, c.exercise)
  THEN LET u == SetDirective(s, "cancel_unstarted")
       IN IF mayBegin THEN BeginSession(u, o, reason)
          ELSE [u EXCEPT !.phase = "grid_failure_delay"]
  ELSE SetDirective(RequireRecovery(s), "fail_active")

-------------------------------------------------------------------------------
(***************************************************************************)
(* No session: wait for the end of an isolation of our own, for the grid   *)
(* to be stable after an outage, or for an outage.                         *)
(***************************************************************************)

\* A manual stop in an outage has left the house isolated.
AwaitRestore(s, o) ==
  LET u == [s EXCEPT !.desiredSource = Nobody, !.phase = "normal"]
  IN IF GridPath(o)
     THEN [u EXCEPT !.restorePending = FALSE,
                    !.suppressed = @ /\ o.grid # "yes"]
     ELSE [u EXCEPT !.desiredSource = IF GridStable(s) THEN "grid" ELSE @]

\* The grid is stable and engines still run for the outage.
ReturnFromOutage(s, o) ==
  LET u == [s EXCEPT !.desiredSource = "grid", !.phase = "returning_to_grid"]
  IN CASE ~GridPath(o) -> u
       [] GridPath(o) /\ AllStopped(o, o.outage) -> FinishSession(u)
       [] OTHER -> [u EXCEPT !.stopOutage = o.outage]

\* The outage has lasted for the failure delay.
BeginOutage(s, o, c) ==
  CASE c.exercise # Nobody ->
         TakeFromExercise(s, o, c, "grid_outage", "handoff_to_outage", ~c.defer)
    [] c.exercise = Nobody /\ c.defer -> [s EXCEPT !.phase = "grid_failure_delay"]
    [] OTHER -> BeginSession(s, o, "grid_outage")

AwaitOutage(s, o, c) ==
  LET watching == o.grid = "no" /\ o.automatic /\ ~s.suppressed
      foreign == ActiveSlots(o) \ {c.exercise}
      waited == c.delaySatisfied \/ s.failedFor >= FailureDelay
  IN CASE o.grid = "yes" -> [s EXCEPT !.suppressed = FALSE, !.phase = "normal"]
       [] o.grid # "yes" /\ ~watching -> [s EXCEPT !.phase = "normal"]
       [] watching /\ foreign # {} -> [s EXCEPT !.phase = "external_running"]
       [] watching /\ foreign = {} /\ ~waited ->
            [s EXCEPT !.failedFor = IF @ = NoTimer THEN 0 ELSE @,
                      !.phase = "grid_failure_delay"]
       [] OTHER -> BeginOutage(s, o, c)

WithoutSession(s, o, c) ==
  LET u == [s EXCEPT !.desired = {}]
  IN CASE u.restorePending -> AwaitRestore(u, o)
       [] ~u.restorePending /\ GridStable(u) /\ c.restoreGrid ->
            [u EXCEPT !.desiredSource = "grid", !.phase = "returning_to_grid"]
       [] ~u.restorePending /\ GridStable(u) /\ ~c.restoreGrid /\ o.outage # {} ->
            ReturnFromOutage(u, o)
       [] OTHER -> AwaitOutage([u EXCEPT !.desiredSource = Nobody], o, c)

-------------------------------------------------------------------------------
(***************************************************************************)
(* A session: start, supply, and the way back to the grid or to the UPS.   *)
(***************************************************************************)

Slot(s) == s.session.generator

\* Order the managed engine to run (or not).
Order(s, run) ==
  [s EXCEPT !.desired = IF run THEN @ \cup {Slot(s)} ELSE @ \ {Slot(s)}]

\* An engine that EnergyATS does not manage carries the bus.
YieldTo(s, run) ==
  [Order(s, run) EXCEPT !.session.externalTakeover = TRUE]

\* Mutant: falls back again and again.
ManagedFailureForever(s, o) ==
  LET other == OtherSlot(Slot(s))
      u == Order(s, FALSE)
  IN IF other \in ActiveSlots(o) \/ other \notin Enabled \/ Failed(o, other)
     THEN RequireRecovery(u)
     ELSE [u EXCEPT !.session.generator = other, !.session.fallbackUsed = TRUE,
                    !.desiredSource = "ups_only", !.desired = @ \cup {other},
                    !.phase = "starting_generator"]

\* Mutant: takes over an engine that somebody else has started.
ManagedFailureSeizes(s, o) ==
  LET other == OtherSlot(Slot(s))
      u == Order(s, FALSE)
  IN IF s.session.fallbackUsed \/ other \notin Enabled \/ Failed(o, other)
     THEN RequireRecovery(u)
     ELSE [u EXCEPT !.session.generator = other, !.session.fallbackUsed = TRUE,
                    !.desiredSource = "ups_only", !.desired = @ \cup {other},
                    !.phase = "starting_generator"]

\* Mutant: the failed engine stays ordered to run.
ManagedFailureKeepsOrder(s, o) ==
  LET other == OtherSlot(Slot(s))
  IN IF s.session.fallbackUsed \/ other \in ActiveSlots(o)
        \/ other \notin Enabled \/ Failed(o, other)
     THEN RequireRecovery(s)
     ELSE [s EXCEPT !.session.generator = other, !.session.fallbackUsed = TRUE,
                    !.desiredSource = "ups_only", !.desired = @ \cup {other},
                    !.phase = "starting_generator"]

\* _managed_failure
ManagedFailure(s, o) ==
  LET other == OtherSlot(Slot(s))
      u == Order(s, FALSE)
  IN IF s.session.fallbackUsed THEN RequireRecovery(u)
     ELSE IF other \in ActiveSlots(o)
     THEN [YieldTo(u, FALSE) EXCEPT !.desiredSource = "generator",
                                       !.phase = "on_generator"]
     ELSE IF other \notin Enabled \/ Failed(o, other) THEN RequireRecovery(u)
     ELSE [u EXCEPT !.session.generator = other, !.session.fallbackUsed = TRUE,
                    !.desiredSource = "ups_only", !.desired = @ \cup {other},
                    !.phase = "starting_generator"]

\* _starting
Starting(s, o) ==
  LET slot == Slot(s)
      u == [Order(s, TRUE) EXCEPT !.desiredSource =
              IF s.session.gridWasUnavailable \/ o.source # "grid"
              THEN "ups_only" ELSE "grid"]
      v == [u EXCEPT !.desiredSource = "generator"]
      on == [v EXCEPT !.phase = "on_generator"]
  IN IF Failed(o, slot) THEN ManagedFailure(u, o)
     ELSE IF ~o.generators[slot].ready THEN u
     ELSE IF o.busy \/ o.path # "generator" THEN v
     ELSE IF o.owner \notin GeneratorSlot THEN RequireRecovery(v)
     ELSE IF o.owner = slot THEN on
     ELSE YieldTo(on, Running(o, slot))

\* _on_generator
OnGenerator(s, o) ==
  LET slot == Slot(s)
      u == [s EXCEPT !.desiredSource = "generator"]
      v == Order(u, TRUE)
  IN IF o.owner = slot
     THEN IF o.generators[slot].ready /\ ~Failed(o, slot) THEN v
          ELSE ManagedFailure(v, o)
     ELSE IF o.owner \in GeneratorSlot /\ Running(o, o.owner)
     THEN YieldTo(u, InService(o, slot))
     ELSE IF o.owner = "unknown" \/ s.session.externalTakeover
     THEN RequireRecovery(u)
     ELSE ManagedFailure(u, o)

\* _cancel_return: the grid is lost again on the way back.
CancelReturn(s, o) ==
  LET ready == o.generators[Slot(s)].ready
  IN IF o.owner \in GeneratorSlot /\ Running(o, o.owner)
     THEN [Order(s, o.owner = Slot(s)) EXCEPT !.desiredSource = "generator",
                                              !.phase = "on_generator"]
     ELSE [Order(s, TRUE) EXCEPT
             !.desiredSource = IF ready THEN "generator" ELSE "ups_only",
             !.phase = IF ready THEN "on_generator" ELSE "starting_generator"]

\* _returning
Returning(s, o) ==
  LET forOutage == s.session.gridWasUnavailable /\ ~s.session.stopRequested
      u == [s EXCEPT !.desiredSource = "grid"]
      v == [u EXCEPT !.desired = {},
                     !.stopOutage = IF forOutage THEN o.outage ELSE {}]
  IN IF forOutage /\ o.grid = "no" THEN CancelReturn(u, o)
     ELSE IF ~GridPath(o) THEN u
     ELSE IF Failed(o, Slot(s)) THEN RequireRecovery(v)
     ELSE IF Stopped(o, Slot(s)) /\ AllStopped(o, v.stopOutage)
     THEN FinishSession(v)
     ELSE v

\* Mutant: names the path where a source is due.
ReturningToPath(s, o) ==
  LET slot == Slot(s)
      u == [s EXCEPT !.desiredSource = "isolated"]
  IN IF Failed(o, slot) THEN RequireRecovery(u)
     ELSE IF o.busy \/ o.path # "isolated" THEN Order(u, TRUE)
     ELSE IF Stopped(o, slot) THEN EndSession(Order(u, FALSE))
     ELSE Order(u, FALSE)

\* _returning_to_ups
ReturningToUps(s, o) ==
  LET slot == Slot(s)
      u == [s EXCEPT !.desiredSource = "ups_only"]
  IN IF Failed(o, slot) THEN RequireRecovery(u)
     ELSE IF o.busy \/ o.path # "isolated" THEN Order(u, TRUE)
     ELSE IF Stopped(o, slot) THEN EndSession(Order(u, FALSE))
     ELSE Order(u, FALSE)

\* _with_session
WithSession(s, o) ==
  LET home == [s EXCEPT !.phase = "returning_to_grid", !.desiredSource = "grid"]
  IN CASE s.phase = "returning_to_grid" -> Returning(s, o)
       [] s.phase = "returning_to_ups" ->
            IF GridStable(s) THEN [home EXCEPT !.session.stopRequested = FALSE]
            ELSE ReturningToUps(s, o)
       [] s.phase \notin {"returning_to_grid", "returning_to_ups"} ->
            IF /\ s.session.gridWasUnavailable /\ ~s.session.stopRequested
               /\ GridStable(s)
            THEN home
            ELSE CASE s.phase = "starting_generator" -> Starting(s, o)
                   [] s.phase = "on_generator" -> OnGenerator(s, o)
                   [] OTHER -> RequireRecovery(s)

-------------------------------------------------------------------------------
(***************************************************************************)
(* The commands of the user and of the charge cycle.                       *)
(***************************************************************************)

\* Mutant: the cycle keeps a session that the user has taken over.
TakeOverKeepsCycle(s) ==
  LET u == [s EXCEPT !.session.manualOverride = TRUE,
                     !.session.stopRequested = FALSE]
  IN IF s.phase = "returning_to_ups"
     THEN [Order(u, TRUE) EXCEPT !.phase = "starting_generator",
                                 !.desiredSource = "ups_only"]
     ELSE u

\* The user takes over an automatic session.
TakeOver(s) ==
  LET u == [s EXCEPT !.session.manualOverride = TRUE,
                     !.session.cycleOwned = FALSE,
                     !.session.stopRequested = FALSE]
  IN IF s.phase = "returning_to_ups"
     THEN [Order(u, TRUE) EXCEPT !.phase = "starting_generator",
                                 !.desiredSource = "ups_only"]
     ELSE u

\* _manual_start
ManualStart(s, o, c) ==
  IF HasSession(s)
  THEN IF s.session.reason = "grid_outage" THEN TakeOver(s) ELSE s
  ELSE LET u == IF c.exercise # Nobody
                THEN TakeFromExercise(s, o, c, "manual_generator_start",
                                      "handoff_to_manual", TRUE)
                ELSE BeginSession(s, o, "manual_generator_start")
       IN IF HasSession(u) THEN [u EXCEPT !.suppressed = FALSE] ELSE u

\* _manual_stop
ManualStop(s, o) ==
  LET u == [s EXCEPT !.session.stopRequested = TRUE,
                     !.session.cycleOwned = FALSE]
  IN IF ~HasSession(s) THEN s
     ELSE IF o.grid = "no"
     THEN [u EXCEPT !.suppressed = TRUE, !.restorePending = TRUE,
                    !.desiredSource = "ups_only", !.phase = "returning_to_ups"]
     ELSE [u EXCEPT !.desiredSource = "grid", !.phase = "returning_to_grid"]

\* _cycle_stop
CycleStop(s) ==
  IF /\ s.session.reason = "grid_outage" /\ s.session.cycleOwned
     /\ ~s.session.manualOverride /\ s.phase = "on_generator"
  THEN [s EXCEPT !.session.stopRequested = TRUE,
                 !.desiredSource = "ups_only", !.phase = "returning_to_ups"]
  ELSE s

AfterStart(s, o, c) ==
  IF s.wantStart THEN ManualStart([s EXCEPT !.wantStart = FALSE], o, c) ELSE s

AfterStop(s, o) ==
  IF s.wantStop THEN ManualStop([s EXCEPT !.wantStop = FALSE], o) ELSE s

\* The user first, then the cycle.
Commanded(s, o, c) ==
  LET u == AfterStop(AfterStart(s, o, c), o)
  IN IF c.cycleStop THEN CycleStop(u) ELSE u

-------------------------------------------------------------------------------
(***************************************************************************)
(* step                                                                    *)
(***************************************************************************)

\* _restored_session_matches
RestoredSessionMatches(o) ==
  ~o.busy /\ o.path = "generator" /\ o.owner \in GeneratorSlot

\* _initialize, on the first tick
Initialize(s, o) ==
  IF s.phase = "recovery_required" THEN s
  ELSE IF o.transferFault THEN RequireRecovery(s)
  ELSE IF ~HasSession(s)
  THEN IF s.phase \in TransientPhases THEN RequireRecovery(s) ELSE FinishSession(s)
  ELSE IF s.phase = "on_generator" /\ RestoredSessionMatches(o)
  THEN [s EXCEPT !.desiredSource = "generator",
                 !.desired = {Slot(s)} \cap {o.owner}]
  ELSE RequireRecovery(s)

Prelude(s, o) ==
  LET u == [s EXCEPT !.stopOutage = {}, !.directive = "none",
                     !.postCycleWait = FALSE]
      v == IF u.initialized THEN u
           ELSE [Initialize(u, o) EXCEPT !.initialized = TRUE]
  IN UpdateGridTimer(v, o.grid)

\* Nothing outranks the commands of the user in this tick.
Attends(s, o) ==
  /\ RequiredStatesKnown(o)
  /\ s.phase # "recovery_required"
  /\ o.emergency = "no"
  /\ ~o.transferFault

\* Mutant: a completed cycle is recognised by the session it had before the
\* commands.
ConductStale(before, u, o, c) ==
  LET v == IF HasSession(u) THEN WithSession(u, o) ELSE WithoutSession(u, o, c)
      claimed == /\ c.claim /\ ~HasSession(before)
                 /\ v.session.reason = "grid_outage"
                 /\ v.directive # "handoff_to_outage"
  IN [v EXCEPT !.session.cycleOwned = @ \/ claimed,
               !.postCycleWait = /\ before.session.cycleOwned
                                 /\ ~HasSession(v) /\ o.grid = "no"]

\* The session after the commands; a new automatic session that did not come
\* from an exercise may be claimed by the charge cycle, and a cycle that has
\* reached the UPS in an outage begins its wait.
Conduct(before, u, o, c) ==
  LET v == IF HasSession(u) THEN WithSession(u, o) ELSE WithoutSession(u, o, c)
      claimed == /\ c.claim /\ ~HasSession(before)
                 /\ v.session.reason = "grid_outage"
                 /\ v.directive # "handoff_to_outage"
  IN [v EXCEPT !.session.cycleOwned = @ \/ claimed,
               !.postCycleWait = /\ u.session.cycleOwned
                                 /\ u.phase = "returning_to_ups"
                                 /\ ~HasSession(v) /\ o.grid = "no"]

Step(s, o, c) ==
  LET u == Prelude(s, o)
      v == Commanded(u, o, c)
      w == IF v.phase = "recovery_required" THEN v ELSE Conduct(s, v, o, c)
  IN CASE Attends(u, o) ->
            IF w.phase = "recovery_required" THEN FailExercise(w, c) ELSE w
       [] ~Attends(u, o) /\ RequiredStatesKnown(o) ->
            FailExercise(RequireRecovery(DiscardRequests(u)), c)
       [] OTHER -> DiscardRequests(u)

\* _decision: the generators that the controllers are told to run.
Ordered(s, o, c) ==
  LET allowed == RequiredStatesKnown(o) /\ s.phase # "recovery_required"
      exercising == /\ ~HasSession(s) /\ s.directive = "none"
                    /\ c.exercise # Nobody /\ c.exerciseRuns
  IN IF ~allowed THEN {}
     ELSE s.desired \cup (IF exercising THEN {c.exercise} ELSE {})

-------------------------------------------------------------------------------
(***************************************************************************)
(* The recovery reset, the connection and the restart.                     *)
(***************************************************************************)

NeedsReset(s, o) ==
  \/ s.phase = "recovery_required"
  \/ o.transferFault
  \/ \E g \in GeneratorSlot : Failed(o, g)

\* _recovery_blocker
ResetBlocked(s, o, c, transferBlocked) ==
  \/ o.emergency # "no"
  \/ transferBlocked
  \/ \E g \in GeneratorSlot :
       o.generators[g].running = "unknown" \/ o.generators[g].remote = "unknown"
  \/ ~(ActiveSlots(o) \subseteq {Slot(s), c.exercise})

Reset(s, directive) == [s |-> s, directive |-> directive]

\* begin_recovery_reset
BeginReset(s) ==
  [s EXCEPT !.resetActive = TRUE, !.desiredSource = "grid", !.desired = {}]

FailReset(s) == [s EXCEPT !.resetActive = FALSE]

\* complete_recovery_reset
CompleteReset(s) ==
  [s EXCEPT !.resetActive = FALSE, !.phase = "normal", !.session = NoSession,
            !.desiredSource = Nobody, !.desired = {}, !.failedFor = NoTimer,
            !.readyFor = NoTimer, !.restorePending = FALSE, !.stopOutage = {}]

\* The grid path is confirmed: our own engines are stopped first.
ResetAfterGrid(s, o, c) ==
  Reset(s, IF \A g \in {Slot(s), c.exercise} \cap GeneratorSlot : Stopped(o, g)
           THEN "complete" ELSE "stop_generators")

\* recovery_step
RecoveryStep(s, o, c, transferBlocked, gridConfirmed) ==
  LET u == [s EXCEPT !.wantReset = FALSE]
      blocked == ResetBlocked(s, o, c, transferBlocked)
  IN IF ~s.resetActive
     THEN IF ~s.wantReset THEN Reset(u, "none")
          ELSE IF ~NeedsReset(s, o) \/ blocked THEN Reset(u, "finish_tick")
          ELSE IF gridConfirmed THEN ResetAfterGrid(BeginReset(u), o, c)
          ELSE Reset(BeginReset(u), "begin_grid_recovery")
     ELSE IF blocked THEN Reset(FailReset(u), "finish_tick")
     ELSE IF ~gridConfirmed THEN Reset(u, "drive_grid_recovery")
     ELSE ResetAfterGrid(u, o, c)

\* mark_connection_lost
MarkConnectionLost(s) ==
  IF s.phase \in TransientPhases THEN RequireRecovery(s) ELSE s

\* Mutant: the obligation is not written to the file.
RestoredWithoutPending(s) ==
  [NewSupervisor EXCEPT !.phase = s.phase, !.session = s.session,
                        !.suppressed = s.suppressed]

\* from_dict of to_dict
Restored(s) ==
  [NewSupervisor EXCEPT !.phase = s.phase, !.session = s.session,
                        !.suppressed = s.suppressed,
                        !.restorePending = s.restorePending]
===============================================================================
