------------------------------- MODULE Strategies -------------------------------
(***************************************************************************)
(* The supervisor with the two strategies that advise it, the UPS run and  *)
(* the exercise scheduler, over a house that obeys them sooner or later.   *)
(* A tick (main.py) steps the scheduler, delivers its warnings, steps the  *)
(* UPS run and the supervisor on one observation, hands the directives of  *)
(* the supervisor back to the strategies and gives out the orders.         *)
(*                                                                         *)
(* Between two ticks engines and contactors move, the grid comes and goes, *)
(* minutes pass, the connection breaks, or the program starts anew from    *)
(* its file.  The user asks for a generator or for its end just before a   *)
(* tick, for only a tick reads what he asks.                               *)
(*                                                                         *)
(* The surroundings may settle, with the grid there or away for good: from *)
(* then on engines and contactors do at once what they are told, every     *)
(* reading is there, and nothing else happens.  What the program must get  *)
(* done is asked from then on.                                             *)
(*                                                                         *)
(* maintained, notice, uninvited and owed are history variables: the       *)
(* engine that an exercise has set going and that neither stands nor is in *)
(* a session; the minutes since the last delivered warning, while one is   *)
(* on record; whether the engine of an unforced exercise was told to start *)
(* though the family was not known to be away; and whether the house is    *)
(* off the grid because a charge cycle has left it on the UPS.             *)
(***************************************************************************)
EXTENDS UPSRun, ExerciseScheduler, House

CONSTANTS
  Configs,    \* the configurations of the UPS run, one of which a start reads
  Starts,     \* the start minutes of the exercise, likewise
  Findings,   \* what a tick may find, beside a clear picture
  Fallible,   \* the generators whose engines may fail
  Commands,   \* the commands the user gives
  Settles     \* how the surroundings may settle

ASSUME StrategiesAssumption ==
  /\ Configs \subseteq Config
  /\ Starts \subseteq Minute
  /\ Findings \subseteq {"grid unknown", "engines unknown", "transfer fault", "disabled"}
  /\ Fallible \subseteq GeneratorSlot
  /\ Commands \subseteq {"start_generator", "stop_generator"}
  /\ Settles \subseteq {"grid", "outage"}

VARIABLES
  s,           \* the supervisor
  u,           \* the UPS run
  x,           \* the exercise scheduler
  grid,        \* whether the grid is there
  path,        \* the path of the house
  engine,      \* the engines
  bus,         \* the bus tracker
  told,        \* the orders of the last tick
  settled,     \* whether the surroundings have come to rest
  beat,        \* turns with every tick from then on
  maintained,  \* history
  notice,      \* history
  uninvited,   \* history
  owed         \* history

program == <<s, u, x>>
house == <<grid, path, engine, bus>>
history == <<maintained, notice, uninvited, owed>>
vars == <<s, u, x, grid, path, engine, bus, told, settled, beat, maintained,
          notice, uninvited, owed>>

\* The step the contactors are making, or none, and the order of each engine.
Orders == [path : {"none", "grid", "isolated", "generator"},
           engine : [GeneratorSlot -> EngineCommand]]

NoOrders == [path |-> "none", engine |-> [g \in GeneratorSlot |-> "leave"]]

Bus == [owner : GeneratorSlot \cup {"none", "unknown"}, outage : SUBSET GeneratorSlot]

Init ==
  /\ s = NewSupervisor
  /\ u \in {NewStrategy(config) : config \in Configs}
  /\ x \in {NewScheduler([g \in Exercised |-> start]) : start \in Starts}
  /\ grid = "yes" /\ path = "grid"
  /\ engine = [g \in GeneratorSlot |-> AtRest]
  /\ bus = [owner |-> "none", outage |-> {}]
  /\ told = NoOrders
  /\ settled = "no" /\ beat = FALSE
  /\ maintained = {}
  /\ notice = [g \in Exercised |-> Day + Lead + 1]
  /\ uninvited = FALSE
  /\ owed = FALSE

-------------------------------------------------------------------------------
(***************************************************************************)
(* What a tick observes.                                                   *)
(***************************************************************************)

Seen(g, finding) ==
  IF finding = "engines unknown"
  THEN [GeneratorStatusOf(engine[g]) EXCEPT !.running = "unknown", !.ready = FALSE]
  ELSE GeneratorStatusOf(engine[g])

\* build_supervisor_observation
SupervisorSees(finding) ==
  [grid |-> IF finding = "grid unknown" THEN "unknown" ELSE grid,
   automatic |-> finding # "disabled", emergency |-> "no", inputsKnown |-> TRUE,
   path |-> path, source |-> SourceOf(path, grid), busy |-> told.path # "none",
   transferFault |-> finding = "transfer fault",
   generators |-> [g \in GeneratorSlot |-> Seen(g, finding)],
   owner |-> bus.owner, outage |-> bus.outage, primary |-> "A"]

\* build_ups_run_observation
UPSRunSees(now, o, soc) ==
  [grid |-> o.grid, automatic |-> o.automatic,
   coreDelayElapsed |-> now.failedFor >= FailureDelay, soc |-> soc,
   reason |-> now.session.reason,
   onGenerator |-> /\ HasSession(now) /\ now.phase = "on_generator"
                   /\ o.path = "generator" /\ o.owner = Slot(now),
   cycleOwned |-> now.session.cycleOwned,
   manualOverride |-> now.session.manualOverride,
   startPending |-> now.wantStart,
   gridStable |-> o.grid = "yes" /\ (StableTime = 0 \/ GridStable(now)),
   supplyRestored |-> o.source = "grid" /\ ~o.busy]

\* build_exercise_observation
SchedulerSees(now, o, family) ==
  [grid |-> o.grid, pathStable |-> o.path = "grid" /\ ~o.busy, family |-> family,
   emergency |-> o.emergency, known |-> RequiredStatesKnown(o),
   busy |-> \/ o.busy \/ HasSession(now)
            \/ now.phase \notin {"normal", "waiting_for_data"}
            \/ now.wantStart \/ now.wantStop \/ now.resetActive,
   enabled |-> TRUE, generators |-> o.generators]

-------------------------------------------------------------------------------
(***************************************************************************)
(* The tick.                                                               *)
(***************************************************************************)

\* A start that waits for the family to leave.
AwaitsAbsence(scheduler) ==
  /\ Attempting(scheduler) /\ ~scheduler.attempt.forced
  /\ scheduler.attempt.phase = "starting"

\* The scheduler after its step and the delivery of its warnings, each of which
\* may fail; intruding if the family may be there when a start waits for that.
Exercise(now, o) ==
  IF Exercised = {} THEN {[x |-> x, intruding |-> FALSE, delivered |-> {}]}
  ELSE LET stepped == [family \in Tri |->
                         ExerciseStep(ElapseRun(x), SchedulerSees(now, o, family))]
       IN {[x |-> ConfirmWarnings(stepped[family], delivered),
            intruding |-> family # "no" /\ AwaitsAbsence(stepped[family]),
            delivered |-> delivered] :
             family \in Tri, delivered \in SUBSET WarningsOf(x)}

UPSDecisions(now, o) ==
  {UPSStep(ElapseWait(u), UPSRunSees(now, o, soc)) : soc \in Battery}

\* The orders of a tick (_plan_generator_actions, power_transfer.plan): the
\* shutdown of an exercise goes on when nothing else is allowed.
OrdersAfter(after, o, c, scheduler) ==
  LET allowed == RequiredStatesKnown(o) /\ after.phase # "recovery_required"
      shutdown == ShutdownSlots(scheduler)
                    \cup (IF allowed THEN after.stopOutage ELSE {})
      supplied == o.owner \in GeneratorSlot /\ Running(o, o.owner)
      ready == supplied \/ (HasSession(after) /\ o.generators[Slot(after)].ready)
      next == NextPath(path, IF allowed THEN after.desiredSource ELSE Nobody, ready)
  IN [path |-> IF told.path # "none" THEN told.path
               ELSE IF next = path THEN "none" ELSE next,
      engine |-> [g \in GeneratorSlot |->
         IF g \in shutdown THEN "shutdown"
         ELSE IF ~allowed THEN "leave"
         ELSE IF g \in Ordered(after, o, c) THEN "run" ELSE "rest"]]

\* An authorised shutdown fails when the engine carries the house or does not
\* stop; that is a case for recovery.
ShutdownFails(orders) ==
  /\ settled = "no"
  /\ \E g \in GeneratorSlot : orders.engine[g] = "shutdown" /\ engine[g] # AtRest

\* History: the engine of an unforced exercise is told to start while the family
\* may be there.
Uninvited(scheduler, orders, intruding) ==
  /\ intruding /\ AwaitsAbsence(scheduler)
  /\ orders.engine[scheduler.attempt.slot] = "run"
  /\ engine[scheduler.attempt.slot] = AtRest

Conclude(after, o, c, e, d) ==
  \E scheduler \in {Dispatch(e.x, o, after.directive)} :
    \E orders \in {OrdersAfter(after, o, c, scheduler)} :
      /\ \/ s' = after
         \/ ShutdownFails(orders) /\ s' = RequireRecovery(after)
      /\ u' = IF after.postCycleWait THEN BeginPostCycleWait(d.u) ELSE d.u
      /\ x' = scheduler
      /\ told' = orders
      /\ maintained' = maintained \ {Slot(after)}
      /\ notice' = [g \in Exercised |-> IF g \in e.delivered THEN 0 ELSE notice[g]]
      /\ uninvited' = Uninvited(scheduler, orders, e.intruding)
      /\ owed' = \/ after.postCycleWait
                 \/ owed /\ ~HasSession(after) /\ ~GridPath(o)

\* Whether engines and contactors have done what they were told.
AllDone ==
  /\ told.path = "none"
  /\ \A g \in GeneratorSlot : Obedient(told.engine[g], engine[g]) = engine[g]

\* request_manual_start and request_manual_stop
Requested(wanted) ==
  [s EXCEPT !.wantStart = "start_generator" \in wanted,
            !.wantStop = "stop_generator" \in wanted]

Tick ==
  /\ settled = "no" \/ AllDone
  /\ \E finding \in {"clear"} \cup (IF settled = "no" THEN Findings ELSE {}),
        wanted \in IF settled = "no" THEN SUBSET Commands ELSE {{}} :
       \E o \in {SupervisorSees(finding)}, now \in {Elapse(Requested(wanted))} :
         \E e \in Exercise(now, o), d \in UPSDecisions(now, o) :
           \E c \in {[d.intents EXCEPT !.exercise = OwnedSlot(e.x),
                                       !.exerciseRuns = WantsRun(e.x)]} :
             \E after \in {Step(now, o, c)} : Conclude(after, o, c, e, d)
  /\ beat' = IF settled = "no" THEN beat ELSE ~beat
  /\ UNCHANGED <<house, settled>>

-------------------------------------------------------------------------------
(***************************************************************************)
(* The house.                                                              *)
(***************************************************************************)

\* The grid and the calendar are left alone once the supervisor has given up:
\* only a reset leads on from there, which Supervision is about.
Eventful == settled = "no" /\ s.phase # "recovery_required"

RunningEngines(motors) == {g \in GeneratorSlot : motors[g].running}

\* An engine changes; the bus tracker sees why a run begins.
EngineBecomes(g, e) ==
  LET after == [engine EXCEPT ![g] = e]
      begins == e.running /\ ~engine[g].running
      forOutage == begins /\ grid = "no" /\ g # x.attempt.slot
  IN /\ e # engine[g]
     /\ engine' = after
     /\ bus' = [owner |-> NextOwner(bus.owner, RunningEngines(after)),
                outage |-> (bus.outage \cup IF forOutage THEN {g} ELSE {})
                             \cap RunningEngines(after)]
     /\ maintained' = IF ~e.running /\ ~e.remote THEN maintained \ {g}
                      ELSE IF engine[g] = AtRest /\ g = x.attempt.slot
                      THEN maintained \cup {g} ELSE maintained
     /\ UNCHANGED <<program, grid, path, told, settled, beat, notice, uninvited, owed>>

EngineObeys ==
  \E g \in GeneratorSlot : EngineBecomes(g, Obedient(told.engine[g], engine[g]))

EngineFails ==
  /\ settled = "no"
  /\ \E g \in Fallible : \E e \in Disobedient(told.engine[g], engine[g]) :
       EngineBecomes(g, e)

ContactorsObey ==
  /\ told.path # "none"
  /\ path' = told.path
  /\ told' = [told EXCEPT !.path = "none"]
  /\ UNCHANGED <<program, grid, engine, bus, settled, beat, history>>

GridChanges ==
  /\ Eventful
  /\ grid' = IF grid = "yes" THEN "no" ELSE "yes"
  /\ UNCHANGED <<program, path, engine, bus, told, settled, beat, history>>

-------------------------------------------------------------------------------
(***************************************************************************)
(* The calendar.                                                           *)
(***************************************************************************)

MinutePasses ==
  /\ Eventful /\ Exercised # {}
  /\ x' \in MinuteLater(x)
  /\ notice' = [g \in Exercised |->
                  IF x'.slots[g].warnedFor # "none" /\ notice[g] <= Day + Lead
                  THEN notice[g] + 1 ELSE Day + Lead + 1]
  /\ UNCHANGED <<s, u, house, told, settled, beat, maintained, uninvited, owed>>

\* The interval is over, or an engine has run for long enough to begin anew.
DueChanges ==
  /\ Eventful
  /\ \E g \in Exercised, forcedFrom \in {"today", "tomorrow", "later"} :
       \/ /\ ~x.slots[g].due
          /\ x' = [x EXCEPT !.slots[g].due = TRUE, !.slots[g].forcedFrom = forcedFrom]
       \/ /\ x.slots[g].due /\ engine[g] = Turning /\ forcedFrom = "later"
          /\ x' = [x EXCEPT !.slots[g].due = FALSE, !.slots[g].forcedFrom = "later"]
  /\ UNCHANGED <<s, u, house, told, settled, beat, history>>

-------------------------------------------------------------------------------
(***************************************************************************)
(* The connection and the process.                                         *)
(***************************************************************************)

\* The bus tracker has no history and knows only what EnergyATS runs.
BusFromScratch ==
  LET running == RunningEngines(engine)
      managed == running \cap ({Slot(s)} \ {x.attempt.slot})
  IN [owner |-> NextOwner("unknown", running),
      outage |-> IF s.session.gridWasUnavailable THEN managed ELSE {}]

\* The connection is lost for some time: timers of the supervisor are dropped, a
\* contactor step under way ends in recovery, and time passes.
Disconnect ==
  /\ settled = "no"
  /\ LET lost == [MarkConnectionLost(s) EXCEPT !.readyFor = NoTimer, !.failedFor = NoTimer]
     IN s' = IF told.path = "none" THEN lost ELSE RequireRecovery(lost)
  /\ u' \in {u, IF u.waitedFor = NoTimer THEN u ELSE [u EXCEPT !.waitedFor = MaxDelay]}
  /\ x' \in {x, IF Attempting(x) THEN [x EXCEPT !.attempt.toRun = 0] ELSE x}
  /\ bus' = BusFromScratch
  /\ told' = NoOrders
  /\ UNCHANGED <<grid, path, engine, settled, beat, history>>

\* The program starts from its file, perhaps under a new configuration; a
\* journalled command that is not known to be done means recovery.  The
\* controller of an engine that an exercise was starting finds a fault.
Restart ==
  /\ settled = "no"
  /\ s' \in {Restored(s), RequireRecovery(Restored(s))}
  /\ u' \in {Reloaded(u, config) : config \in Configs}
  /\ \E start \in Starts :
       x' = [x EXCEPT !.slots = [g \in Exercised |-> [x.slots[g] EXCEPT !.start = start]]]
  /\ engine' = [g \in GeneratorSlot |->
                  [engine[g] EXCEPT !.failed = /\ g = x.attempt.slot
                                               /\ engine[g].remote /\ ~engine[g].running]]
  /\ bus' = BusFromScratch
  /\ told' = NoOrders
  /\ UNCHANGED <<grid, path, settled, beat, history>>

\* No exercise falls due any more.
SettleDown ==
  /\ settled = "no"
  /\ settled' \in Settles
  /\ grid' = IF settled' = "grid" THEN "yes" ELSE "no"
  /\ x' = [NewScheduler([g \in Exercised |-> x.slots[g].start]) EXCEPT
             !.attempt = x.attempt]
  /\ notice' = [g \in Exercised |-> Day + Lead + 1]
  /\ UNCHANGED <<s, u, path, engine, bus, told, beat, maintained, uninvited, owed>>

Next ==
  \/ Tick
  \/ EngineObeys
  \/ EngineFails
  \/ ContactorsObey
  \/ GridChanges
  \/ MinutePasses
  \/ DueChanges
  \/ Disconnect
  \/ Restart
  \/ SettleDown

Spec == Init /\ [][Next]_vars

\* The run loop ticks once a second, and engines and contactors that have settled
\* do what they are told.  A tick that changes nothing else turns beat, so that
\* fairness does not pick the readings under which something does change.
FairSpec ==
  /\ Spec
  /\ WF_vars(settled # "no" /\ (Tick \/ EngineObeys \/ ContactorsObey))

-------------------------------------------------------------------------------
(***************************************************************************)
(* Properties.                                                             *)
(***************************************************************************)

\* The types of the variables.
TypeOK ==
  /\ s \in Supervisor
  /\ u \in Strategy
  /\ x \in Scheduler
  /\ grid \in {"yes", "no"}
  /\ path \in {"grid", "isolated", "generator"}
  /\ engine \in [GeneratorSlot -> Engine]
  /\ bus \in Bus
  /\ told \in Orders
  /\ settled \in {"no", "grid", "outage"}
  /\ beat \in BOOLEAN
  /\ maintained \subseteq GeneratorSlot
  /\ notice \in [Exercised -> 0..(Day + Lead + 1)]
  /\ uninvited \in BOOLEAN
  /\ owed \in BOOLEAN

\* The charge cycle never owns a session that the user began or took over
\* (REQ-BEH-13, REQ-CYCLE-04, REQ-CYCLE-05).
CycleNeverOwnsManual ==
  s.session.cycleOwned =>
    s.session.reason = "grid_outage" /\ ~s.session.manualOverride

\* The wait of the charge cycle begins only with the end of a session that the
\* cycle itself was ending; a stop of the user in the same tick takes that away
\* (REQ-CYCLE-06, REQ-DELAY-04, begin_post_cycle_wait).
WaitFollowsCycle ==
  [][u'.postCycleWait /\ ~u.postCycleWait =>
       s.session.cycleOwned /\ s.session.stopRequested /\ ~s'.suppressed]_vars

Valid == u.config.valid \/ ~SwitchedOn(u)

\* With the grid there for good, the isolation that is left of a user's stop in
\* an outage, or of a cycle that ended in one, is undone, through restarts with
\* another configuration too (ups_run.py:157-159, grid_restore_pending).
OwedReturnEnds ==
  /\ settled = "grid" /\ ~HasSession(s)
  /\ s.restorePending \/ (owed /\ Valid)
  ~> path = "grid" \/ s.phase = "recovery_required"

\* With the grid there for good, a house without a session is brought back to it
\* (the comment at ups_run.py:157-159: an input that a cycle has isolated is owed
\* to the house until the grid supplies it).
HouseReturnsToGrid ==
  settled = "grid" /\ ~HasSession(s)
  ~> path = "grid" \/ s.phase = "recovery_required"

\* An outage for good is answered again and again, in whatever state it finds
\* the strategies and whatever the battery reads: the wait on the battery comes
\* to an end (REQ-DELAY-04, REQ-DELAY-05, REQ-CYCLE-07, max_start_delay).
OutageIsAnswered ==
  settled = "outage" /\ ~s.suppressed /\ ~engine["A"].failed
  ~> path = "generator" \/ s.phase = "recovery_required"

\* An engine that an exercise has set going has somebody who will stop it: the
\* attempt is not over before the engine is at rest or serves a session, through
\* failures, lost connections and restarts (REQ-EXERCISE-22, REQ-EXERCISE-23,
\* _fail_active, _step_active).
ExerciseRunHasOwner == maintained \subseteq {x.attempt.slot}

\* No exercise is left that could stop the engine of a session while it turns
\* (REQ-EXERCISE-26, handoff_to_outage, handoff_to_manual): a failed attempt may
\* hold the engine of a new session, but only until it has seen it at rest.
SessionEngineIsKept ==
  HasSession(s) /\ Slot(s) = x.attempt.slot /\ s.phase # "recovery_required" =>
    ~engine[Slot(s)].running /\ ~engine[Slot(s)].remote

\* A forced exercise begins at least the lead, and about a day at most, after a
\* warning that was really delivered, across midnight and a change of the start
\* time (REQ-EXERCISE-08, _due_warnings, _start_blocker).
ForcedNeedsWarning ==
  [][Attempting(x') /\ ~Attempting(x) /\ x'.attempt.forced =>
       notice[x'.attempt.slot] \in Lead..(Day + Lead)]_vars

\* The engine of an unforced exercise is not told to start unless the family is
\* known to be away at that moment, however long the attempt has been waiting
\* (REQ-EXERCISE-04, REQ-EXERCISE-06, _step_active).
PresenceIsRespected == ~uninvited

\* An exercise comes to its end: with the grid there it is called off, or its time
\* is over, or it fails, and its engine is stopped; in an outage a session takes
\* the engine over, or it is stopped as well (REQ-EXERCISE-22, REQ-EXERCISE-27,
\* _step_active, _fail_active).
ExerciseEnds == settled # "no" /\ Attempting(x) ~> ~Attempting(x)
===============================================================================
