---------------------------- MODULE StrategiesProofs ----------------------------
(***************************************************************************)
(* What holds of the supervisor with its two strategies whatever the       *)
(* generators that are exercised, the length of a day and of the delays.   *)
(*                                                                         *)
(* The argument is one inductive invariant.  Its parts say what the tick   *)
(* relies on that the single program or the single house does not show: an *)
(* attempt that is still starting has never had its engine at work; an     *)
(* engine that an exercise has set going is the one of the attempt, and it *)
(* moves; an attempt that is left beside a session is only waiting to see  *)
(* that its engine is at rest; and a warning on record is at most a day    *)
(* and the lead old, for midnight makes that of tomorrow one of today and  *)
(* drops that of today.                                                    *)
(***************************************************************************)
EXTENDS Strategies, EnergySupervisorProofs

\* An engine that turns or is told to.
Moves(e) == e.running \/ e.remote

\* A start that still waits has not had its engine at work.
StartIsFresh == x.attempt.phase = "starting" => ~x.attempt.started

\* Only a generator whose exercise is enabled is exercised.
AttemptIsExercised == Attempting(x) => x.attempt.slot \in Exercised

\* An engine that an exercise has set going is that of the attempt, and it moves.
MaintainedMoves ==
  maintained \subseteq {x.attempt.slot} /\ \A g \in maintained : Moves(engine[g])

\* An attempt beside a session only waits to see its engine at rest.
AttemptIsOver ==
  HasSession(s) /\ Attempting(x) /\ s.phase # "recovery_required" =>
    /\ x.attempt.phase = "stopping"
    /\ ~Moves(engine[x.attempt.slot])
    /\ told.engine[x.attempt.slot] # "run"

\* How old a warning can be by the day it is for and by the time of day.
Dated(slot, age, minute) ==
  /\ slot.warnedFor = "today" => age <= minute + Lead + 1
  /\ slot.warnedFor = "tomorrow" =>
       minute >= Day - Lead - 1 /\ age <= minute - (Day - Lead - 1)
  /\ slot.warnedFor # "none" => age >= slot.warnedAgo

\* The warnings on record are as old as they can be.
WarningsAreDated ==
  \A g \in Exercised : Dated(x.slots[g], notice[g], x.minute)

\* The inductive invariant.
Inv ==
  /\ TypeOK
  /\ Kept(s) /\ CycleFits(s)
  /\ StartIsFresh
  /\ AttemptIsExercised
  /\ MaintainedMoves
  /\ AttemptIsOver
  /\ WarningsAreDated
  /\ ~uninvited

-------------------------------------------------------------------------------
(***************************************************************************)
(* The UPS run.                                                            *)
(***************************************************************************)

\* The time that a wait has lasted.
LEMMA ElapseWaitKeeps ==
  ASSUME NEW p \in Strategy
  PROVE  ElapseWait(p) \in Strategy /\ ElapseWait(p).postCycleWait = p.postCycleWait
BY MaxDelayAssumption DEF ElapseWait, Strategy, NoTimer

\* The UPS run never begins the wait after a cycle by itself, and asks only for
\* the end of a session of its own that supplies the house.
LEMMA UPSStepDecides ==
  ASSUME NEW p \in Strategy, NEW o
  PROVE  LET d == UPSStep(p, o)
         IN  /\ d.u \in Strategy
             /\ d.u.postCycleWait => p.postCycleWait
             /\ d.intents \in Intents
             /\ d.intents.cycleStop => o.onGenerator
<1> DEFINE reset == ResetWait(p)
           served == [reset EXCEPT !.postCycleWait = FALSE]
           begun == [p EXCEPT !.waitedFor = 0]
           leftOff == p.postCycleWait /\ ~SessionActive(o)
           none == NoIntents
           restores == [none EXCEPT !.restoreGrid = leftOff]
           stops == [none EXCEPT !.cycleStop = TargetReached(p, o)]
           starts == [none EXCEPT !.delaySatisfied = TRUE, !.claim = p.config.cycle]
           defers == [none EXCEPT !.delaySatisfied = TRUE, !.defer = TRUE]
<1>1. /\ p.config.cycle \in BOOLEAN /\ p.postCycleWait \in BOOLEAN
      /\ 0 \in NoTimer..MaxDelay /\ NoTimer \in NoTimer..MaxDelay
  BY MaxDelayAssumption DEF Strategy, Config, NoTimer
<1>2. /\ reset \in Strategy /\ reset.postCycleWait = p.postCycleWait
      /\ served \in Strategy /\ ~served.postCycleWait
      /\ begun \in Strategy /\ begun.postCycleWait = p.postCycleWait
  BY <1>1 DEF ResetWait, Strategy
<1>3. TargetReached(p, o) => o.onGenerator
  BY DEF TargetReached
<1>4. TargetReached(p, o) \in BOOLEAN /\ leftOff \in BOOLEAN
  BY DEF TargetReached
<1>5. none \in Intents /\ ~none.cycleStop
  BY DEF NoIntents, Intents, Nobody
<1> HIDE DEF none, leftOff, reset, served, begun
<1>6. /\ restores \in Intents /\ ~restores.cycleStop
      /\ starts \in Intents /\ ~starts.cycleStop
      /\ defers \in Intents /\ ~defers.cycleStop
      /\ stops \in Intents /\ stops.cycleStop = TargetReached(p, o)
  BY <1>1, <1>4, <1>5 DEF Intents
<1>7. UPSOnGrid(p, o) \in {Decide(p, restores), Decide(served, none)}
  BY DEF UPSOnGrid, none, leftOff, reset, served
<1>8. UPSWithoutSession(p, o) \in {Decide(p, none)} \cup
        {Decide(w, i) : w \in {p, begun}, i \in {starts, defers}}
  BY DEF UPSWithoutSession, none, begun
<1>9. UPSStep(p, o) \in {Decide(p, none), UPSOnGrid(p, o), Decide(reset, none),
                         Decide(served, stops), UPSWithoutSession(p, o)}
  BY DEF UPSStep, none, reset, served
<1> HIDE DEF restores, starts, defers, stops
<1> QED
  BY <1>2, <1>3, <1>5, <1>6, <1>7, <1>8, <1>9 DEF Decide

-------------------------------------------------------------------------------
(***************************************************************************)
(* The exercise scheduler.                                                 *)
(***************************************************************************)

\* There is no attempt, or one that is whole.
LEMMA AttemptTypes ==
  ASSUME NEW y \in Scheduler
  PROVE  /\ Attempting(y) => y.attempt \in Attempt
         /\ Attempting(y) <=> y.attempt.slot \in GeneratorSlot
         /\ ~Attempting(y) => y.attempt = NoAttempt /\ y.attempt.slot = Nobody
BY DEF Scheduler, Attempting, Attempt, NoAttempt, Nobody, GeneratorSlot

\* The attempt concerns nothing else.
LEMMA AttemptSet ==
  ASSUME NEW y \in Scheduler, NEW attempt \in Attempt \cup {NoAttempt}
  PROVE  LET z == [y EXCEPT !.attempt = attempt]
         IN  /\ z \in Scheduler /\ z.attempt = attempt
             /\ z.slots = y.slots /\ z.minute = y.minute
BY DEF Scheduler

\* What is left of an attempt by one change: it is over, or it is the same one,
\* perhaps in another phase.
Continues(y, z) ==
  /\ z \in Scheduler /\ z.minute = y.minute /\ z.slots = y.slots
  /\ Attempting(z) =>
       /\ Attempting(y)
       /\ z.attempt.slot = y.attempt.slot /\ z.attempt.forced = y.attempt.forced
       /\ z.attempt.phase = "starting" =>
            y.attempt.phase = "starting" /\ z.attempt.started = y.attempt.started

\* A time that has passed, the end of the attempt, and its failure.
LEMMA ElapseRunContinues ==
  ASSUME NEW y \in Scheduler
  PROVE  LET z == ElapseRun(y)
         IN  /\ Continues(y, z) /\ (Attempting(z) <=> Attempting(y))
             /\ z.attempt.phase = y.attempt.phase /\ z.attempt.slot = y.attempt.slot
             /\ z.attempt.started = y.attempt.started
             /\ z.attempt.forced = y.attempt.forced
<1>1. CASE ElapseRun(y) = y
  BY <1>1 DEF Continues
<1>2. CASE ElapseRun(y) # y
  <2> DEFINE a == [y.attempt EXCEPT !.toRun = @ - 1]
  <2>1. Attempting(y) /\ y.attempt.toRun > 0
    BY <1>2 DEF ElapseRun
  <2>2. y.attempt \in Attempt
    BY <2>1, AttemptTypes
  <2>3. /\ a \in Attempt /\ a.slot = y.attempt.slot /\ a.phase = y.attempt.phase
        /\ a.started = y.attempt.started /\ a.forced = y.attempt.forced
    BY <2>1, <2>2, ExerciseAssumption DEF Attempt
  <2>4. a # NoAttempt
    BY <2>3 DEF Attempt, NoAttempt, Nobody, GeneratorSlot
  <2>5. ElapseRun(y) = [y EXCEPT !.attempt = a]
    BY <2>1 DEF ElapseRun, Scheduler
  <2> HIDE DEF a
  <2> QED
    BY <2>1, <2>3, <2>4, <2>5, AttemptSet DEF Continues, Attempting
<1> QED
  BY <1>1, <1>2

\* The attempt is over.
LEMMA EndAttemptContinues ==
  ASSUME NEW y \in Scheduler
  PROVE  Continues(y, EndAttempt(y)) /\ ~Attempting(EndAttempt(y))
BY AttemptSet DEF EndAttempt, Continues, Attempting

\* The attempt has failed, and is not over.
LEMMA FailActiveContinues ==
  ASSUME NEW y \in Scheduler
  PROVE  LET z == FailActive(y)
         IN  /\ Continues(y, z) /\ (Attempting(z) <=> Attempting(y))
             /\ z.attempt.phase = "stopping"
<1> DEFINE a == [y.attempt EXCEPT !.phase = "stopping"]
<1>1. CASE Attempting(y)
  <2>1. y.attempt \in Attempt
    BY <1>1, AttemptTypes
  <2>2. /\ a \in Attempt /\ a.slot = y.attempt.slot /\ a.phase = "stopping"
        /\ a.forced = y.attempt.forced
    BY <2>1 DEF Attempt, AttemptPhase
  <2>3. a # NoAttempt
    BY <2>2 DEF Attempt, NoAttempt, Nobody, GeneratorSlot
  <2>4. FailActive(y) = [y EXCEPT !.attempt = a]
    BY <1>1 DEF FailActive, Scheduler
  <2> HIDE DEF a
  <2> QED
    BY <1>1, <2>2, <2>3, <2>4, AttemptSet DEF Continues, Attempting
<1>2. CASE ~Attempting(y)
  BY <1>2, AttemptTypes DEF FailActive, Continues, NoAttempt
<1> QED
  BY <1>1, <1>2

\* An attempt that has not set its engine going is given up, if the engine is
\* not on its way.
LEMMA CancelUnstartedContinues ==
  ASSUME NEW y \in Scheduler, NEW o
  PROVE  LET z == CancelUnstarted(y, o)
         IN  /\ Continues(y, z)
             /\ z = y \/ ~Attempting(z)
             /\ Attempting(y) /\ ~y.attempt.started /\ InRest(o, y.attempt.slot) =>
                  ~Attempting(z)
BY EndAttemptContinues DEF CancelUnstarted, Continues, InRest

\* What a step makes of an attempt: only one whose engine is at rest is over, one
\* that says its engine is at work has seen it so, and one that still waits for an
\* engine at rest has been warned about, or nobody is at home.
StepsAttempt(y, z, o) ==
  /\ z \in Scheduler /\ z.minute = y.minute /\ z.slots = y.slots
  /\ ~Attempting(z) => InRest(o, y.attempt.slot)
  /\ Attempting(z) =>
       z.attempt.slot = y.attempt.slot /\ z.attempt.forced = y.attempt.forced
  /\ z.attempt.phase = "starting" =>
       /\ ~z.attempt.started
       /\ ~z.attempt.forced /\ InRest(o, z.attempt.slot) => o.family = "no"
  /\ z.attempt.phase = "running" => AtWork(o, z.attempt.slot)
  /\ y.attempt.phase = "stopping" =>
       z.attempt.phase = "stopping" /\ (InRest(o, y.attempt.slot) => ~Attempting(z))

\* Nobody's attempt is in no phase that counts.
LEMMA NoAttemptStops ==
  ASSUME NEW y \in Scheduler, ~Attempting(y)
  PROVE  y.attempt.phase = "stopping"
BY AttemptTypes DEF NoAttempt

\* _step_active while the attempt waits for its engine.
LEMMA StepStartingSteps ==
  ASSUME NEW y \in Scheduler, Attempting(y), y.attempt.phase = "starting",
         ~y.attempt.started, NEW o
  PROVE  StepsAttempt(y, StepStarting(y, o), o)
<1> DEFINE a == [y.attempt EXCEPT !.phase = "running", !.started = TRUE,
                                  !.toRun = RunTime]
           begun == [y EXCEPT !.attempt = a]
<1>1. y.attempt \in Attempt
  BY AttemptTypes
<1>2. /\ a \in Attempt /\ a.slot = y.attempt.slot /\ a.phase = "running"
      /\ a.forced = y.attempt.forced
  <2>1. RunTime \in 0..RunTime
    BY ExerciseAssumption
  <2> QED
    BY <1>1, <2>1 DEF Attempt, AttemptPhase
<1>3. a # NoAttempt
  BY <1>2 DEF Attempt, NoAttempt, Nobody, GeneratorSlot
<1>4. CASE ~y.attempt.forced /\ InRest(o, y.attempt.slot) /\ o.family # "no"
  <2>1. StepStarting(y, o) = CancelUnstarted(y, o)
    BY <1>4 DEF StepStarting
  <2>2. ~Attempting(CancelUnstarted(y, o)) /\ Continues(y, CancelUnstarted(y, o))
    BY <1>4, CancelUnstartedContinues
  <2> QED
    BY <1>4, <2>1, <2>2, NoAttemptStops DEF StepsAttempt, Continues
<1>5. CASE /\ ~(~y.attempt.forced /\ InRest(o, y.attempt.slot) /\ o.family # "no")
           /\ AtWork(o, y.attempt.slot)
  <2>1. StepStarting(y, o) = begun
    BY <1>5 DEF StepStarting, Scheduler
  <2> HIDE DEF a
  <2>2. /\ begun \in Scheduler /\ begun.attempt = a
        /\ begun.slots = y.slots /\ begun.minute = y.minute
    BY <1>2, AttemptSet
  <2> QED
    BY <1>2, <1>3, <1>5, <2>1, <2>2 DEF StepsAttempt, Attempting
<1>6. CASE /\ ~(~y.attempt.forced /\ InRest(o, y.attempt.slot) /\ o.family # "no")
           /\ ~AtWork(o, y.attempt.slot)
  BY <1>6 DEF StepStarting, StepsAttempt
<1> QED
  BY <1>4, <1>5, <1>6

\* _step_active while the engine is to run.
LEMMA StepRunningSteps ==
  ASSUME NEW y \in Scheduler, Attempting(y), y.attempt.phase = "running", NEW o
  PROVE  StepsAttempt(y, StepRunning(y, o), o)
<1> DEFINE failed == FailActive(y)
           done == [y EXCEPT !.attempt.phase = "stopping"]
<1>1. failed = done
  BY DEF FailActive
<1>2. \/ StepRunning(y, o) \in {failed, done}
      \/ StepRunning(y, o) = y /\ AtWork(o, y.attempt.slot)
  BY DEF StepRunning
<1>3. StepsAttempt(y, failed, o)
  BY FailActiveContinues DEF StepsAttempt, Continues
<1> HIDE DEF failed, done
<1> QED
  BY <1>1, <1>2, <1>3 DEF StepsAttempt

\* _step_active while the engine is to stop, after whatever.
LEMMA StepStoppingSteps ==
  ASSUME NEW y \in Scheduler, Attempting(y), y.attempt.phase = "stopping", NEW o
  PROVE  StepsAttempt(y, StepStopping(y, o), o)
BY EndAttemptContinues, NoAttemptStops DEF StepStopping, StepsAttempt, Continues

\* _step_active
LEMMA StepActiveSteps ==
  ASSUME NEW y \in Scheduler, Attempting(y),
         y.attempt.phase = "starting" => ~y.attempt.started, NEW o
  PROVE  StepsAttempt(y, StepActive(y, o), o)
<1> DEFINE f == FailActive(y)
<1>1. /\ f \in Scheduler /\ Attempting(f) /\ f.attempt.phase = "stopping"
      /\ f.attempt.slot = y.attempt.slot /\ f.attempt.forced = y.attempt.forced
      /\ f.minute = y.minute /\ f.slots = y.slots
  BY FailActiveContinues DEF Continues
<1>2. y.attempt.phase \in {"starting", "running", "stopping"}
  BY AttemptTypes DEF Attempt, AttemptPhase
<1>3. CASE o.generators[y.attempt.slot].failed
  <2>1. StepActive(y, o) = StepStopping(f, o)
    BY <1>1, <1>3 DEF StepActive
  <2>2. StepsAttempt(f, StepStopping(f, o), o)
    BY <1>1, StepStoppingSteps
  <2> HIDE DEF f
  <2> QED
    BY <1>1, <2>1, <2>2 DEF StepsAttempt
<1>4. CASE ~o.generators[y.attempt.slot].failed
  <2>1. \/ y.attempt.phase = "starting" /\ StepActive(y, o) = StepStarting(y, o)
        \/ y.attempt.phase = "running" /\ StepActive(y, o) = StepRunning(y, o)
        \/ y.attempt.phase = "stopping" /\ StepActive(y, o) = StepStopping(y, o)
    BY <1>2, <1>4 DEF StepActive
  <2> QED
    BY <2>1, StepStartingSteps, StepRunningSteps, StepStoppingSteps
<1> QED
  BY <1>3, <1>4

\* _maybe_start: the windows that open are used up, and an attempt that is made
\* was allowed to be.
LEMMA MaybeStartStarts ==
  ASSUME NEW y \in Scheduler, ~Attempting(y), NEW o
  PROVE  LET z == MaybeStart(y, o)
         IN  /\ z \in Scheduler /\ z.minute = y.minute
             /\ \A g \in Exercised :
                  /\ z.slots[g].warnedFor = y.slots[g].warnedFor
                  /\ z.slots[g].warnedAgo = y.slots[g].warnedAgo
                  /\ z.slots[g].start = y.slots[g].start
             /\ Attempting(z) =>
                  /\ z.attempt.slot \in Exercised
                  /\ z.attempt = NewAttempt(y, z.attempt.slot)
                  /\ StartAllowed(y, o, z.attempt.slot)
<1> DEFINE opened == {g \in Exercised : LET slot == y.slots[g]
                                        IN  slot.due /\ slot.start = y.minute /\ ~slot.window}
           allowed == {g \in opened : StartAllowed(y, o, g)}
           first == IF "A" \in allowed THEN "A" ELSE "B"
           used == [g \in Exercised |-> [y.slots[g] EXCEPT !.window = @ \/ g \in opened]]
           attempt == IF allowed = {} THEN NoAttempt ELSE NewAttempt(y, first)
           z == [y EXCEPT !.slots = used, !.attempt = attempt]
<1>1. MaybeStart(y, o) = z
  BY DEF MaybeStart
<1>2. /\ used \in [Exercised -> SlotState]
      /\ \A g \in Exercised : /\ used[g].warnedFor = y.slots[g].warnedFor
                              /\ used[g].warnedAgo = y.slots[g].warnedAgo
                              /\ used[g].start = y.slots[g].start
  <2>1. ASSUME NEW slot \in SlotState, NEW window \in BOOLEAN
        PROVE  LET v == [slot EXCEPT !.window = @ \/ window]
               IN  /\ v \in SlotState /\ v.warnedFor = slot.warnedFor
                   /\ v.warnedAgo = slot.warnedAgo /\ v.start = slot.start
    BY DEF SlotState
  <2>2. \A g \in Exercised : y.slots[g] \in SlotState /\ (g \in opened) \in BOOLEAN
    BY DEF Scheduler
  <2> HIDE DEF opened
  <2> QED
    BY <2>1, <2>2
<1>3. opened \subseteq Exercised /\ Exercised \subseteq {"A", "B"}
  BY ExerciseAssumption DEF GeneratorSlot
<1> HIDE DEF opened
<1>4. allowed # {} => first \in Exercised /\ StartAllowed(y, o, first)
  BY <1>3
<1> HIDE DEF used, first, allowed
<1>5. \A g \in Exercised : /\ NewAttempt(y, g) \in Attempt /\ NewAttempt(y, g).slot = g
                           /\ NewAttempt(y, g) # NoAttempt
  BY <1>3, ExerciseAssumption
  DEF NewAttempt, Attempt, AttemptPhase, ForcedOn, NoAttempt, Nobody, GeneratorSlot,
      Scheduler, SlotState
<1>6. /\ attempt \in Attempt \cup {NoAttempt}
      /\ attempt # NoAttempt =>
           /\ attempt.slot \in Exercised /\ attempt = NewAttempt(y, attempt.slot)
           /\ StartAllowed(y, o, attempt.slot)
  BY <1>4, <1>5
<1> HIDE DEF attempt
<1>7. /\ z \in Scheduler /\ z.minute = y.minute /\ z.slots = used /\ z.attempt = attempt
  BY <1>2, <1>6 DEF Scheduler
<1> QED
  BY <1>1, <1>2, <1>6, <1>7 DEF Attempting

\* confirm_warning
LEMMA ConfirmWarningsConfirms ==
  ASSUME NEW y \in Scheduler, NEW delivered \in SUBSET Exercised
  PROVE  LET z == ConfirmWarnings(y, delivered)
         IN  /\ z \in Scheduler /\ z.minute = y.minute /\ z.attempt = y.attempt
             /\ \A g \in Exercised :
                  /\ z.slots[g].start = y.slots[g].start
                  /\ g \notin delivered => z.slots[g] = y.slots[g]
                  /\ g \in delivered => /\ z.slots[g].warnedFor = WarningDay(y.slots[g])
                                        /\ z.slots[g].warnedAgo = 0
<1> DEFINE told1(slot) == [slot EXCEPT !.warnedFor = WarningDay(slot), !.warnedAgo = 0]
           warned == [g \in Exercised |-> IF g \in delivered THEN told1(y.slots[g])
                                          ELSE y.slots[g]]
<1>1. ASSUME NEW slot \in SlotState
      PROVE  /\ told1(slot) \in SlotState /\ told1(slot).start = slot.start
             /\ told1(slot).warnedFor = WarningDay(slot) /\ told1(slot).warnedAgo = 0
  <2>1. 0 \in 0..Lead
    BY ExerciseAssumption
  <2>2. WarningDay(slot) \in {"today", "tomorrow"}
    BY DEF WarningDay
  <2> QED
    BY <1>1, <2>1, <2>2 DEF SlotState
<1>2. ConfirmWarnings(y, delivered) = [y EXCEPT !.slots = warned]
  BY DEF ConfirmWarnings
<1>3. \A g \in Exercised : y.slots[g] \in SlotState
  BY DEF Scheduler
<1> HIDE DEF told1
<1>4. warned \in [Exercised -> SlotState]
  BY <1>1, <1>3
<1>5. \A g \in Exercised : warned[g] = IF g \in delivered THEN told1(y.slots[g])
                                       ELSE y.slots[g]
  OBVIOUS
<1> HIDE DEF warned
<1>6. LET z == [y EXCEPT !.slots = warned]
      IN  /\ z \in Scheduler /\ z.minute = y.minute /\ z.attempt = y.attempt
          /\ z.slots = warned
  BY <1>4 DEF Scheduler
<1> QED
  BY <1>1, <1>2, <1>3, <1>5, <1>6

\* What the scheduler sees of the engines is what the tick observes.
LEMMA SchedulerSeesEngines ==
  ASSUME NEW t, NEW o, NEW family, NEW g
  PROVE  LET seen == SchedulerSees(t, o, family)
         IN  /\ InRest(seen, g) <=> InRest(o, g)
             /\ AtWork(seen, g) <=> AtWork(o, g)
             /\ seen.family = family
             /\ ~seen.busy => ~HasSession(t)
BY DEF SchedulerSees, InRest, AtWork

\* What a tick makes of the scheduler y when it finds it as the scheduler z, and
\* which warnings it has delivered.
Advances(y, z, delivered, t, o) ==
  /\ z \in Scheduler /\ z.minute = y.minute
  /\ delivered \subseteq Exercised
  /\ \A g \in delivered : y.minute = WarningMinute(y.slots[g])
  /\ \A g \in Exercised :
       /\ g \in delivered => z.slots[g].warnedFor = WarningDay(y.slots[g])
                             /\ z.slots[g].warnedAgo = 0
       /\ g \notin delivered => /\ z.slots[g].warnedFor = y.slots[g].warnedFor
                                /\ z.slots[g].warnedAgo = y.slots[g].warnedAgo
  /\ Attempting(y) /\ ~Attempting(z) => InRest(o, y.attempt.slot)
  /\ Attempting(y) /\ Attempting(z) => z.attempt.slot = y.attempt.slot
  /\ Attempting(y) /\ y.attempt.phase = "stopping" =>
       z.attempt.phase = "stopping" /\ (InRest(o, y.attempt.slot) => ~Attempting(z))
  /\ z.attempt.phase = "starting" => ~z.attempt.started
  /\ z.attempt.phase = "running" => AtWork(o, z.attempt.slot)
  /\ ~Attempting(y) /\ Attempting(z) =>
       /\ z.attempt.slot \in Exercised /\ ~HasSession(t)
       /\ z.attempt.forced => WarnedInTime(y.slots[z.attempt.slot])

\* The step of a scheduler that has no attempt.
LEMMA MaybeStartAdvances ==
  ASSUME NEW y \in Scheduler, ~Attempting(y), NEW t, NEW o, NEW family
  PROVE  LET z == MaybeStart(y, SchedulerSees(t, o, family))
         IN  /\ Advances(y, z, {}, t, o)
             /\ \A g \in Exercised : z.slots[g].start = y.slots[g].start
             /\ AwaitsAbsence(z) => family = "no"
<1> DEFINE seen == SchedulerSees(t, o, family)
           z == MaybeStart(y, seen)
<1>1. /\ z \in Scheduler /\ z.minute = y.minute
      /\ \A g \in Exercised :
           /\ z.slots[g].warnedFor = y.slots[g].warnedFor
           /\ z.slots[g].warnedAgo = y.slots[g].warnedAgo
           /\ z.slots[g].start = y.slots[g].start
      /\ Attempting(z) =>
           /\ z.attempt.slot \in Exercised
           /\ z.attempt = NewAttempt(y, z.attempt.slot)
           /\ StartAllowed(y, seen, z.attempt.slot)
  BY MaybeStartStarts
<1> HIDE DEF z
<1>2. Attempting(z) =>
        /\ z.attempt.phase = "starting" /\ ~z.attempt.started
        /\ z.attempt.forced <=> ForcedOn(y.slots[z.attempt.slot], "today")
  BY <1>1 DEF NewAttempt
<1>3. Attempting(z) =>
        /\ ~HasSession(t)
        /\ z.attempt.forced => WarnedInTime(y.slots[z.attempt.slot])
        /\ ~z.attempt.forced => family = "no"
  BY <1>1, <1>2, SchedulerSeesEngines DEF StartAllowed
<1>4. ~Attempting(z) => z.attempt.phase = "stopping"
  BY <1>1, NoAttemptStops
<1> QED
  BY <1>1, <1>2, <1>3, <1>4 DEF Advances, AwaitsAbsence, z

\* The step of a scheduler that has one.
LEMMA StepActiveAdvances ==
  ASSUME NEW y \in Scheduler, Attempting(y),
         y.attempt.phase = "starting" => ~y.attempt.started,
         NEW t, NEW o, NEW family
  PROVE  LET z == StepActive(y, SchedulerSees(t, o, family))
         IN  /\ Advances(y, z, {}, t, o)
             /\ \A g \in Exercised : z.slots[g].start = y.slots[g].start
             /\ AwaitsAbsence(z) /\ InRest(o, z.attempt.slot) => family = "no"
<1> DEFINE seen == SchedulerSees(t, o, family)
           z == StepActive(y, seen)
<1>1. StepsAttempt(y, z, seen)
  BY StepActiveSteps
<1>2. /\ \A g : InRest(seen, g) <=> InRest(o, g)
      /\ \A g : AtWork(seen, g) <=> AtWork(o, g)
      /\ seen.family = family
  BY SchedulerSeesEngines
<1> HIDE DEF z, seen
<1> QED
  BY <1>1, <1>2 DEF StepsAttempt, Advances, AwaitsAbsence, z, seen

\* The scheduler of a tick.
LEMMA ExerciseAdvances ==
  ASSUME x \in Scheduler, StartIsFresh, AttemptIsExercised,
         NEW t, NEW o, NEW e \in Exercise(t, o)
  PROVE  /\ Advances(x, e.x, e.delivered, t, o)
         /\ e.intruding /\ AwaitsAbsence(e.x) => ~InRest(o, e.x.attempt.slot)
<1>1. CASE Exercised = {}
  <2>1. e = [x |-> x, intruding |-> FALSE, delivered |-> {}]
    BY <1>1 DEF Exercise
  <2>2. ~Attempting(x)
    BY <1>1 DEF AttemptIsExercised
  <2>3. x.attempt.phase = "stopping"
    BY <2>2, NoAttemptStops
  <2> QED
    BY <1>1, <2>1, <2>2, <2>3 DEF Advances
<1>2. CASE Exercised # {}
  <2> DEFINE y == ElapseRun(x)
             stepped == [family \in Tri |-> ExerciseStep(y, SchedulerSees(t, o, family))]
  <2>1. PICK family \in Tri, delivered \in SUBSET WarningsOf(x) :
          e = [x |-> ConfirmWarnings(stepped[family], delivered),
               intruding |-> family # "no" /\ AwaitsAbsence(stepped[family]),
               delivered |-> delivered]
    BY <1>2 DEF Exercise
  <2> DEFINE z == ExerciseStep(y, SchedulerSees(t, o, family))
  <2>2. stepped[family] = z
    BY <2>1
  <2>3. /\ y \in Scheduler /\ y.minute = x.minute /\ y.slots = x.slots
        /\ Attempting(y) <=> Attempting(x)
        /\ y.attempt.phase = x.attempt.phase /\ y.attempt.slot = x.attempt.slot
        /\ y.attempt.started = x.attempt.started
    BY ElapseRunContinues DEF Continues
  <2> HIDE DEF y, stepped
  <2>4. /\ Advances(y, z, {}, t, o)
        /\ \A g \in Exercised : z.slots[g].start = y.slots[g].start
        /\ AwaitsAbsence(z) /\ InRest(o, z.attempt.slot) => family = "no"
    <3>1. CASE Attempting(y)
      <4>1. z = StepActive(y, SchedulerSees(t, o, family))
        BY <3>1 DEF ExerciseStep
      <4> HIDE DEF z
      <4> QED
        BY <2>3, <3>1, <4>1, StepActiveAdvances DEF StartIsFresh
    <3>2. CASE ~Attempting(y)
      <4>1. z = MaybeStart(y, SchedulerSees(t, o, family))
        BY <3>2 DEF ExerciseStep
      <4> HIDE DEF z
      <4> QED
        BY <2>3, <3>2, <4>1, MaybeStartAdvances
    <3> QED
      BY <3>1, <3>2
  <2>5. /\ delivered \subseteq Exercised
        /\ \A g \in delivered : x.minute = WarningMinute(x.slots[g])
    BY <2>1 DEF WarningsOf, DueWarnings
  <2> HIDE DEF z
  <2> DEFINE w == ConfirmWarnings(z, delivered)
  <2>6. /\ w \in Scheduler /\ w.minute = z.minute /\ w.attempt = z.attempt
        /\ \A g \in Exercised :
             /\ g \notin delivered => w.slots[g] = z.slots[g]
             /\ g \in delivered => /\ w.slots[g].warnedFor = WarningDay(z.slots[g])
                                   /\ w.slots[g].warnedAgo = 0
    BY <2>4, <2>5, ConfirmWarningsConfirms DEF Advances
  <2>7. /\ e.x = w /\ e.delivered = delivered
        /\ e.intruding => family # "no" /\ AwaitsAbsence(z)
    BY <2>1, <2>2
  <2> HIDE DEF w
  <2>8. \A g \in Exercised : WarningDay(z.slots[g]) = WarningDay(x.slots[g])
    BY <2>3, <2>4 DEF WarningDay
  <2>9. Advances(x, w, delivered, t, o)
    BY <2>3, <2>4, <2>5, <2>6, <2>8 DEF Advances, Attempting
  <2> QED
    BY <2>4, <2>6, <2>7, <2>9 DEF AwaitsAbsence, Attempting
<1> QED
  BY <1>1, <1>2

\* _dispatch_exercise_directive
LEMMA DispatchContinues ==
  ASSUME NEW y \in Scheduler, NEW o, NEW directive
  PROVE  LET z == Dispatch(y, o, directive)
         IN  /\ Continues(y, z)
             /\ directive \in Handoffs => ~Attempting(z)
             /\ directive \notin Handoffs /\ directive # "cancel_unstarted" =>
                  (Attempting(z) <=> Attempting(y))
             /\ directive = "cancel_unstarted" => z = CancelUnstarted(y, o)
             /\ z.attempt.phase \in {y.attempt.phase, "stopping"}
<1>1. Continues(y, y)
  BY DEF Continues
<1>2. CASE directive = "cancel_unstarted"
  <2>1. Dispatch(y, o, directive) = CancelUnstarted(y, o)
    BY <1>2 DEF Dispatch
  <2> QED
    BY <1>2, <2>1, CancelUnstartedContinues, NoAttemptStops DEF Continues, Handoffs
<1>3. CASE directive \in Handoffs
  <2>1. Dispatch(y, o, directive) = EndAttempt(y)
    BY <1>3 DEF Dispatch, Handoffs
  <2> QED
    BY <1>3, <2>1, EndAttemptContinues, NoAttemptStops DEF Continues, Handoffs
<1>4. CASE directive = "fail_active"
  <2>1. Dispatch(y, o, directive) = FailActive(y)
    BY <1>4 DEF Dispatch
  <2> QED
    BY <1>4, <2>1, FailActiveContinues DEF Handoffs
<1>5. CASE directive \notin Handoffs \cup {"cancel_unstarted", "fail_active"}
  <2>1. Dispatch(y, o, directive) = y
    BY <1>5 DEF Dispatch, Handoffs
  <2> QED
    BY <1>1, <1>5, <2>1
<1> QED
  BY <1>2, <1>3, <1>4, <1>5

-------------------------------------------------------------------------------
(***************************************************************************)
(* The house.                                                              *)
(***************************************************************************)

\* What a tick finds has the types of a SupervisorObservation.
LEMMA SupervisorSeesTypes ==
  ASSUME TypeOK, NEW finding
  PROVE  SupervisorSees(finding) \in Observation
<1>1. \A g \in GeneratorSlot : Seen(g, finding) \in GeneratorStatus
  BY DEF TypeOK, Seen, GeneratorStatusOf, GeneratorStatus, Reads, Tri, Engine
<1>2. SourceOf(path, grid) \in PowerSource /\ path \in PowerPath /\ grid \in Tri
  BY DEF TypeOK, SourceOf, PowerSource, PowerPath, Tri
<1>3. bus.owner \in GeneratorSlot \cup {"none", "unknown"} /\ bus.outage \subseteq GeneratorSlot
  BY DEF TypeOK, Bus
<1> HIDE DEF Seen, SourceOf
<1> QED
  BY <1>1, <1>2, <1>3 DEF SupervisorSees, Observation, Tri, GeneratorSlot

\* An engine that is seen at rest does not move, and one that does not move is
\* seen at rest if it is seen at all.
LEMMA SupervisorSeesEngines ==
  ASSUME TypeOK, NEW finding, NEW g \in GeneratorSlot
  PROVE  LET o == SupervisorSees(finding)
         IN  /\ InRest(o, g) <=> Stopped(o, g)
             /\ InRest(o, g) => ~Moves(engine[g])
             /\ AtWork(o, g) => Moves(engine[g])
             /\ RequiredStatesKnown(o) /\ ~Moves(engine[g]) => InRest(o, g)
<1> DEFINE o == SupervisorSees(finding)
<1>1. o.generators[g] = Seen(g, finding)
  BY DEF SupervisorSees
<1>2. engine[g] \in Engine
  BY DEF TypeOK
<1>3. RequiredStatesKnown(o) => o.generators[g].running # "unknown"
  BY DEF RequiredStatesKnown
<1> HIDE DEF o
<1>4. CASE finding = "engines unknown"
  <2>1. o.generators[g].running = "unknown"
    BY <1>1, <1>4 DEF Seen, GeneratorStatusOf
  <2> QED
    BY <1>3, <2>1 DEF InRest, Stopped, AtWork, o
<1>5. CASE finding # "engines unknown"
  <2>1. /\ o.generators[g].running = Reads(engine[g].running)
        /\ o.generators[g].remote = Reads(engine[g].remote)
    <3>1. o.generators[g] = GeneratorStatusOf(engine[g])
      BY <1>1, <1>5 DEF Seen
    <3> QED
      BY <3>1 DEF GeneratorStatusOf
  <2> QED
    BY <1>2, <2>1 DEF InRest, Stopped, AtWork, Moves, Reads, Engine, o
<1> QED
  BY <1>4, <1>5

\* The orders of a tick: an attempt that is to stop has its engine shut down, and
\* none is told to run when not everything that counts is known.
LEMMA OrdersAfterTypes ==
  ASSUME TypeOK, NEW after, NEW o, NEW c, NEW scheduler \in Scheduler
  PROVE  LET orders == OrdersAfter(after, o, c, scheduler)
         IN  /\ orders \in Orders
             /\ Attempting(scheduler) /\ scheduler.attempt.phase = "stopping" =>
                  orders.engine[scheduler.attempt.slot] = "shutdown"
             /\ \A g \in GeneratorSlot :
                  orders.engine[g] = "run" => RequiredStatesKnown(o)
<1> DEFINE allowed == RequiredStatesKnown(o) /\ after.phase # "recovery_required"
           shutdown == ShutdownSlots(scheduler)
                         \cup (IF allowed THEN after.stopOutage ELSE {})
           supplied == o.owner \in GeneratorSlot /\ Running(o, o.owner)
           ready == supplied \/ (HasSession(after) /\ o.generators[Slot(after)].ready)
           next == NextPath(path, IF allowed THEN after.desiredSource ELSE Nobody, ready)
           way == IF told.path # "none" THEN told.path
                  ELSE IF next = path THEN "none" ELSE next
           commands == [g \in GeneratorSlot |->
              IF g \in shutdown THEN "shutdown"
              ELSE IF ~allowed THEN "leave"
              ELSE IF g \in Ordered(after, o, c) THEN "run" ELSE "rest"]
           orders == [path |-> way, engine |-> commands]
<1>1. OrdersAfter(after, o, c, scheduler) = orders
  BY DEF OrdersAfter
<1>2. next \in {"grid", "isolated", "generator"}
  BY DEF TypeOK, NextPath
<1>3. told.path \in {"none", "grid", "isolated", "generator"}
  BY DEF TypeOK, Orders
<1> HIDE DEF next
<1>4. way \in {"none", "grid", "isolated", "generator"}
  BY <1>2, <1>3
<1> HIDE DEF allowed, shutdown
<1>5. commands \in [GeneratorSlot -> EngineCommand]
  BY DEF EngineCommand
<1>6. \A g \in GeneratorSlot : commands[g] = "run" => allowed
  OBVIOUS
<1>7. Attempting(scheduler) /\ scheduler.attempt.phase = "stopping" =>
        commands[scheduler.attempt.slot] = "shutdown"
  <2> SUFFICES ASSUME Attempting(scheduler), scheduler.attempt.phase = "stopping"
               PROVE  commands[scheduler.attempt.slot] = "shutdown"
    OBVIOUS
  <2>1. scheduler.attempt.slot \in GeneratorSlot
    BY AttemptTypes
  <2>2. scheduler.attempt.slot \in shutdown
    BY DEF shutdown, ShutdownSlots
  <2> QED
    BY <2>1, <2>2
<1> HIDE DEF way, commands
<1>8. orders \in Orders /\ orders.engine = commands
  BY <1>4, <1>5 DEF Orders
<1> HIDE DEF orders
<1> QED
  BY <1>1, <1>6, <1>7, <1>8 DEF allowed

\* An engine at rest stays there unless it is told to run.
LEMMA EngineReacts ==
  ASSUME NEW e \in Engine, NEW command \in EngineCommand
  PROVE  /\ Obedient(command, e) \in Engine
         /\ command # "run" /\ ~Moves(e) => ~Moves(Obedient(command, e))
         /\ Disobedient(command, e) \subseteq Engine
         /\ command # "run" /\ ~Moves(e) => Disobedient(command, e) = {}
<1>1. /\ AtRest \in Engine /\ ~Moves(AtRest)
      /\ FailedStill \in Engine /\ ~Moves(FailedStill)
      /\ Cranking \in Engine /\ Turning \in Engine /\ Coasting \in Engine
      /\ FailedRunning \in Engine
  BY DEF AtRest, FailedStill, Cranking, Turning, Coasting, FailedRunning, Motor, Engine,
         Moves
<1>2. Moves(Cranking) /\ Moves(Turning) /\ Moves(Coasting)
  BY DEF Cranking, Turning, Coasting, Motor, Moves
<1>3. Obedient(command, e) \in {Cranking, Turning, Coasting, AtRest, FailedStill, e}
  BY DEF Obedient
<1>4. command # "run" /\ ~Moves(e) => Obedient(command, e) \in {AtRest, FailedStill, e}
  BY <1>2 DEF Obedient
<1>5. Disobedient(command, e) \subseteq {FailedStill, FailedRunning, Cranking}
  BY DEF Disobedient
<1>6. command # "run" /\ ~Moves(e) => Disobedient(command, e) = {}
  BY <1>2 DEF Disobedient
<1> QED
  BY <1>1, <1>3, <1>4, <1>5, <1>6

\* The bus belongs to an engine, to none, or nobody knows to which.
LEMMA NextOwnerTypes ==
  ASSUME NEW owner, NEW running \in SUBSET GeneratorSlot
  PROVE  NextOwner(owner, running) \in GeneratorSlot \cup {"none", "unknown"}
<1>1. CASE running = {}
  BY <1>1 DEF NextOwner
<1>2. CASE running # {}
  <2>1. (CHOOSE g \in running : TRUE) \in running
    BY <1>2
  <2> QED
    BY <1>2, <2>1 DEF NextOwner
<1> QED
  BY <1>1, <1>2

\* A tracker without history.
LEMMA BusFromScratchTypes ==
  ASSUME TypeOK
  PROVE  BusFromScratch \in Bus
<1>1. RunningEngines(engine) \in SUBSET GeneratorSlot
  BY DEF RunningEngines
<1>2. NextOwner("unknown", RunningEngines(engine)) \in GeneratorSlot \cup {"none", "unknown"}
  BY <1>1, NextOwnerTypes
<1> QED
  BY <1>1, <1>2 DEF BusFromScratch, Bus

-------------------------------------------------------------------------------
(***************************************************************************)
(* The tick.                                                               *)
(***************************************************************************)

\* The wait of the charge cycle begins with the end of a session of its own.
WaitBegins ==
  u'.postCycleWait /\ ~u.postCycleWait =>
    s.session.cycleOwned /\ s.session.stopRequested /\ ~s'.suppressed

\* A forced exercise that begins has been warned about in time.
StartIsWarned ==
  Attempting(x') /\ ~Attempting(x) /\ x'.attempt.forced =>
    notice[x'.attempt.slot] \in Lead..(Day + Lead)

\* What the user asks for concerns neither the session nor the phase.
LEMMA RequestedKeeps ==
  ASSUME Kept(s), CycleFits(s), NEW wanted
  PROVE  LET now == Elapse(Requested(wanted))
         IN  /\ Kept(now) /\ CycleFits(now)
             /\ now.session = s.session /\ now.phase = s.phase
<1> DEFINE start == "start_generator" \in wanted
           stop == "stop_generator" \in wanted
           t == [s EXCEPT !.wantStart = start, !.wantStop = stop]
<1>1. start \in BOOLEAN /\ stop \in BOOLEAN
  OBVIOUS
<1>2. Requested(wanted) = t
  BY DEF Requested
<1> HIDE DEF start, stop
<1>3. /\ t \in Supervisor /\ t.session = s.session /\ t.phase = s.phase
      /\ t.suppressed = s.suppressed /\ t.desired = s.desired
  BY <1>1 DEF Kept, Supervisor
<1> HIDE DEF t
<1>4. Kept(t)
  BY <1>3 DEF Kept, HasSession, Slot
<1> QED
  BY <1>2, <1>3, <1>4, ElapseKeeps DEF SameCharge, CycleFits

\* The intents that the supervisor is given.
LEMMA TickIntents ==
  ASSUME TypeOK, NEW t, NEW o, NEW d \in UPSDecisions(t, o), NEW z \in Scheduler
  PROVE  LET c == [d.intents EXCEPT !.exercise = OwnedSlot(z), !.exerciseRuns = WantsRun(z)]
         IN  /\ d.u \in Strategy
             /\ d.u.postCycleWait => u.postCycleWait
             /\ c \in Intents
             /\ c.exercise = z.attempt.slot
             /\ c.cycleStop => o.path = "generator"
<1>1. PICK soc \in Battery : d = UPSStep(ElapseWait(u), UPSRunSees(t, o, soc))
  BY DEF UPSDecisions
<1>2. /\ ElapseWait(u) \in Strategy
      /\ ElapseWait(u).postCycleWait = u.postCycleWait
  BY ElapseWaitKeeps DEF TypeOK
<1>3. UPSRunSees(t, o, soc).onGenerator => o.path = "generator"
  BY DEF UPSRunSees
<1>4. /\ d.u \in Strategy /\ (d.u.postCycleWait => u.postCycleWait)
      /\ d.intents \in Intents /\ (d.intents.cycleStop => o.path = "generator")
  BY <1>1, <1>2, <1>3, UPSStepDecides
<1>5. OwnedSlot(z) \in GeneratorSlot \cup {Nobody} /\ WantsRun(z) \in BOOLEAN
  BY AttemptTypes DEF OwnedSlot, WantsRun
<1> QED
  BY <1>4, <1>5 DEF Intents, OwnedSlot

\* A warning is as old as the time of the day and its own day allow.
LEMMA WarningsStayDated ==
  ASSUME TypeOK, WarningsAreDated, NEW z, NEW delivered, NEW t, NEW o,
         Advances(x, z, delivered, t, o), NEW g \in Exercised
  PROVE  LET age == IF g \in delivered THEN 0 ELSE notice[g]
         IN  Dated(z.slots[g], age, z.minute)
<1>1. CASE g \notin delivered
  BY <1>1 DEF Advances, WarningsAreDated, Dated
<1>2. CASE g \in delivered
  <2>1. /\ x.slots[g].start \in 0..(Day - 1) /\ x.minute \in 0..(Day - 1)
    BY DEF TypeOK, Scheduler, SlotState, Minute
  <2>2. x.minute = (x.slots[g].start + Day - (Lead + 1)) % Day
    BY <1>2 DEF Advances, WarningMinute
  <2>3. x.slots[g].start <= Lead =>
          (x.slots[g].start + Day - (Lead + 1)) % Day = x.slots[g].start + Day - (Lead + 1)
    BY <2>1, ExerciseAssumption
  <2>4. z.minute = x.minute /\ z.slots[g].warnedAgo = 0
        /\ z.slots[g].warnedFor = WarningDay(x.slots[g])
    BY <1>2 DEF Advances
  <2>5. z.slots[g].warnedFor = "tomorrow" => x.slots[g].start <= Lead
    BY <2>1, <2>4, ExerciseAssumption DEF WarningDay
  <2> QED
    BY <1>2, <2>1, <2>2, <2>3, <2>4, <2>5, ExerciseAssumption DEF Dated
<1> QED
  BY <1>1, <1>2

\* A tick keeps the invariant, begins the wait only after a cycle, and a forced
\* exercise only after its warning.
LEMMA TickKeeps ==
  ASSUME Inv, Tick
  PROVE  Inv' /\ WaitBegins /\ StartIsWarned
<1>1. /\ TypeOK /\ Kept(s) /\ CycleFits(s) /\ StartIsFresh /\ AttemptIsExercised
      /\ MaintainedMoves /\ AttemptIsOver /\ WarningsAreDated
  BY DEF Inv
<1>2. PICK finding \in {"clear"} \cup (IF settled = "no" THEN Findings ELSE {}),
           wanted \in (IF settled = "no" THEN SUBSET Commands ELSE {{}}) :
        \E o \in {SupervisorSees(finding)}, now \in {Elapse(Requested(wanted))} :
          \E e \in Exercise(now, o), d \in UPSDecisions(now, o) :
            \E c \in {[d.intents EXCEPT !.exercise = OwnedSlot(e.x),
                                        !.exerciseRuns = WantsRun(e.x)]} :
              \E after \in {Step(now, o, c)} : Conclude(after, o, c, e, d)
  BY DEF Tick
<1>3. PICK o \in {SupervisorSees(finding)}, now \in {Elapse(Requested(wanted))} :
        \E e \in Exercise(now, o), d \in UPSDecisions(now, o) :
          \E c \in {[d.intents EXCEPT !.exercise = OwnedSlot(e.x),
                                      !.exerciseRuns = WantsRun(e.x)]} :
            \E after \in {Step(now, o, c)} : Conclude(after, o, c, e, d)
  BY <1>2
<1>4. o = SupervisorSees(finding) /\ now = Elapse(Requested(wanted))
  OBVIOUS
<1>5. PICK e \in Exercise(now, o), d \in UPSDecisions(now, o) :
        \E c \in {[d.intents EXCEPT !.exercise = OwnedSlot(e.x),
                                    !.exerciseRuns = WantsRun(e.x)]} :
          \E after \in {Step(now, o, c)} : Conclude(after, o, c, e, d)
  BY <1>3
<1> DEFINE c == [d.intents EXCEPT !.exercise = OwnedSlot(e.x), !.exerciseRuns = WantsRun(e.x)]
           after == Step(now, o, c)
           scheduler == Dispatch(e.x, o, after.directive)
           orders == OrdersAfter(after, o, c, scheduler)
<1>6. Conclude(after, o, c, e, d)
  BY <1>5
<1>7. o \in Observation
  BY <1>1, <1>4, SupervisorSeesTypes
<1>8. /\ Kept(now) /\ CycleFits(now)
      /\ now.session = s.session /\ now.phase = s.phase
  BY <1>1, <1>4, RequestedKeeps
<1>9. \A g \in GeneratorSlot :
        /\ InRest(o, g) <=> Stopped(o, g)
        /\ InRest(o, g) => ~Moves(engine[g])
        /\ AtWork(o, g) => Moves(engine[g])
        /\ RequiredStatesKnown(o) /\ ~Moves(engine[g]) => InRest(o, g)
  BY <1>1, <1>4, SupervisorSeesEngines
<1>10. o.path = path
  BY <1>4 DEF SupervisorSees
<1>11. /\ Advances(x, e.x, e.delivered, now, o)
       /\ e.intruding /\ AwaitsAbsence(e.x) => ~InRest(o, e.x.attempt.slot)
  BY <1>1, ExerciseAdvances DEF TypeOK
<1>12. e.x \in Scheduler
  BY <1>11 DEF Advances
<1>13. /\ d.u \in Strategy
       /\ d.u.postCycleWait => u.postCycleWait
       /\ c \in Intents
       /\ c.exercise = e.x.attempt.slot
       /\ c.cycleStop => o.path = "generator"
  BY <1>1, <1>12, TickIntents
<1> HIDE DEF c
<1>14. Kept(after)
  BY <1>7, <1>8, <1>13, StepSteps DEF Steps
<1>15. /\ CycleFits(after)
       /\ after.postCycleWait => /\ s.session.cycleOwned /\ s.session.stopRequested
                                 /\ ~after.suppressed
  BY <1>7, <1>8, <1>13, StepCycle
<1>16. /\ after.directive = "fail_active" => after.phase = "recovery_required"
       /\ after.directive \in Handoffs => HasSession(after) /\ Slot(after) = c.exercise
       /\ after.directive = "cancel_unstarted" =>
            c.exercise # Nobody /\ Stopped(o, c.exercise)
       /\ ~HasSession(s) /\ HasSession(after) =>
            \/ after.phase = "recovery_required"
            \/ c.exercise = Nobody
            \/ after.directive # "none"
       /\ s.phase = "recovery_required" => after.phase = "recovery_required"
  BY <1>7, <1>8, <1>13, StepDirects DEF HasSession
<1>17. /\ after.directive \in ExerciseDirective /\ after.postCycleWait \in BOOLEAN
  BY <1>14 DEF Kept, Supervisor
<1> HIDE DEF after
<1>18. /\ Continues(e.x, scheduler)
       /\ after.directive \in Handoffs => ~Attempting(scheduler)
       /\ after.directive \notin Handoffs /\ after.directive # "cancel_unstarted" =>
            (Attempting(scheduler) <=> Attempting(e.x))
       /\ after.directive = "cancel_unstarted" => scheduler = CancelUnstarted(e.x, o)
       /\ scheduler.attempt.phase \in {e.x.attempt.phase, "stopping"}
  BY <1>12, DispatchContinues
<1> HIDE DEF scheduler
<1>19. /\ scheduler \in Scheduler /\ scheduler.minute = e.x.minute
       /\ scheduler.slots = e.x.slots
  BY <1>18 DEF Continues
<1>20. /\ orders \in Orders
       /\ Attempting(scheduler) /\ scheduler.attempt.phase = "stopping" =>
            orders.engine[scheduler.attempt.slot] = "shutdown"
       /\ \A g \in GeneratorSlot : orders.engine[g] = "run" => RequiredStatesKnown(o)
  BY <1>1, <1>19, OrdersAfterTypes
<1> HIDE DEF orders
<1>21. /\ s' \in {after, RequireRecovery(after)}
       /\ u' = IF after.postCycleWait THEN BeginPostCycleWait(d.u) ELSE d.u
       /\ x' = scheduler /\ told' = orders
       /\ maintained' = maintained \ {Slot(after)}
       /\ notice' = [g \in Exercised |-> IF g \in e.delivered THEN 0 ELSE notice[g]]
       /\ uninvited' = Uninvited(scheduler, orders, e.intruding)
       /\ owed' \in BOOLEAN
  BY <1>6 DEF Conclude, scheduler, orders
<1>22. /\ grid' = grid /\ path' = path /\ engine' = engine /\ bus' = bus
       /\ settled' = settled /\ beat' \in BOOLEAN
  BY <1>1 DEF Tick, house, TypeOK
<1>23. /\ Kept(s') /\ CycleFits(s') /\ s'.session = after.session
       /\ s'.suppressed = after.suppressed
       /\ s'.phase \in {after.phase, "recovery_required"}
  BY <1>14, <1>15, <1>21, RequireRecoveryGoes DEF Goes, SameDebts, CycleFits
<1>24. TypeOK'
  <2>1. u' \in Strategy
    <3>1. 0 \in NoTimer..MaxDelay
      BY MaxDelayAssumption DEF NoTimer
    <3> QED
      BY <1>13, <1>21, <3>1 DEF BeginPostCycleWait, Strategy
  <2>2. notice' \in [Exercised -> 0..(Day + Lead + 1)]
    <3>1. 0 \in 0..(Day + Lead + 1)
      BY ExerciseAssumption
    <3> QED
      BY <1>1, <1>21, <3>1 DEF TypeOK
  <2>3. uninvited' \in BOOLEAN
    BY <1>21 DEF Uninvited
  <2>4. maintained' \subseteq GeneratorSlot
    BY <1>1, <1>21 DEF TypeOK
  <2> QED
    BY <1>1, <1>19, <1>20, <1>21, <1>22, <1>23, <2>1, <2>2, <2>3, <2>4 DEF TypeOK, Kept
<1>25. StartIsFresh'
  <2>1. ~Attempting(scheduler) => scheduler.attempt.phase = "stopping"
    BY <1>19, NoAttemptStops
  <2>2. Attempting(scheduler) /\ scheduler.attempt.phase = "starting" =>
          ~scheduler.attempt.started
    BY <1>11, <1>18 DEF Continues, Advances
  <2> QED
    BY <1>21, <2>1, <2>2 DEF StartIsFresh
<1>26. AttemptIsExercised'
  BY <1>1, <1>11, <1>18, <1>21 DEF AttemptIsExercised, Continues, Advances
<1>27. MaintainedMoves'
  <2> SUFFICES ASSUME NEW g \in maintained, g # Slot(after)
               PROVE  g = scheduler.attempt.slot /\ Moves(engine[g])
    BY <1>21, <1>22 DEF MaintainedMoves
  <2>1. g \in GeneratorSlot /\ g = x.attempt.slot /\ Moves(engine[g])
    BY <1>1 DEF MaintainedMoves, TypeOK
  <2>2. Attempting(x) /\ ~InRest(o, g) /\ ~Stopped(o, g)
    BY <1>1, <1>9, <2>1, AttemptTypes DEF TypeOK
  <2>3. Attempting(e.x) /\ e.x.attempt.slot = g
    BY <1>11, <2>1, <2>2 DEF Advances
  <2>4. after.directive \notin Handoffs /\ after.directive # "cancel_unstarted"
    BY <1>13, <1>16, <2>2, <2>3
  <2>5. Attempting(scheduler)
    BY <1>18, <2>3, <2>4
  <2> QED
    BY <1>18, <2>1, <2>3, <2>5 DEF Continues
<1>28. AttemptIsOver'
  <2> SUFFICES ASSUME HasSession(after), Attempting(scheduler),
                      after.phase # "recovery_required"
               PROVE  /\ scheduler.attempt.phase = "stopping"
                      /\ ~Moves(engine[scheduler.attempt.slot])
    BY <1>20, <1>21, <1>22, <1>23 DEF AttemptIsOver, HasSession
  <2>1. /\ Attempting(e.x) /\ scheduler.attempt.slot = e.x.attempt.slot
        /\ e.x.attempt.slot \in GeneratorSlot
    BY <1>12, <1>18, AttemptTypes DEF Continues
  <2>2. CASE HasSession(s)
    <3>1. Attempting(x)
      BY <1>8, <1>11, <2>1, <2>2 DEF Advances, HasSession
    <3>2. /\ x.attempt.phase = "stopping" /\ ~Moves(engine[x.attempt.slot])
      BY <1>1, <1>16, <2>2, <3>1 DEF AttemptIsOver
    <3>3. e.x.attempt.phase = "stopping" /\ e.x.attempt.slot = x.attempt.slot
      BY <1>11, <2>1, <3>1, <3>2 DEF Advances
    <3> QED
      BY <1>18, <2>1, <3>2, <3>3
  <2>3. CASE ~HasSession(s)
    <3>1. c.exercise # Nobody
      BY <1>13, <2>1 DEF GeneratorSlot, Nobody
    <3>2. after.directive = "cancel_unstarted"
      BY <1>16, <1>17, <1>18, <2>3, <3>1 DEF ExerciseDirective, Handoffs
    <3>3. InRest(o, e.x.attempt.slot) /\ ~Moves(engine[e.x.attempt.slot])
      BY <1>9, <1>13, <1>16, <2>1, <3>2
    <3>4. scheduler = e.x /\ e.x.attempt.started
      BY <1>12, <1>18, <2>1, <3>2, <3>3, CancelUnstartedContinues
    <3>5. e.x.attempt.phase # "starting"
      BY <1>11, <3>4 DEF Advances
    <3>6. e.x.attempt.phase # "running"
      BY <1>9, <1>11, <2>1, <3>3 DEF Advances
    <3>7. e.x.attempt.phase \in AttemptPhase
      BY <1>12, <2>1, AttemptTypes DEF Attempt
    <3> QED
      BY <3>3, <3>4, <3>5, <3>6, <3>7 DEF AttemptPhase
  <2> QED
    BY <2>2, <2>3
<1>29. WarningsAreDated'
  <2> SUFFICES ASSUME NEW g \in Exercised
               PROVE  Dated(e.x.slots[g], notice'[g], e.x.minute)
    BY <1>19, <1>21 DEF WarningsAreDated
  <2>1. notice'[g] = IF g \in e.delivered THEN 0 ELSE notice[g]
    BY <1>21
  <2> QED
    BY <1>1, <1>11, <2>1, WarningsStayDated
<1>30. ~uninvited'
  <2> SUFFICES ASSUME Uninvited(scheduler, orders, e.intruding)
               PROVE  FALSE
    BY <1>21
  <2>1. /\ e.intruding /\ AwaitsAbsence(scheduler)
        /\ orders.engine[scheduler.attempt.slot] = "run"
        /\ engine[scheduler.attempt.slot] = AtRest
    BY DEF Uninvited
  <2>2. AwaitsAbsence(e.x) /\ scheduler.attempt.slot = e.x.attempt.slot
    BY <1>18, <2>1 DEF AwaitsAbsence, Continues
  <2>3. scheduler.attempt.slot \in GeneratorSlot
    BY <1>19, <2>1, AttemptTypes DEF AwaitsAbsence
  <2>4. RequiredStatesKnown(o) /\ ~Moves(engine[scheduler.attempt.slot])
    BY <1>20, <2>1, <2>3 DEF Moves, AtRest, Motor
  <2> QED
    BY <1>9, <1>11, <2>1, <2>2, <2>3, <2>4
<1>31. WaitBegins
  BY <1>13, <1>15, <1>21, <1>23 DEF WaitBegins
<1>32. StartIsWarned
  <2> SUFFICES ASSUME Attempting(scheduler), ~Attempting(x), scheduler.attempt.forced
               PROVE  notice[scheduler.attempt.slot] \in Lead..(Day + Lead)
    BY <1>21 DEF StartIsWarned
  <2> DEFINE g == scheduler.attempt.slot
  <2>1. Attempting(e.x) /\ e.x.attempt.slot = g /\ e.x.attempt.forced
    BY <1>18 DEF Continues
  <2>2. g \in Exercised /\ WarnedInTime(x.slots[g])
    BY <1>11, <2>1 DEF Advances
  <2>3. /\ x.slots[g].warnedFor = "today" /\ x.slots[g].warnedAgo >= Lead
    BY <2>2 DEF WarnedInTime
  <2> HIDE DEF g
  <2>4. /\ x.slots[g].warnedAgo \in 0..Lead /\ x.minute \in 0..(Day - 1)
        /\ notice[g] \in 0..(Day + Lead + 1)
    BY <1>1, <2>2 DEF TypeOK, Scheduler, SlotState, Minute
  <2>5. notice[g] <= x.minute + Lead + 1 /\ notice[g] >= x.slots[g].warnedAgo
    BY <1>1, <2>2, <2>3 DEF WarningsAreDated, Dated
  <2> QED
    BY <2>3, <2>4, <2>5, ExerciseAssumption DEF g
<1> QED
  BY <1>23, <1>24, <1>25, <1>26, <1>27, <1>28, <1>29, <1>30, <1>31, <1>32 DEF Inv

-------------------------------------------------------------------------------
(***************************************************************************)
(* What happens between two ticks.                                         *)
(***************************************************************************)

\* An engine changes, as it is told to or not.
LEMMA EngineBecomesKeeps ==
  ASSUME Inv, NEW g \in GeneratorSlot, NEW e \in Engine, EngineBecomes(g, e),
         told.engine[g] # "run" /\ ~Moves(engine[g]) => ~Moves(e)
  PROVE  Inv' /\ WaitBegins /\ StartIsWarned
<1> DEFINE after == [engine EXCEPT ![g] = e]
           begins == e.running /\ ~engine[g].running
           forOutage == begins /\ grid = "no" /\ g # x.attempt.slot
<1>1. /\ TypeOK /\ MaintainedMoves /\ AttemptIsOver
  BY DEF Inv
<1>2. /\ engine' = after
      /\ bus' = [owner |-> NextOwner(bus.owner, RunningEngines(after)),
                 outage |-> (bus.outage \cup IF forOutage THEN {g} ELSE {})
                              \cap RunningEngines(after)]
      /\ maintained' = IF ~e.running /\ ~e.remote THEN maintained \ {g}
                       ELSE IF engine[g] = AtRest /\ g = x.attempt.slot
                       THEN maintained \cup {g} ELSE maintained
      /\ s' = s /\ u' = u /\ x' = x /\ grid' = grid /\ path' = path /\ told' = told
      /\ settled' = settled /\ beat' = beat /\ notice' = notice
      /\ uninvited' = uninvited /\ owed' = owed
  BY DEF EngineBecomes, program
<1>3. /\ after \in [GeneratorSlot -> Engine]
      /\ after[g] = e
      /\ \A h \in GeneratorSlot : h # g => after[h] = engine[h]
  BY <1>1 DEF TypeOK
<1> HIDE DEF after
<1>4. RunningEngines(after) \in SUBSET GeneratorSlot
  BY DEF RunningEngines
<1>5. NextOwner(bus.owner, RunningEngines(after)) \in GeneratorSlot \cup {"none", "unknown"}
  BY <1>4, NextOwnerTypes
<1>6. bus' \in Bus
  BY <1>2, <1>4, <1>5 DEF Bus
<1>7. maintained' \subseteq GeneratorSlot
  BY <1>1, <1>2 DEF TypeOK
<1>8. TypeOK'
  BY <1>1, <1>2, <1>3, <1>6, <1>7 DEF TypeOK
<1>9. MaintainedMoves'
  BY <1>1, <1>2, <1>3 DEF MaintainedMoves, Moves, TypeOK
<1>10. AttemptIsOver'
  <2> SUFFICES ASSUME HasSession(s), Attempting(x), s.phase # "recovery_required"
               PROVE  /\ x.attempt.phase = "stopping"
                      /\ ~Moves(after[x.attempt.slot])
                      /\ told.engine[x.attempt.slot] # "run"
    BY <1>2 DEF AttemptIsOver
  <2>1. x.attempt.slot \in GeneratorSlot
    BY <1>1, AttemptTypes DEF TypeOK
  <2> QED
    BY <1>1, <1>3, <2>1 DEF AttemptIsOver
<1> QED
  BY <1>2, <1>8, <1>9, <1>10
  DEF Inv, StartIsFresh, AttemptIsExercised, WarningsAreDated, WaitBegins, StartIsWarned

\* An engine does what it is told, or fails.
LEMMA EngineObeysKeeps ==
  ASSUME Inv, EngineObeys \/ EngineFails
  PROVE  Inv' /\ WaitBegins /\ StartIsWarned
<1>1. \A g \in GeneratorSlot : engine[g] \in Engine /\ told.engine[g] \in EngineCommand
  BY DEF Inv, TypeOK, Orders
<1>2. CASE EngineObeys
  <2>1. PICK g \in GeneratorSlot : EngineBecomes(g, Obedient(told.engine[g], engine[g]))
    BY <1>2 DEF EngineObeys
  <2> QED
    BY <1>1, <2>1, EngineReacts, EngineBecomesKeeps
<1>3. CASE EngineFails
  <2>1. PICK g \in Fallible : \E e \in Disobedient(told.engine[g], engine[g]) :
          EngineBecomes(g, e)
    BY <1>3 DEF EngineFails
  <2>2. PICK e \in Disobedient(told.engine[g], engine[g]) : EngineBecomes(g, e)
    BY <2>1
  <2>3. g \in GeneratorSlot
    BY StrategiesAssumption
  <2>4. e \in Engine /\ (told.engine[g] # "run" /\ ~Moves(engine[g]) => ~Moves(e))
    BY <1>1, <2>3, EngineReacts
  <2> QED
    BY <2>2, <2>3, <2>4, EngineBecomesKeeps
<1> QED
  BY <1>2, <1>3

\* The contactors move, and the grid comes and goes.
LEMMA ContactorsObeyKeeps ==
  ASSUME Inv, ContactorsObey \/ GridChanges
  PROVE  Inv' /\ WaitBegins /\ StartIsWarned
<1>1. TypeOK
  BY DEF Inv
<1>2. /\ s' = s /\ u' = u /\ x' = x /\ engine' = engine /\ bus' = bus
      /\ settled' = settled /\ beat' = beat /\ maintained' = maintained
      /\ notice' = notice /\ uninvited' = uninvited /\ owed' = owed
  BY DEF ContactorsObey, GridChanges, program, history
<1>3. /\ told' \in Orders /\ told'.engine = told.engine
      /\ grid' \in {"yes", "no"} /\ path' \in {"grid", "isolated", "generator"}
  BY <1>1 DEF ContactorsObey, GridChanges, TypeOK, Orders
<1>4. TypeOK'
  BY <1>1, <1>2, <1>3 DEF TypeOK
<1> QED
  BY <1>2, <1>3, <1>4
  DEF Inv, StartIsFresh, AttemptIsExercised, MaintainedMoves, AttemptIsOver,
      WarningsAreDated, WaitBegins, StartIsWarned

\* A minute more for one generator: midnight makes a warning for tomorrow one for
\* today and drops one for today.
LEMMA SlotAges ==
  ASSUME NEW slot \in SlotState, NEW age \in 0..(Day + Lead + 1), NEW minute \in Minute,
         Dated(slot, age, minute), NEW forcedFrom \in {"today", "tomorrow", "later"}
  PROVE  LET later == (minute + 1) % Day
             warnedAgo == IF slot.warnedFor # "none" /\ slot.warnedAgo < Lead
                          THEN slot.warnedAgo + 1 ELSE slot.warnedAgo
             older == [slot EXCEPT !.warnedAgo = warnedAgo]
             next == IF later = 0 THEN NextDay(older, forcedFrom) ELSE older
             aged == IF next.warnedFor # "none" /\ age <= Day + Lead
                     THEN age + 1 ELSE Day + Lead + 1
         IN  /\ later \in Minute /\ next \in SlotState
             /\ aged \in 0..(Day + Lead + 1)
             /\ Dated(next, aged, later)
<1> DEFINE later == (minute + 1) % Day
           warnedAgo == IF slot.warnedFor # "none" /\ slot.warnedAgo < Lead
                        THEN slot.warnedAgo + 1 ELSE slot.warnedAgo
           older == [slot EXCEPT !.warnedAgo = warnedAgo]
           warned == older.warnedFor = "tomorrow"
           keptFor == IF warned THEN "today" ELSE "none"
           keptAgo == IF warned THEN older.warnedAgo ELSE 0
           nextDay == [older EXCEPT !.window = FALSE, !.forcedFrom = forcedFrom,
                                    !.warnedFor = keptFor, !.warnedAgo = keptAgo]
           next == IF later = 0 THEN NextDay(older, forcedFrom) ELSE older
           aged == IF next.warnedFor # "none" /\ age <= Day + Lead
                   THEN age + 1 ELSE Day + Lead + 1
<1>1. /\ minute \in 0..(Day - 1) /\ Day \in Nat /\ Lead \in Nat /\ Lead + 1 < Day
      /\ age \in 0..(Day + Lead + 1)
  BY ExerciseAssumption DEF Minute
<1>2. later = IF minute = Day - 1 THEN 0 ELSE minute + 1
  BY <1>1
<1>3. slot.warnedAgo \in 0..Lead /\ slot.warnedFor \in {"none", "today", "tomorrow"}
  BY DEF SlotState
<1>4. /\ warnedAgo \in 0..Lead /\ warnedAgo <= slot.warnedAgo + 1
  BY <1>1, <1>3
<1> HIDE DEF later, warnedAgo
<1>5. /\ older \in SlotState /\ older.warnedAgo = warnedAgo
      /\ older.warnedFor = slot.warnedFor
  BY <1>4 DEF SlotState
<1> HIDE DEF older
<1>6. keptFor \in {"none", "today", "tomorrow"} /\ keptAgo \in 0..Lead
  BY <1>1, <1>4, <1>5
<1>7. NextDay(older, forcedFrom) = nextDay
  BY <1>5 DEF NextDay, SlotState
<1> HIDE DEF keptFor, keptAgo
<1>8. nextDay \in SlotState /\ nextDay.warnedFor = keptFor /\ nextDay.warnedAgo = keptAgo
  BY <1>5, <1>6 DEF SlotState
<1> HIDE DEF nextDay
<1>9. /\ next \in SlotState
      /\ later = 0 => next.warnedFor = keptFor /\ next.warnedAgo = keptAgo
      /\ later # 0 => next.warnedFor = slot.warnedFor /\ next.warnedAgo = warnedAgo
  BY <1>5, <1>7, <1>8
<1> HIDE DEF next
<1>10. aged \in 0..(Day + Lead + 1)
  BY <1>1
<1>11. slot.warnedFor # "none" => age <= Day + Lead
  BY <1>1, <1>3 DEF Dated
<1>12. Dated(next, aged, later)
  <2>1. CASE later = 0
    <3>1. minute = Day - 1
      BY <1>1, <1>2, <2>1
    <3>2. next.warnedFor # "none" =>
            /\ slot.warnedFor = "tomorrow" /\ next.warnedFor = "today"
            /\ next.warnedAgo = warnedAgo
      BY <1>5, <1>9, <2>1 DEF keptFor, keptAgo
    <3> QED
      BY <1>1, <1>3, <1>4, <1>11, <2>1, <3>1, <3>2 DEF Dated
  <2>2. CASE later # 0
    BY <1>1, <1>2, <1>3, <1>4, <1>9, <1>11, <2>2 DEF Dated
  <2> QED
    BY <2>1, <2>2
<1>13. later \in Minute
  BY <1>1, <1>2 DEF Minute
<1> QED
  BY <1>9, <1>10, <1>12, <1>13 DEF later, warnedAgo, older, next

\* A minute passes.
LEMMA MinutePassesKeeps ==
  ASSUME Inv, MinutePasses
  PROVE  Inv' /\ WaitBegins /\ StartIsWarned
<1>1. TypeOK /\ WarningsAreDated
  BY DEF Inv
<1> DEFINE later == (x.minute + 1) % Day
           warnedAgo(slot) == IF slot.warnedFor # "none" /\ slot.warnedAgo < Lead
                              THEN slot.warnedAgo + 1 ELSE slot.warnedAgo
           older(slot) == [slot EXCEPT !.warnedAgo = warnedAgo(slot)]
           aged(g) == IF x'.slots[g].warnedFor # "none" /\ notice[g] <= Day + Lead
                      THEN notice[g] + 1 ELSE Day + Lead + 1
<1>2. PICK next \in [Exercised -> {"today", "tomorrow", "later"}] :
        x' = [x EXCEPT !.minute = later,
                       !.slots = [g \in Exercised |->
                          IF later = 0 THEN NextDay(older(x.slots[g]), next[g])
                          ELSE older(x.slots[g])]]
  BY DEF MinutePasses, MinuteLater
<1> DEFINE slots == [g \in Exercised |->
                       IF later = 0 THEN NextDay(older(x.slots[g]), next[g])
                       ELSE older(x.slots[g])]
<1>3. x' = [x EXCEPT !.minute = later, !.slots = slots]
  BY <1>2
<1>4. /\ notice' = [g \in Exercised |-> aged(g)]
      /\ s' = s /\ u' = u /\ grid' = grid /\ path' = path /\ engine' = engine
      /\ bus' = bus /\ told' = told /\ settled' = settled /\ beat' = beat
      /\ maintained' = maintained /\ uninvited' = uninvited /\ owed' = owed
      /\ Exercised # {}
  BY DEF MinutePasses, house
<1>5. /\ x \in Scheduler /\ x.minute \in Minute
      /\ \A g \in Exercised : /\ x.slots[g] \in SlotState
                              /\ notice[g] \in 0..(Day + Lead + 1)
                              /\ Dated(x.slots[g], notice[g], x.minute)
  BY <1>1 DEF TypeOK, Scheduler, WarningsAreDated
<1>6. \A g \in Exercised :
        LET n == IF later = 0 THEN NextDay(older(x.slots[g]), next[g])
                 ELSE older(x.slots[g])
            a == IF n.warnedFor # "none" /\ notice[g] <= Day + Lead
                 THEN notice[g] + 1 ELSE Day + Lead + 1
        IN  /\ later \in Minute /\ n \in SlotState /\ a \in 0..(Day + Lead + 1)
            /\ Dated(n, a, later)
  BY <1>5, SlotAges
<1>7. later \in Minute
  BY <1>4, <1>6
<1> HIDE DEF later, older
<1>8. /\ slots \in [Exercised -> SlotState]
      /\ \A g \in Exercised :
           LET a == IF slots[g].warnedFor # "none" /\ notice[g] <= Day + Lead
                    THEN notice[g] + 1 ELSE Day + Lead + 1
           IN  a \in 0..(Day + Lead + 1) /\ Dated(slots[g], a, later)
  BY <1>6
<1> HIDE DEF slots
<1>9. /\ x' \in Scheduler /\ x'.attempt = x.attempt /\ x'.slots = slots
      /\ x'.minute = later
  BY <1>3, <1>5, <1>7, <1>8 DEF Scheduler
<1>10. /\ notice' \in [Exercised -> 0..(Day + Lead + 1)]
       /\ \A g \in Exercised : Dated(slots[g], notice'[g], later)
  BY <1>4, <1>8, <1>9
<1>11. TypeOK'
  BY <1>1, <1>4, <1>9, <1>10 DEF TypeOK
<1>12. WarningsAreDated'
  BY <1>9, <1>10 DEF WarningsAreDated
<1>13. Attempting(x') <=> Attempting(x)
  BY <1>9 DEF Attempting
<1> QED
  BY <1>4, <1>9, <1>11, <1>12, <1>13
  DEF Inv, StartIsFresh, AttemptIsExercised, MaintainedMoves, AttemptIsOver,
      WaitBegins, StartIsWarned

\* An exercise falls due, or is no longer.
LEMMA DueChangesKeeps ==
  ASSUME Inv, DueChanges
  PROVE  Inv' /\ WaitBegins /\ StartIsWarned
<1>1. TypeOK /\ WarningsAreDated
  BY DEF Inv
<1> DEFINE falls(g, due, forcedFrom) ==
             [x EXCEPT !.slots[g].due = due, !.slots[g].forcedFrom = forcedFrom]
<1>2. PICK g \in Exercised, forcedFrom \in {"today", "tomorrow", "later"} :
        x' = falls(g, TRUE, forcedFrom) \/ x' = falls(g, FALSE, "later")
  BY DEF DueChanges
<1>3. PICK due \in BOOLEAN, from \in {"today", "tomorrow", "later"} : x' = falls(g, due, from)
  BY <1>2
<1>4. /\ x \in Scheduler /\ x.slots \in [Exercised -> SlotState]
  BY <1>1 DEF TypeOK, Scheduler
<1> DEFINE slot == [x.slots[g] EXCEPT !.due = due, !.forcedFrom = from]
           slots == [x.slots EXCEPT ![g] = slot]
<1>5. /\ slot \in SlotState /\ slot.warnedFor = x.slots[g].warnedFor
      /\ slot.warnedAgo = x.slots[g].warnedAgo
  BY <1>4 DEF SlotState
<1>6. x' = [x EXCEPT !.slots = slots]
  BY <1>3, <1>4 DEF Scheduler
<1> HIDE DEF slot
<1>7. /\ slots \in [Exercised -> SlotState]
      /\ \A h \in Exercised : /\ slots[h].warnedFor = x.slots[h].warnedFor
                              /\ slots[h].warnedAgo = x.slots[h].warnedAgo
  BY <1>4, <1>5
<1> HIDE DEF slots
<1>8. /\ x' \in Scheduler /\ x'.attempt = x.attempt /\ x'.slots = slots
      /\ x'.minute = x.minute
  BY <1>4, <1>6, <1>7 DEF Scheduler
<1>9. /\ s' = s /\ u' = u /\ grid' = grid /\ path' = path /\ engine' = engine
      /\ bus' = bus /\ told' = told /\ settled' = settled /\ beat' = beat
      /\ maintained' = maintained /\ uninvited' = uninvited /\ owed' = owed
      /\ notice' = notice
  BY DEF DueChanges, house, history
<1>10. TypeOK'
  BY <1>1, <1>8, <1>9 DEF TypeOK
<1>11. WarningsAreDated'
  BY <1>1, <1>7, <1>8, <1>9 DEF WarningsAreDated, Dated
<1>12. Attempting(x') <=> Attempting(x)
  BY <1>8 DEF Attempting
<1> QED
  BY <1>8, <1>9, <1>10, <1>11, <1>12
  DEF Inv, StartIsFresh, AttemptIsExercised, MaintainedMoves, AttemptIsOver,
      WaitBegins, StartIsWarned

\* What a broken connection leaves of the supervisor.
LEMMA DisconnectedKeeps ==
  ASSUME Kept(s), CycleFits(s)
  PROVE  LET lost == [MarkConnectionLost(s) EXCEPT !.readyFor = NoTimer, !.failedFor = NoTimer]
         IN  \A t \in {lost, RequireRecovery(lost)} :
               /\ Kept(t) /\ CycleFits(t) /\ t.session = s.session
               /\ t.phase \in {s.phase, "recovery_required"}
<1> DEFINE m == MarkConnectionLost(s)
           lost == [m EXCEPT !.readyFor = NoTimer, !.failedFor = NoTimer]
<1>1. /\ Kept(m) /\ m.session = s.session /\ m.suppressed = s.suppressed
      /\ m.phase \in {s.phase, "recovery_required"}
  BY MarkConnectionLostCarries DEF Carries
<1> HIDE DEF m
<1>2. NoTimer \in NoTimer..FailureDelay /\ NoTimer \in NoTimer..StableTime
  BY SupervisorAssumption DEF NoTimer
<1>3. /\ lost \in Supervisor /\ lost.session = m.session /\ lost.suppressed = m.suppressed
      /\ lost.phase = m.phase /\ lost.desired = m.desired
  BY <1>1, <1>2 DEF Kept, Supervisor
<1> HIDE DEF lost
<1>4. Kept(lost)
  BY <1>1, <1>3 DEF Kept, HasSession, Slot
<1>5. /\ Kept(RequireRecovery(lost)) /\ RequireRecovery(lost).session = lost.session
      /\ RequireRecovery(lost).phase = "recovery_required"
      /\ RequireRecovery(lost).suppressed = lost.suppressed
  BY <1>4, RequireRecoveryGoes DEF Goes, SameDebts
<1> QED
  BY <1>1, <1>3, <1>4, <1>5 DEF CycleFits, lost, m

\* The connection is lost for some time.
LEMMA DisconnectKeeps ==
  ASSUME Inv, Disconnect
  PROVE  Inv' /\ WaitBegins /\ StartIsWarned
<1>1. /\ TypeOK /\ Kept(s) /\ CycleFits(s)
      /\ StartIsFresh /\ AttemptIsExercised /\ MaintainedMoves
      /\ AttemptIsOver /\ WarningsAreDated /\ ~uninvited
  BY DEF Inv
<1> DEFINE lost == [MarkConnectionLost(s) EXCEPT !.readyFor = NoTimer, !.failedFor = NoTimer]
           late == [u EXCEPT !.waitedFor = MaxDelay]
           attempt == [x.attempt EXCEPT !.toRun = 0]
           over == [x EXCEPT !.attempt = attempt]
<1>2. s' \in {lost, RequireRecovery(lost)}
  BY DEF Disconnect
<1>3. /\ Kept(s') /\ CycleFits(s') /\ s'.session = s.session
      /\ s'.phase \in {s.phase, "recovery_required"}
  BY <1>1, <1>2, DisconnectedKeeps
<1>4. u' \in Strategy /\ u'.postCycleWait = u.postCycleWait
  <2>1. u' \in {u, late}
    BY DEF Disconnect
  <2>2. MaxDelay \in NoTimer..MaxDelay
    BY MaxDelayAssumption DEF NoTimer
  <2> QED
    BY <1>1, <2>1, <2>2 DEF TypeOK, Strategy
<1>5. /\ x' \in Scheduler /\ x'.slots = x.slots /\ x'.minute = x.minute
      /\ x'.attempt.slot = x.attempt.slot /\ x'.attempt.phase = x.attempt.phase
      /\ x'.attempt.started = x.attempt.started
      /\ Attempting(x') <=> Attempting(x)
  <2>1. x \in Scheduler
    BY <1>1 DEF TypeOK
  <2>2. x' = x \/ (Attempting(x) /\ x' = over)
    BY <2>1 DEF Disconnect, Scheduler
  <2>3. CASE x' = x
    BY <2>1, <2>3
  <2>4. CASE Attempting(x) /\ x' = over
    <3>1. x.attempt \in Attempt
      BY <2>1, <2>4, AttemptTypes
    <3>2. 0 \in 0..RunTime
      BY ExerciseAssumption
    <3>3. /\ attempt \in Attempt /\ attempt.slot = x.attempt.slot
          /\ attempt.phase = x.attempt.phase /\ attempt.started = x.attempt.started
      BY <3>1, <3>2 DEF Attempt
    <3> HIDE DEF attempt
    <3>4. /\ over \in Scheduler /\ over.attempt = attempt
          /\ over.slots = x.slots /\ over.minute = x.minute
      BY <2>1, <3>3, AttemptSet
    <3> HIDE DEF over
    <3>5. Attempting(over)
      BY <3>1, <3>3, <3>4, AttemptTypes DEF Attempt
    <3> QED
      BY <2>4, <3>3, <3>4, <3>5
  <2> QED
    BY <2>2, <2>3, <2>4
<1>6. /\ bus' \in Bus /\ told' \in Orders
      /\ \A g \in GeneratorSlot : told'.engine[g] # "run"
      /\ grid' = grid /\ path' = path /\ engine' = engine /\ settled' = settled
      /\ beat' = beat /\ maintained' = maintained /\ notice' = notice
      /\ uninvited' = uninvited /\ owed' = owed
  <2>1. /\ NoOrders \in Orders
        /\ \A g \in GeneratorSlot : NoOrders.engine[g] # "run"
    BY DEF NoOrders, Orders, EngineCommand
  <2> QED
    BY <1>1, <2>1, BusFromScratchTypes DEF Disconnect, history
<1> HIDE DEF lost, late, attempt, over
<1>7. TypeOK'
  BY <1>1, <1>3, <1>4, <1>5, <1>6 DEF TypeOK, Kept
<1>8. AttemptIsOver'
  <2> SUFFICES ASSUME HasSession(s), Attempting(x), s.phase # "recovery_required"
               PROVE  /\ x.attempt.phase = "stopping"
                      /\ ~Moves(engine[x.attempt.slot])
                      /\ told'.engine[x.attempt.slot] # "run"
    BY <1>3, <1>5, <1>6 DEF AttemptIsOver, HasSession
  <2>1. x.attempt.slot \in GeneratorSlot
    BY <1>1, AttemptTypes DEF TypeOK
  <2> QED
    BY <1>1, <1>6, <2>1 DEF AttemptIsOver
<1>9. StartIsFresh' /\ AttemptIsExercised' /\ MaintainedMoves' /\ WarningsAreDated'
  BY <1>1, <1>5, <1>6
  DEF StartIsFresh, AttemptIsExercised, MaintainedMoves, WarningsAreDated
<1> QED
  BY <1>1, <1>3, <1>4, <1>5, <1>6, <1>7, <1>8, <1>9 DEF Inv, WaitBegins, StartIsWarned

\* The program starts anew from its file.
LEMMA RestartKeeps ==
  ASSUME Inv, Restart
  PROVE  Inv' /\ WaitBegins /\ StartIsWarned
<1>1. /\ TypeOK /\ Kept(s) /\ CycleFits(s)
      /\ StartIsFresh /\ AttemptIsExercised /\ MaintainedMoves
      /\ AttemptIsOver /\ WarningsAreDated /\ ~uninvited
  BY DEF Inv
<1>2. s' \in {Restored(s), RequireRecovery(Restored(s))}
  BY DEF Restart
<1>3. /\ Kept(s') /\ CycleFits(s') /\ s'.session = s.session
      /\ s'.phase \in {s.phase, "recovery_required"}
  <2>1. /\ Kept(Restored(s)) /\ Restored(s).session = s.session
        /\ Restored(s).suppressed = s.suppressed /\ Restored(s).phase = s.phase
    BY <1>1, RestoredCarries DEF Carries
  <2>2. /\ Kept(RequireRecovery(Restored(s)))
        /\ RequireRecovery(Restored(s)).session = Restored(s).session
        /\ RequireRecovery(Restored(s)).phase = "recovery_required"
        /\ RequireRecovery(Restored(s)).suppressed = Restored(s).suppressed
    BY <2>1, RequireRecoveryGoes DEF Goes, SameDebts
  <2> QED
    BY <1>1, <1>2, <2>1, <2>2 DEF CycleFits
<1>4. u' \in Strategy /\ u'.postCycleWait = u.postCycleWait
  <2>1. PICK config \in Configs : u' = [u EXCEPT !.config = config]
    BY DEF Restart, Reloaded
  <2>2. config \in Config
    BY StrategiesAssumption
  <2> QED
    BY <1>1, <2>1, <2>2 DEF TypeOK, Strategy
<1>5. /\ x' \in Scheduler /\ x'.attempt = x.attempt /\ x'.minute = x.minute
      /\ \A g \in Exercised : /\ x'.slots[g].warnedFor = x.slots[g].warnedFor
                              /\ x'.slots[g].warnedAgo = x.slots[g].warnedAgo
  <2>1. PICK start \in Starts :
          x' = [x EXCEPT !.slots = [g \in Exercised |-> [x.slots[g] EXCEPT !.start = start]]]
    BY DEF Restart
  <2> DEFINE slots == [g \in Exercised |-> [x.slots[g] EXCEPT !.start = start]]
  <2>2. start \in Minute
    BY StrategiesAssumption
  <2>3. x \in Scheduler /\ \A g \in Exercised : x.slots[g] \in SlotState
    BY <1>1 DEF TypeOK, Scheduler
  <2>4. ASSUME NEW slot \in SlotState
        PROVE  LET v == [slot EXCEPT !.start = start]
               IN  /\ v \in SlotState /\ v.warnedFor = slot.warnedFor
                   /\ v.warnedAgo = slot.warnedAgo
    BY <2>2 DEF SlotState
  <2>5. /\ slots \in [Exercised -> SlotState]
        /\ \A g \in Exercised : /\ slots[g].warnedFor = x.slots[g].warnedFor
                                /\ slots[g].warnedAgo = x.slots[g].warnedAgo
    BY <2>3, <2>4
  <2>6. x' = [x EXCEPT !.slots = slots]
    BY <2>1
  <2> HIDE DEF slots
  <2> QED
    BY <2>3, <2>5, <2>6 DEF Scheduler
<1>6. /\ engine' \in [GeneratorSlot -> Engine]
      /\ \A g \in GeneratorSlot : Moves(engine'[g]) <=> Moves(engine[g])
  <2> DEFINE failed(g) == g = x.attempt.slot /\ engine[g].remote /\ ~engine[g].running
             found(g) == [engine[g] EXCEPT !.failed = failed(g)]
  <2>1. engine' = [g \in GeneratorSlot |-> found(g)]
    BY DEF Restart
  <2>2. \A g \in GeneratorSlot : failed(g) \in BOOLEAN
    OBVIOUS
  <2>3. ASSUME NEW g \in GeneratorSlot
        PROVE  found(g) \in Engine /\ (Moves(found(g)) <=> Moves(engine[g]))
    <3>1. engine[g] \in Engine
      BY <1>1 DEF TypeOK
    <3> HIDE DEF failed
    <3> QED
      BY <2>2, <3>1 DEF Engine, Moves
  <2> HIDE DEF found
  <2> QED
    BY <2>1, <2>3
<1>7. /\ bus' \in Bus /\ told' \in Orders
      /\ \A g \in GeneratorSlot : told'.engine[g] # "run"
      /\ grid' = grid /\ path' = path /\ settled' = settled
      /\ beat' = beat /\ maintained' = maintained /\ notice' = notice
      /\ uninvited' = uninvited /\ owed' = owed
  <2>1. /\ NoOrders \in Orders
        /\ \A g \in GeneratorSlot : NoOrders.engine[g] # "run"
    BY DEF NoOrders, Orders, EngineCommand
  <2> QED
    BY <1>1, <2>1, BusFromScratchTypes DEF Restart, history
<1>8. TypeOK'
  BY <1>1, <1>3, <1>4, <1>5, <1>6, <1>7 DEF TypeOK, Kept
<1>9. Attempting(x') <=> Attempting(x)
  BY <1>5 DEF Attempting
<1>10. AttemptIsOver'
  <2> SUFFICES ASSUME HasSession(s), Attempting(x), s.phase # "recovery_required"
               PROVE  /\ x.attempt.phase = "stopping"
                      /\ ~Moves(engine'[x.attempt.slot])
                      /\ told'.engine[x.attempt.slot] # "run"
    BY <1>3, <1>5, <1>9 DEF AttemptIsOver, HasSession
  <2>1. x.attempt.slot \in GeneratorSlot
    BY <1>1, AttemptTypes DEF TypeOK
  <2> QED
    BY <1>1, <1>6, <1>7, <2>1 DEF AttemptIsOver
<1>11. MaintainedMoves'
  BY <1>1, <1>5, <1>6, <1>7 DEF MaintainedMoves, TypeOK
<1>12. StartIsFresh' /\ AttemptIsExercised' /\ WarningsAreDated'
  BY <1>1, <1>5, <1>7, <1>9 DEF StartIsFresh, AttemptIsExercised, WarningsAreDated, Dated
<1> QED
  BY <1>1, <1>3, <1>4, <1>7, <1>8, <1>9, <1>10, <1>11, <1>12
  DEF Inv, WaitBegins, StartIsWarned

\* A scheduler that has never run.
LEMMA NewSchedulerTypes ==
  ASSUME NEW start \in [Exercised -> Minute]
  PROVE  LET y == NewScheduler(start)
         IN  /\ y \in Scheduler /\ y.attempt = NoAttempt
             /\ \A g \in Exercised : y.slots[g].warnedFor = "none"
<1> DEFINE slots == [g \in Exercised |-> NewSlotState(start[g])]
<1>1. 0 \in Minute /\ 0 \in 0..Lead
  BY ExerciseAssumption DEF Minute
<1>2. \A g \in Exercised : /\ NewSlotState(start[g]) \in SlotState
                           /\ NewSlotState(start[g]).warnedFor = "none"
  BY <1>1 DEF NewSlotState, SlotState
<1>3. /\ slots \in [Exercised -> SlotState]
      /\ \A g \in Exercised : slots[g].warnedFor = "none"
  BY <1>2
<1> HIDE DEF slots
<1>4. NewScheduler(start) = [attempt |-> NoAttempt, slots |-> slots, minute |-> 0]
  BY DEF NewScheduler, slots
<1> QED
  BY <1>1, <1>3, <1>4 DEF Scheduler

\* The surroundings settle.
LEMMA SettleDownKeeps ==
  ASSUME Inv, SettleDown
  PROVE  Inv' /\ WaitBegins /\ StartIsWarned
<1>1. /\ TypeOK /\ Kept(s) /\ CycleFits(s)
      /\ StartIsFresh /\ AttemptIsExercised /\ MaintainedMoves
      /\ AttemptIsOver /\ WarningsAreDated /\ ~uninvited
  BY DEF Inv
<1>2. /\ x' = [NewScheduler([g \in Exercised |-> x.slots[g].start]) EXCEPT
                 !.attempt = x.attempt]
      /\ notice' = [g \in Exercised |-> Day + Lead + 1]
      /\ settled' \in Settles /\ grid' \in {"yes", "no"}
      /\ s' = s /\ u' = u /\ path' = path /\ engine' = engine /\ bus' = bus
      /\ told' = told /\ beat' = beat /\ maintained' = maintained
      /\ uninvited' = uninvited /\ owed' = owed
  BY DEF SettleDown
<1> DEFINE start == [g \in Exercised |-> x.slots[g].start]
           y == NewScheduler(start)
<1>3. x \in Scheduler /\ x.attempt \in Attempt \cup {NoAttempt}
  BY <1>1 DEF TypeOK, Scheduler
<1>4. start \in [Exercised -> Minute]
  <2>1. \A g \in Exercised : x.slots[g] \in SlotState
    BY <1>3 DEF Scheduler
  <2> QED
    BY <2>1 DEF SlotState
<1> HIDE DEF start
<1>5. /\ y \in Scheduler
      /\ \A g \in Exercised : y.slots[g].warnedFor = "none"
  BY <1>4, NewSchedulerTypes
<1>6. x' = [y EXCEPT !.attempt = x.attempt]
  BY <1>2 DEF start
<1> HIDE DEF y
<1>7. /\ x' \in Scheduler /\ x'.attempt = x.attempt /\ x'.slots = y.slots
  BY <1>3, <1>5, <1>6, AttemptSet
<1>8. notice' \in [Exercised -> 0..(Day + Lead + 1)]
  <2>1. Day + Lead + 1 \in 0..(Day + Lead + 1)
    BY ExerciseAssumption
  <2> QED
    BY <1>2, <2>1
<1>9. TypeOK'
  BY <1>1, <1>2, <1>7, <1>8, StrategiesAssumption DEF TypeOK
<1>10. WarningsAreDated'
  BY <1>5, <1>7 DEF WarningsAreDated, Dated
<1>11. Attempting(x') <=> Attempting(x)
  BY <1>7 DEF Attempting
<1> QED
  BY <1>1, <1>2, <1>7, <1>9, <1>10, <1>11
  DEF Inv, StartIsFresh, AttemptIsExercised, MaintainedMoves, AttemptIsOver,
      WaitBegins, StartIsWarned

-------------------------------------------------------------------------------
(***************************************************************************)
(* The theorems.                                                           *)
(***************************************************************************)

\* A program that has never run, in a house on the grid.
LEMMA InitInvariant == Init => Inv
<1> SUFFICES ASSUME Init
             PROVE  Inv
  OBVIOUS
<1>1. Kept(s) /\ CycleFits(s)
  BY NewSupervisorKept DEF Init, CycleFits, NewSupervisor, NoSession, NewSession
<1>2. u \in Strategy
  <2>1. PICK config \in Configs : u = NewStrategy(config)
    BY DEF Init
  <2>2. config \in Config
    BY StrategiesAssumption
  <2>3. NoTimer \in NoTimer..MaxDelay
    BY MaxDelayAssumption DEF NoTimer
  <2> QED
    BY <2>1, <2>2, <2>3 DEF NewStrategy, Strategy
<1>3. /\ x \in Scheduler /\ x.attempt = NoAttempt
      /\ \A g \in Exercised : x.slots[g].warnedFor = "none"
  <2>1. PICK start \in Starts : x = NewScheduler([g \in Exercised |-> start])
    BY DEF Init
  <2>2. [g \in Exercised |-> start] \in [Exercised -> Minute]
    BY StrategiesAssumption
  <2> QED
    BY <2>1, <2>2, NewSchedulerTypes
<1>4. engine \in [GeneratorSlot -> Engine]
  <2>1. AtRest \in Engine
    BY DEF AtRest, Motor, Engine
  <2> QED
    BY <2>1 DEF Init
<1>5. bus \in Bus /\ told \in Orders
  BY DEF Init, Bus, NoOrders, Orders, EngineCommand
<1>6. notice \in [Exercised -> 0..(Day + Lead + 1)]
  <2>1. Day + Lead + 1 \in 0..(Day + Lead + 1)
    BY ExerciseAssumption
  <2> QED
    BY <2>1 DEF Init
<1>7. TypeOK
  BY <1>1, <1>2, <1>3, <1>4, <1>5, <1>6 DEF Init, TypeOK, Kept
<1>8. x.attempt.phase = "stopping" /\ ~Attempting(x)
  BY <1>3 DEF NoAttempt, Attempting
<1> QED
  BY <1>1, <1>3, <1>7, <1>8
  DEF Inv, Init, StartIsFresh, AttemptIsExercised, MaintainedMoves, AttemptIsOver,
      WarningsAreDated, Dated

\* Every step keeps the invariant.
LEMMA NextInvariant ==
  Inv /\ [Next]_vars => Inv' /\ WaitBegins /\ StartIsWarned
<1> SUFFICES ASSUME Inv, [Next]_vars
             PROVE  Inv' /\ WaitBegins /\ StartIsWarned
  OBVIOUS
<1>1. CASE Tick
  BY <1>1, TickKeeps
<1>2. CASE EngineObeys \/ EngineFails
  BY <1>2, EngineObeysKeeps
<1>3. CASE ContactorsObey \/ GridChanges
  BY <1>3, ContactorsObeyKeeps
<1>4. CASE MinutePasses
  BY <1>4, MinutePassesKeeps
<1>5. CASE DueChanges
  BY <1>5, DueChangesKeeps
<1>6. CASE Disconnect
  BY <1>6, DisconnectKeeps
<1>7. CASE Restart
  BY <1>7, RestartKeeps
<1>8. CASE SettleDown
  BY <1>8, SettleDownKeeps
<1>9. CASE UNCHANGED vars
  <2>1. /\ s' = s /\ u' = u /\ x' = x /\ grid' = grid /\ path' = path
        /\ engine' = engine /\ bus' = bus /\ told' = told /\ settled' = settled
        /\ beat' = beat /\ maintained' = maintained /\ notice' = notice
        /\ uninvited' = uninvited /\ owed' = owed
    BY <1>9 DEF vars
  <2>2. TypeOK'
    BY <2>1 DEF Inv, TypeOK
  <2> QED
    BY <2>1, <2>2
    DEF Inv, StartIsFresh, AttemptIsExercised, MaintainedMoves, AttemptIsOver,
        WarningsAreDated, WaitBegins, StartIsWarned
<1> QED
  BY <1>1, <1>2, <1>3, <1>4, <1>5, <1>6, <1>7, <1>8, <1>9 DEF Next

\* The inductive invariant holds in every state that is reached.
LEMMA InvariantHolds == Spec => []Inv
BY InitInvariant, NextInvariant, PTL DEF Spec

\* The state has its types.
THEOREM TypesAreKept == Spec => []TypeOK
<1>1. Inv => TypeOK
  BY DEF Inv
<1> QED
  BY <1>1, InvariantHolds, PTL

\* The charge cycle never owns a session that the user began or took over
\* (REQ-BEH-13, REQ-CYCLE-04, REQ-CYCLE-05).
THEOREM CycleLeavesTheUsersSession == Spec => []CycleNeverOwnsManual
<1>1. Inv => CycleNeverOwnsManual
  BY DEF Inv, Kept, CycleNeverOwnsManual
<1> QED
  BY <1>1, InvariantHolds, PTL

\* The wait of the charge cycle begins only with the end of a session that the
\* cycle itself was ending, and never against a stop of the user
\* (REQ-CYCLE-06, REQ-DELAY-04, begin_post_cycle_wait).
THEOREM WaitsOnlyAfterItsCycle == Spec => WaitFollowsCycle
<1> DEFINE A == u'.postCycleWait /\ ~u.postCycleWait =>
                  s.session.cycleOwned /\ s.session.stopRequested /\ ~s'.suppressed
<1>1. Inv /\ [Next]_vars => [A]_vars
  BY NextInvariant DEF WaitBegins
<1> HIDE DEF A
<1>2. Spec => [][A]_vars
  BY <1>1, InvariantHolds, PTL DEF Spec
<1> QED
  BY <1>2 DEF A, WaitFollowsCycle

\* An engine that an exercise has set going has somebody who will stop it
\* (REQ-EXERCISE-22, REQ-EXERCISE-23).
THEOREM ExercisedEngineIsOwned == Spec => []ExerciseRunHasOwner
<1>1. Inv => ExerciseRunHasOwner
  BY DEF Inv, MaintainedMoves, ExerciseRunHasOwner
<1> QED
  BY <1>1, InvariantHolds, PTL

\* No exercise is left that could stop the engine of a session while it turns
\* (REQ-EXERCISE-26).
THEOREM ExerciseLeavesTheSession == Spec => []SessionEngineIsKept
<1>1. Inv => SessionEngineIsKept
  <2> SUFFICES ASSUME Inv, HasSession(s), Slot(s) = x.attempt.slot,
                      s.phase # "recovery_required"
               PROVE  ~Moves(engine[Slot(s)])
    BY DEF SessionEngineIsKept, Moves
  <2>1. Slot(s) \in GeneratorSlot
    BY DEF Inv, TypeOK, Supervisor, HasSession, Slot, GeneratorSession
  <2>2. Attempting(x)
    BY <2>1, AttemptTypes DEF Inv, TypeOK
  <2> QED
    BY <2>2 DEF Inv, AttemptIsOver
<1> QED
  BY <1>1, InvariantHolds, PTL

\* A forced exercise begins at least the lead, and about a day at most, after a
\* warning that was delivered (REQ-EXERCISE-08).
THEOREM ForcedExerciseIsAnnounced == Spec => ForcedNeedsWarning
<1> DEFINE A == Attempting(x') /\ ~Attempting(x) /\ x'.attempt.forced =>
                  notice[x'.attempt.slot] \in Lead..(Day + Lead)
<1>1. Inv /\ [Next]_vars => [A]_vars
  BY NextInvariant DEF StartIsWarned
<1> HIDE DEF A
<1>2. Spec => [][A]_vars
  BY <1>1, InvariantHolds, PTL DEF Spec
<1> QED
  BY <1>2 DEF A, ForcedNeedsWarning

\* The engine of an unforced exercise is not told to start while the family may
\* be at home (REQ-EXERCISE-04, REQ-EXERCISE-06).
THEOREM PresenceComesFirst == Spec => []PresenceIsRespected
<1>1. Inv => PresenceIsRespected
  BY DEF Inv, PresenceIsRespected
<1> QED
  BY <1>1, InvariantHolds, PTL
================================================================================
