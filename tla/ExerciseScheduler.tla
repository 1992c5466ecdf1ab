--------------------------- MODULE ExerciseScheduler ---------------------------
(***************************************************************************)
(* The class ExerciseScheduler (exercise_scheduler.py) as operators on the *)
(* record x of its attributes: the schedule of the maintenance runs, the   *)
(* warning before a forced one, and the one attempt under way, for whose   *)
(* engine the scheduler is answerable until it has stopped or a session    *)
(* has taken it over.                                                      *)
(*                                                                         *)
(* A day has Day minutes, and dates are kept relative to today: window is  *)
(* "last_window_date is today", warnedFor the day of                       *)
(* warning_sent_for_date, forcedFrom the forced date if it is today or     *)
(* earlier, tomorrow, or later.  due is _is_due; the reference it counts   *)
(* from and its days are left out.  toRun counts the ticks to run_until.   *)
(* The results, the history and the events are left out.                   *)
(***************************************************************************)
EXTENDS EnergySupervisor

CONSTANTS
  Exercised,   \* the generators whose exercise is enabled
  Day,         \* the minutes of a day
  Lead,        \* _WARNING_MIN_LEAD, in minutes
  RunTime      \* run_minutes, in ticks

ASSUME ExerciseAssumption ==
  /\ Exercised \subseteq GeneratorSlot
  /\ Lead \in Nat /\ Day \in Nat
  /\ Lead + 1 < Day
  /\ RunTime \in Nat \ {0}

Minute == 0..(Day - 1)

AttemptPhase == {"starting", "running", "stopping"}

\* ExerciseAttempt
Attempt ==
  [slot : GeneratorSlot, forced : BOOLEAN, phase : AttemptPhase,
   started : BOOLEAN, toRun : 0..RunTime]

NoAttempt ==
  [slot |-> Nobody, forced |-> FALSE, phase |-> "stopping", started |-> FALSE,
   toRun |-> 0]

\* ExerciseSlotState with the start time of its ExerciseConfig; warnedAgo is
\* the time since warning_sent_at, as far as it matters.
SlotState ==
  [start : Minute, due : BOOLEAN, forcedFrom : {"today", "tomorrow", "later"},
   window : BOOLEAN, warnedFor : {"none", "today", "tomorrow"},
   warnedAgo : 0..Lead]

NewSlotState(start) ==
  [start |-> start, due |-> FALSE, forcedFrom |-> "later", window |-> FALSE,
   warnedFor |-> "none", warnedAgo |-> 0]

\* The attributes of a scheduler.
Scheduler ==
  [attempt : Attempt \cup {NoAttempt}, slots : [Exercised -> SlotState],
   minute : Minute]

NewScheduler(start) ==
  [attempt |-> NoAttempt, slots |-> [g \in Exercised |-> NewSlotState(start[g])],
   minute |-> 0]

Attempting(x) == x.attempt # NoAttempt

\* What a tick brings: ExerciseObservation.
ExerciseObservation ==
  [grid : Tri, pathStable : BOOLEAN, family : Tri, emergency : Tri,
   known : BOOLEAN, busy : BOOLEAN, enabled : BOOLEAN,
   generators : [GeneratorSlot -> GeneratorStatus]]

InRest(o, g) ==
  o.generators[g].running = "no" /\ o.generators[g].remote = "no"

AtWork(o, g) ==
  o.generators[g].running = "yes" /\ o.generators[g].remote = "yes"

-------------------------------------------------------------------------------
(***************************************************************************)
(* Time.                                                                   *)
(***************************************************************************)

\* Mutant: a warning is good for every day.
NextDayStillWarned(slot, forcedFrom) ==
  [slot EXCEPT !.window = FALSE, !.forcedFrom = forcedFrom,
               !.warnedFor = IF @ = "none" THEN "none" ELSE "today"]

\* Midnight; a forced date further away may have come near.
NextDay(slot, forcedFrom) ==
  LET warned == slot.warnedFor = "tomorrow"
  IN [slot EXCEPT !.window = FALSE, !.forcedFrom = forcedFrom,
                  !.warnedFor = IF warned THEN "today" ELSE "none",
                  !.warnedAgo = IF warned THEN @ ELSE 0]

ForcedDates(slot) ==
  CASE ~slot.due -> {"later"}
    [] slot.due /\ slot.forcedFrom = "later" -> {"later", "tomorrow"}
    [] OTHER -> {"today"}

\* The schedulers a minute later.
MinuteLater(x) ==
  LET minute == (x.minute + 1) % Day
      older(slot) == [slot EXCEPT !.warnedAgo =
                        IF slot.warnedFor # "none" /\ @ < Lead THEN @ + 1 ELSE @]
  IN {[x EXCEPT !.minute = minute,
                !.slots = [g \in Exercised |->
                   IF minute = 0 THEN NextDay(older(x.slots[g]), next[g])
                   ELSE older(x.slots[g])]] :
        next \in {f \in [Exercised -> {"today", "tomorrow", "later"}] :
                    \A g \in Exercised : f[g] \in ForcedDates(x.slots[g])}}

\* Mutant: goes on counting when the time is up.
ElapseRunPastZero(x) ==
  IF Attempting(x) THEN [x EXCEPT !.attempt.toRun = @ - 1] ELSE x

\* A tick of time passes.
ElapseRun(x) ==
  IF Attempting(x) /\ x.attempt.toRun > 0
  THEN [x EXCEPT !.attempt.toRun = @ - 1] ELSE x

-------------------------------------------------------------------------------
(***************************************************************************)
(* The warning and the start.                                              *)
(***************************************************************************)

\* The minute in which a warning goes out, and the day it is for.
WarningMinute(slot) == (slot.start + Day - (Lead + 1)) % Day

WarningDay(slot) == IF slot.start > Lead THEN "today" ELSE "tomorrow"

\* The day of the warning is the forced date or later.
ForcedOn(slot, day) ==
  slot.due /\ (slot.forcedFrom = "today" \/ slot.forcedFrom = day)

\* _due_warnings
DueWarnings(x) ==
  {g \in Exercised :
     LET slot == x.slots[g]
     IN /\ ForcedOn(slot, WarningDay(slot))
        /\ x.minute = WarningMinute(slot)
        /\ slot.warnedFor # WarningDay(slot)}

\* confirm_warning, for the warnings that were delivered
ConfirmWarnings(x, delivered) ==
  [x EXCEPT !.slots = [g \in Exercised |->
     IF g \in delivered
     THEN [x.slots[g] EXCEPT !.warnedFor = WarningDay(x.slots[g]), !.warnedAgo = 0]
     ELSE x.slots[g]]]

\* Warned for today, and not later than the lead before the start.
WarnedInTime(slot) == slot.warnedFor = "today" /\ slot.warnedAgo >= Lead

\* Mutant: does not ask whether EnergyATS is busy.
StartAllowedBusy(x, o, g) ==
  LET slot == x.slots[g]
  IN /\ o.enabled /\ o.known /\ o.emergency = "no"
     /\ o.grid = "yes" /\ o.pathStable
     /\ InRest(o, g)
     /\ IF ForcedOn(slot, "today") THEN WarnedInTime(slot) ELSE o.family = "no"

\* _start_blocker is None, but for the attempt of the other generator
StartAllowed(x, o, g) ==
  LET slot == x.slots[g]
  IN /\ o.enabled /\ o.known /\ o.emergency = "no"
     /\ o.grid = "yes" /\ o.pathStable /\ ~o.busy
     /\ InRest(o, g)
     /\ IF ForcedOn(slot, "today") THEN WarnedInTime(slot) ELSE o.family = "no"

NewAttempt(x, g) ==
  [slot |-> g, forced |-> ForcedOn(x.slots[g], "today"), phase |-> "starting",
   started |-> FALSE, toRun |-> 0]

\* _maybe_start: the windows that open now are used up, whatever comes of them;
\* of two generators, the first one that is allowed to start does.
MaybeStart(x, o) ==
  LET opened == {g \in Exercised : LET slot == x.slots[g]
                                   IN slot.due /\ slot.start = x.minute /\ ~slot.window}
      allowed == {g \in opened : StartAllowed(x, o, g)}
      first == IF "A" \in allowed THEN "A" ELSE "B"
  IN [x EXCEPT
        !.slots = [g \in Exercised |-> [x.slots[g] EXCEPT !.window = @ \/ g \in opened]],
        !.attempt = IF allowed = {} THEN NoAttempt ELSE NewAttempt(x, first)]

-------------------------------------------------------------------------------
(***************************************************************************)
(* The attempt.                                                            *)
(***************************************************************************)

\* _finish_attempt, and the end of an attempt that is put off
EndAttempt(x) == [x EXCEPT !.attempt = NoAttempt]

\* _fail_active: the obligation to stop the engine stays.
FailActive(x) ==
  IF Attempting(x) THEN [x EXCEPT !.attempt.phase = "stopping"] ELSE x

\* cancel_unstarted
CancelUnstarted(x, o) ==
  IF ~Attempting(x) \/ x.attempt.started THEN x
  ELSE LET status == o.generators[x.attempt.slot]
       IN IF status.running = "yes" \/ status.remote = "yes" THEN x ELSE EndAttempt(x)

\* Mutant: presence is looked at when the attempt is made, not before the start.
StartingPresenceOnce(x, o) ==
  IF AtWork(o, x.attempt.slot)
  THEN [x EXCEPT !.attempt.phase = "running", !.attempt.started = TRUE,
                 !.attempt.toRun = RunTime]
  ELSE x

\* The attempt waits for its engine, and without a warning for the family to
\* stay away.
StepStarting(x, o) ==
  LET g == x.attempt.slot
  IN IF ~x.attempt.forced /\ InRest(o, g) /\ o.family # "no"
     THEN CancelUnstarted(x, o)
     ELSE IF AtWork(o, g)
     THEN [x EXCEPT !.attempt.phase = "running", !.attempt.started = TRUE,
                    !.attempt.toRun = RunTime]
     ELSE x

\* Mutant: does not look at the time.
StepRunningOn(x, o) == IF ~AtWork(o, x.attempt.slot) THEN FailActive(x) ELSE x

StepRunning(x, o) ==
  IF ~AtWork(o, x.attempt.slot) THEN FailActive(x)
  ELSE IF x.attempt.toRun = 0 THEN [x EXCEPT !.attempt.phase = "stopping"]
  ELSE x

\* Mutant: an engine without voltage counts as stopped.
StepStoppingEarly(x, o) ==
  IF o.generators[x.attempt.slot].running = "no" THEN EndAttempt(x) ELSE x

StepStopping(x, o) == IF InRest(o, x.attempt.slot) THEN EndAttempt(x) ELSE x

\* _step_active
StepActive(x, o) ==
  LET u == IF o.generators[x.attempt.slot].failed THEN FailActive(x) ELSE x
  IN CASE u.attempt.phase = "starting" -> StepStarting(u, o)
       [] u.attempt.phase = "running" -> StepRunning(u, o)
       [] u.attempt.phase = "stopping" -> StepStopping(u, o)

\* step; the warnings it asks for are DueWarnings of the same scheduler.
ExerciseStep(x, o) == IF Attempting(x) THEN StepActive(x, o) ELSE MaybeStart(x, o)

WarningsOf(x) == IF Attempting(x) THEN {} ELSE DueWarnings(x)

\* owned_slot, desired_running and authorized_shutdown_slot
OwnedSlot(x) == x.attempt.slot

WantsRun(x) == Attempting(x) /\ x.attempt.phase # "stopping"

ShutdownSlots(x) ==
  IF Attempting(x) /\ x.attempt.phase = "stopping" THEN {x.attempt.slot} ELSE {}

\* _dispatch_exercise_directive
Dispatch(x, o, directive) ==
  CASE directive = "cancel_unstarted" -> CancelUnstarted(x, o)
    [] directive \in {"handoff_to_outage", "handoff_to_manual"} -> EndAttempt(x)
    [] directive = "fail_active" -> FailActive(x)
    [] OTHER -> x
===============================================================================
