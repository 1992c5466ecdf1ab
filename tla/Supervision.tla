------------------------------ MODULE Supervision ------------------------------
(***************************************************************************)
(* The supervisor in its application: the commands of the user that arrive *)
(* between two ticks, the tick with the recovery reset in front of it, the *)
(* lost connection and the restart (main.py, state_store.py).              *)
(*                                                                         *)
(* What a tick observes and what the other components intend is any        *)
(* observation of Observations and any intents of IntentSet that these     *)
(* components can have; so the supervisor is checked against whatever the  *)
(* house, the controllers and the strategies do.                           *)
(***************************************************************************)
EXTENDS EnergySupervisor

CONSTANTS
  Observations,   \* what a tick may observe
  IntentSet,      \* what the exercise and the UPS run may intend
  Commands        \* the commands the user gives

ASSUME SupervisionAssumption ==
  /\ Observations \subseteq Observation
  /\ IntentSet \subseteq Intents
  /\ Commands \subseteq {"start_generator", "stop_generator", "reset"}

VARIABLES
  s,          \* the supervisor
  orders,     \* the generators the last tick told to run
  userWord,   \* history: the last command taken up, while it is in force
  owes,       \* history: EnergyATS has yet to undo an isolation of its own
  acquired,   \* history: how the session came by its engine
  gap         \* history: where the time since readyFor began has a gap

history == <<userWord, owes, acquired, gap>>
vars == <<s, orders, userWord, owes, acquired, gap>>

Init ==
  /\ s = NewSupervisor
  /\ orders = {}
  /\ userWord = "none"
  /\ owes = FALSE
  /\ acquired = "none"
  /\ gap = "none"

-------------------------------------------------------------------------------
(***************************************************************************)
(* The commands of the user, as they arrive.                               *)
(***************************************************************************)

RequestManualStart ==
  /\ "start_generator" \in Commands /\ ~s.wantStart
  /\ s' = [s EXCEPT !.wantStart = TRUE]
  /\ UNCHANGED <<orders, history>>

RequestManualStop ==
  /\ "stop_generator" \in Commands /\ ~s.wantStop
  /\ s' = [s EXCEPT !.wantStop = TRUE]
  /\ UNCHANGED <<orders, history>>

RequestRecoveryReset ==
  /\ "reset" \in Commands /\ ~s.wantReset
  /\ s' = [s EXCEPT !.wantReset = TRUE]
  /\ UNCHANGED <<orders, history>>

-------------------------------------------------------------------------------
(***************************************************************************)
(* One tick.                                                               *)
(***************************************************************************)

\* What the UPS run can intend when it sees this supervisor (ups_run.py).
MayIntend(o, c) ==
  /\ c.exerciseRuns => c.exercise # Nobody
  /\ c.defer \/ c.delaySatisfied \/ c.claim =>
       o.grid = "no" /\ o.automatic /\ ~HasSession(s) /\ ~s.wantStart
  /\ c.defer \/ c.claim => c.delaySatisfied
  /\ ~(c.defer /\ c.claim)
  /\ c.cycleStop =>
       /\ o.grid = "no" /\ o.automatic /\ ~s.wantStart
       /\ s.session.reason = "grid_outage" /\ s.session.cycleOwned
       /\ ~s.session.manualOverride /\ s.phase = "on_generator"
       /\ o.path = "generator" /\ o.owner = Slot(s)
  /\ c.restoreGrid => o.grid = "yes" /\ ~HasSession(s)

\* The shutdown of a generator that is not the session's can fail.
ShutdownMayFail(u, c) ==
  u.stopOutage # {} \/ (c.exercise # Nobody /\ ~c.exerciseRuns)

\* History: a command counts when a session heeds it; a start is nothing new
\* to a session that a start began.
Heeded(o, c) ==
  IF ~s.wantStart /\ ~s.wantStop THEN {}
  ELSE LET before == Prelude(Elapse(s), o)
       IN IF Attends(before, o) /\ HasSession(AfterStart(before, o, c))
          THEN (IF s.wantStart /\ s.session.reason # "manual_generator_start"
                THEN {"start"} ELSE {})
                 \cup (IF s.wantStop THEN {"stop"} ELSE {})
          ELSE {}

\* History: a stop in an outage is in force until the grid is seen, a start
\* until the grid is seen without a session.
WordAfter(heeded, after, o) ==
  CASE "stop" \in heeded -> IF o.grid = "no" THEN "stop" ELSE "none"
    [] heeded = {"start"} -> "start"
    [] OTHER -> IF o.grid = "yes" /\ (userWord = "stop" \/ ~HasSession(after))
                THEN "none" ELSE userWord

\* History: where the engine of a session comes from.
AcquiredAfter(after, o, c) ==
  IF ~HasSession(after) THEN "none"
  ELSE IF Slot(after) = Slot(s) THEN acquired
  ELSE IF Slot(after) \notin ActiveSlots(o) THEN "stopped"
  ELSE IF /\ Slot(after) = c.exercise
          /\ after.directive \in {"handoff_to_outage", "handoff_to_manual", "fail_active"}
  THEN "exercise"
  ELSE "foreign"

\* History: the grid was not seen ready at some tick since readyFor began, or at
\* a tick of a reset only.
GapAfter(after, o, kind) ==
  CASE s.readyFor = NoTimer \/ after.readyFor = NoTimer -> "none"
    [] s.readyFor # NoTimer /\ after.readyFor # NoTimer ->
         IF o.grid # "yes" /\ gap # "unseen" THEN kind ELSE gap

NormalTick ==
  /\ ~s.wantReset /\ ~s.resetActive
  /\ \E o \in Observations, c \in IntentSet :
       /\ MayIntend(o, c)
       /\ \E after \in {Step(Elapse(s), o, c)}, heeded \in {Heeded(o, c)} :
             /\ \/ s' = after
                \/ ShutdownMayFail(after, c) /\ s' = RequireRecovery(after)
             /\ orders' = Ordered(after, o, c)
             /\ userWord' = WordAfter(heeded, after, o)
             /\ owes' = \/ "stop" \in heeded /\ o.grid = "no"
                        \/ owes /\ (HasSession(s) \/ ~GridPath(o))
             /\ acquired' = AcquiredAfter(after, o, c)
             /\ gap' = GapAfter(after, o, "unseen")

\* What main.py makes of a directive when it does not complete: driving the
\* contactors, stopping the engines and the last look may each fail.
ResetGoesOn(r) ==
  IF r.directive \in {"finish_tick", "begin_grid_recovery"} THEN {r.s}
  ELSE {FailReset(r.s)} \cup (IF r.directive = "complete" THEN {} ELSE {r.s})

\* A reset is asked for or under way: the tick ends here, without a step.
ResetTick ==
  /\ s.wantReset \/ s.resetActive
  /\ \E o \in Observations, c \in IntentSet, blocked, confirmed \in BOOLEAN :
       /\ c = [NoIntents EXCEPT !.exercise = c.exercise]
       /\ confirmed => GridPath(o)
       /\ \E r \in {RecoveryStep(Elapse(s), o, c, blocked, confirmed)} :
            \/ s' \in ResetGoesOn(r) /\ owes' = owes
            \/ /\ r.directive = "complete"
               /\ s' = CompleteReset(r.s)
               /\ owes' = FALSE
       /\ gap' = GapAfter(s', o, "reset")
  /\ acquired' = IF HasSession(s') THEN acquired ELSE "none"
  /\ orders' = {}
  /\ UNCHANGED userWord

-------------------------------------------------------------------------------
(***************************************************************************)
(* The connection and the process.                                         *)
(***************************************************************************)

\* Mutant: the timers run on through the gap.
DisconnectKeepsTimers ==
  /\ s' = MarkConnectionLost(s)
  /\ gap' = IF s'.readyFor # NoTimer THEN "unseen" ELSE "none"
  /\ orders' = {}
  /\ UNCHANGED <<userWord, owes, acquired>>

\* _record_interrupted_connection; also for an error inside a tick
Disconnect ==
  /\ s' = [MarkConnectionLost(s) EXCEPT !.readyFor = NoTimer,
                                        !.failedFor = NoTimer]
  /\ gap' = IF s'.readyFor # NoTimer THEN "unseen" ELSE "none"
  /\ orders' = {}
  /\ UNCHANGED <<userWord, owes, acquired>>

\* The process ends, or dies at any point of a tick, and starts again from the
\* file: from the last tick's state, with or without unconfirmed commands.
Restart ==
  /\ s' \in {Restored(s), RequireRecovery(Restored(s))}
  /\ gap' = IF s'.readyFor # NoTimer THEN "unseen" ELSE "none"
  /\ orders' = {}
  /\ UNCHANGED <<userWord, owes, acquired>>

Next ==
  \/ RequestManualStart
  \/ RequestManualStop
  \/ RequestRecoveryReset
  \/ NormalTick
  \/ ResetTick
  \/ Disconnect
  \/ Restart

Spec == Init /\ [][Next]_vars

-------------------------------------------------------------------------------
(***************************************************************************)
(* Properties.                                                             *)
(***************************************************************************)

\* The types of the variables.
TypeOK ==
  /\ s \in Supervisor
  /\ orders \subseteq GeneratorSlot
  /\ userWord \in {"none", "start", "stop"}
  /\ owes \in BOOLEAN
  /\ acquired \in {"none", "stopped", "exercise", "foreign"}
  /\ gap \in {"none", "reset", "unseen"}

\* EnergyATS never tells two engines to run, and while it manages one it tells
\* no other, even across a fallback (_managed_failure, _decision).
OneEngineOrdered ==
  /\ \A g, h \in orders : g = h
  /\ HasSession(s) => orders \subseteq {Slot(s)}

\* The engine of a session was at rest when the session took it, or came from
\* an exercise that handed it over; what somebody else has started is never
\* seized (REQ-BEH-16, _managed_failure, _begin_session).
EnginesAreNotSeized == acquired # "foreign"

\* No ping-pong: a session changes its engine at most once (REQ-BEH-15,
\* _managed_failure), whatever the user, the grid and the connection do.
SingleFallback ==
  [][HasSession(s) /\ HasSession(s)' /\ Slot(s)' # Slot(s) =>
       ~s.session.fallbackUsed /\ s'.session.fallbackUsed]_vars

\* After a manual stop in an outage no session begins until the grid has been
\* seen or the user has asked again, also after a reset or a restart
\* (REQ-BEH-14, automatic_start_suppressed_until_grid).
UserStopHolds ==
  userWord = "stop" /\ HasSession(s) => s.session.stopRequested

\* An isolation made on a manual stop is remembered until the house has been
\* seen on the grid path without a session, or a reset has put it there
\* (REQ-BEH-14, grid_restore_pending).
RestoreIsRemembered == owes => s.restorePending

\* What a stop of the user in an outage leaves behind is not lost in failures,
\* later sessions, resets or restarts (REQ-BEH-14).
StopIsRemembered == UserStopHolds /\ RestoreIsRemembered

ReturnBegins ==
  /\ ~s.wantReset /\ ~s.resetActive /\ s'.phase # "recovery_required"
  /\ ~s'.session.stopRequested
  /\ \/ s.phase # "returning_to_grid" /\ s'.phase = "returning_to_grid"
     \/ ~HasSession(s)' /\ s.desiredSource # "grid" /\ s'.desiredSource = "grid"

\* A return to the grid that the user did not ask for begins only when the stable
\* time has passed and the grid was seen ready at every observation of it, but for
\* those of ticks that serve a reset (REQ-RETURN-01, REQ-GRID-05, _grid_stable).
ReturnNeedsObservedGrid ==
  [][ReturnBegins => GridStable(s') /\ gap' # "unseen"]_vars

\* REQ-GRID-05, which makes no exception: any gap in the observation of the grid
\* restarts the stable time.
ReturnNeedsContinuousGrid == [][ReturnBegins => gap' = "none"]_vars
===============================================================================
