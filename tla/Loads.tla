--------------------------------- MODULE Loads ---------------------------------
(***************************************************************************)
(* The load manager in its application: the tick that steps it and awaits  *)
(* its one command (main.py, ha_adapter.py), the two switches, the user    *)
(* who throws them too, the meter, the moves of the house, and restarts.   *)
(*                                                                         *)
(* A call that has returned, failed or died with the program may have been *)
(* carried out or not.  One that is obeyed later is to the program like a  *)
(* switch thrown by the user.                                              *)
(*                                                                         *)
(* The surroundings may settle: from then on the house stays where it is,  *)
(* nobody throws a switch, every reading is there and new, and nothing     *)
(* restarts.  settled "low": the power stays below the threshold and the   *)
(* switches obey; "high": it stays above the nominal power, and calls may  *)
(* fail.  What the program must get done is asked from then on.            *)
(*                                                                         *)
(* own, coolFor and steady are history variables: the groups that went off *)
(* on an order of the program and that it has not seen on since; how long  *)
(* a group that was too much for the generator has to stay off it; and for *)
(* how long, over how many samples, an engine has been seen to carry a     *)
(* load below the threshold that the program has not changed.              *)
(***************************************************************************)
EXTENDS LoadManager

CONSTANTS
  Houses,        \* the members of House that occur
  Handled,       \* the groups whose switch the user throws
  Losable,       \* the groups whose reading may get lost
  Shown,         \* the powers the meter shows
  Freezes,       \* whether the meter may go on showing an old sample
  Pauses,        \* whether commands may be forbidden for some ticks
  EnabledNext    \* the values of load_management_enabled at a restart

\* The bus tracker and the supervisor see one of these: the house on the
\* grid, on the way to a ready generator, between two paths, on a generator
\* with a known owner or none, or nobody knows.
House == {"grid", "prepare", "between", "A", "B", "ownerless", "unknown"}

ASSUME LoadsAssumption ==
  /\ Houses \subseteq House
  /\ Handled \subseteq LoadGroup
  /\ Losable \subseteq LoadGroup
  /\ Shown \subseteq Rank
  /\ Freezes \in BOOLEAN
  /\ Pauses \in BOOLEAN
  /\ EnabledNext \subseteq BOOLEAN

VARIABLES
  m,          \* the load manager
  house,      \* where the house is, and where it is going
  closed,     \* the groups whose switch is on
  call,       \* the command being awaited
  permitted,  \* transfer_permitted of the last step
  settled,    \* whether the surroundings have come to rest, and under what load
  coolFor,    \* history
  own,        \* history
  steady      \* history

vars == <<m, house, closed, call, permitted, settled, own, coolFor, steady>>

OnGeneratorBus == {"A", "B", "ownerless"}

MayFollow(h) ==
  CASE h = "grid" -> {"prepare", "between", "unknown"}
    [] h = "prepare" -> {"grid", "between", "unknown"}
                          \cup IF permitted THEN {"A", "B"} ELSE {}
    [] h \in OnGeneratorBus -> {"A", "B", "ownerless", "between", "unknown"}
    [] OTHER -> House

NotSteady == [age |-> 0, count |-> 0, silent |-> 0]

NoCall == [group |-> "none", on |-> FALSE]
Calls == [group : LoadGroup, on : BOOLEAN]

Init ==
  /\ m = NewManager(TRUE)
  /\ house \in Houses \ {"unknown"}
  /\ closed \in SUBSET LoadGroup
  /\ call = NoCall
  /\ permitted = TRUE
  /\ settled = "no"
  /\ own = {}
  /\ coolFor = 0
  /\ steady = NotSteady

-------------------------------------------------------------------------------
(***************************************************************************)
(* The switches.                                                           *)
(***************************************************************************)

\* The switches move to new; going off on an order of the program, or while
\* one is outstanding, makes a group the program's.
WentOff(new, ordered) ==
  own \cup {g \in closed \ new :
              ordered \/ (g = m.pending.group /\ ~TurnsOn(m.pending))}

Obeyed(c) == IF c.on THEN closed \cup {c.group} ELSE closed \ {c.group}

\* What becomes of a call that nobody waits for any longer.
End(c) ==
  \E new \in (IF settled = "low" THEN {} ELSE {closed}) \cup {Obeyed(c)} :
    closed' = new /\ own' = WentOff(new, TRUE)

-------------------------------------------------------------------------------
(***************************************************************************)
(* The tick.                                                               *)
(***************************************************************************)

\* The powers the meter may show; away from the generators it tells nothing.
Powers(h) ==
  CASE h \notin OnGeneratorBus -> {NoReading}
    [] settled = "low" -> {Threshold}
    [] settled = "high" -> {Maximum, Maximum + 1}
    [] OTHER -> Shown

\* What a tick finds with the house at h: the switches as they are or as the
\* user has thrown them, the readings that are lost, the meter, and whether
\* commands are allowed.
Findings(h) ==
  IF settled # "no"
  THEN [house : {h}, hidden : {{}}, closed : {closed}, power : Powers(h),
        newSample : {TRUE}, enabled : {TRUE}]
  ELSE [house : {h}, hidden : SUBSET Losable,
        closed : {(closed \ Handled) \cup on : on \in SUBSET Handled},
        power : Powers(h),
        newSample : IF h \in OnGeneratorBus /\ Freezes THEN BOOLEAN ELSE {TRUE},
        enabled : IF Pauses THEN BOOLEAN ELSE {TRUE}]

Reading(f, g) == IF g \in f.hidden THEN "unknown" ELSE Reads(g \in f.closed)

SeenOn(f) == {g \in LoadGroup : m.enabled /\ Reading(f, g) = "yes"}

\* build_load_manager_observation
Observe(f) ==
  [houseOnGenerator |-> IF f.house = "unknown" THEN "unknown"
                        ELSE Reads(f.house \in OnGeneratorBus),
   houseOnGrid |-> Reads(f.house = "grid"),
   supplyDesired |-> f.house \in {"prepare"} \cup OnGeneratorBus,
   generatorReady |-> f.house \in {"prepare"} \cup OnGeneratorBus,
   inTransition |-> f.house = "between",
   owner |-> IF f.house \in {"A", "B"} THEN f.house ELSE "none",
   power |-> f.power,
   groups |-> [g \in LoadGroup |-> Reading(f, g)],
   actionsEnabled |-> f.enabled]

\* The load that was too much, and has to stay off as long as the house stays
\* off the grid and the program owes anybody anything.
TooMuch(p) == p.reason \in {"admission_revert", "overload"}
NothingOwed(manager) == manager.shed = {} /\ manager.pending = Nothing

Capped(n, bound) == IF n < bound THEN n + 1 ELSE n

\* The longest silence of the meter in a measurement: within each half of it the
\* stream is stale, but a retry takes the sample on show for a new one
\* (_on_generator, _accept_sample with force).
Freshness == 2 * StaleTime

\* What a tick adds to steady: it finds the same engine, all its readings, commands
\* allowed and none outstanding, and no new sample above the threshold.  The sample
\* on show when this begins counts as the first one; silent counts the ticks since
\* the last.
Watched(f) ==
  LET measured == /\ f.house \in {"A", "B"} /\ f.hidden = {} /\ f.enabled
                  /\ f.power # NoReading /\ (f.newSample => f.power <= Threshold)
      kept == /\ f.house = house /\ m.pending = Nothing
              /\ steady.count > 0 /\ steady.silent < Freshness
  IN IF ~measured THEN NotSteady
     ELSE IF ~kept THEN [NotSteady EXCEPT !.count = 1]
     ELSE [age |-> Capped(steady.age, Stabilization),
           count |-> IF f.newSample THEN Capped(steady.count, 2) ELSE steady.count,
           silent |-> IF f.newSample THEN 0 ELSE steady.silent + 1]

\* The step of the load manager on these findings.  (A singleton is quantified
\* over where a definition would be evaluated once per use.)
StepOn(f) ==
  \E decision \in {Step(Elapse(m, f.newSample), Observe(f))} :
    LET pending == decision.m.pending
    IN /\ m' = decision.m
       /\ permitted' = decision.permitted
       /\ call' = IF decision.commands
                  THEN [group |-> pending.group, on |-> TurnsOn(pending)] ELSE NoCall
       /\ house' = f.house
       /\ closed' = f.closed
       /\ own' = WentOff(f.closed, FALSE) \ SeenOn(f)
       /\ coolFor' = IF f.house = "grid" \/ NothingOwed(decision.m) THEN 0
                     ELSE IF decision.commands /\ TooMuch(pending) THEN RetryInterval
                     ELSE Less(coolFor)
       /\ steady' = Watched(f)

Tick ==
  /\ call = NoCall
  /\ \E h \in Houses \cap ({house} \cup IF settled = "no" THEN MayFollow(house) ELSE {}) :
       \E f \in Findings(h) : StepOn(f)
  /\ UNCHANGED settled

\* The program waits for its call.
TimePasses ==
  /\ call # NoCall
  /\ \E newSample \in IF Freezes THEN BOOLEAN ELSE {TRUE} : m' = Elapse(m, newSample)
  /\ coolFor' = Less(coolFor)
  /\ UNCHANGED <<house, closed, call, permitted, settled, own, steady>>

\* execute_load_actions: the service call returns.
CallReturns ==
  /\ call # NoCall
  /\ End(call)
  /\ call' = NoCall
  /\ UNCHANGED <<m, house, permitted, settled, coolFor, steady>>

\* It fails, times out, or the connection breaks.
CallFails ==
  /\ call # NoCall /\ settled # "low"
  /\ End(call)
  /\ call' = NoCall
  /\ m' = ReportExecutionFailure(m, call.group)
  /\ steady' = NotSteady
  /\ UNCHANGED <<house, permitted, settled, coolFor>>

\* The state was saved before the command went out and after every tick.
Restart ==
  /\ settled = "no"
  /\ \E enabled \in EnabledNext : m' = Restored(m, enabled)
  /\ IF call = NoCall THEN UNCHANGED <<closed, own>> ELSE End(call)
  /\ call' = NoCall
  /\ permitted' = TRUE
  /\ steady' = NotSteady
  /\ UNCHANGED <<house, settled, coolFor>>

SettleDown ==
  /\ settled = "no"
  /\ settled' \in {"low", "high"}
  /\ UNCHANGED <<m, house, closed, call, permitted, own, coolFor, steady>>

Next ==
  \/ Tick
  \/ TimePasses
  \/ CallReturns
  \/ CallFails
  \/ Restart
  \/ SettleDown

Spec == Init /\ [][Next]_vars

\* The run loop ticks once a second, and every awaited call returns or fails.
\* (Both are needed only once the surroundings have settled.)
FairSpec ==
  /\ Spec
  /\ WF_vars(settled # "no" /\ Tick)
  /\ WF_vars(settled # "no" /\ (CallReturns \/ CallFails))

-------------------------------------------------------------------------------
\* The types of the variables.
TypeOK ==
  /\ m \in Manager
  /\ house \in House
  /\ closed \subseteq LoadGroup
  /\ call \in Calls \cup {NoCall}
  /\ permitted \in BOOLEAN
  /\ settled \in {"no", "low", "high"}
  /\ own \subseteq LoadGroup
  /\ coolFor \in 0..RetryInterval
  /\ steady \in [age : 0..Stabilization, count : 0..2, silent : 0..Freshness]

\* REQ-LOAD-07, 08 and 40: the program turns on only a group that went off on its
\* own order and that it has not seen on since, whatever the user does with the
\* switches, readings hide, late calls do, or a restart falls between.
RestoreOnlyOwn ==
  [][call = NoCall /\ call'.on => call'.group \in own']_vars

\* REQ-LOAD-38 to 40: the debt of a group that was taken off is never dropped (by
\* a restart, a degradation, a failed call) while the group is off.
ShedIsRemembered ==
  [][\A g \in m.shed \ m'.shed : g \in closed']_vars

\* REQ-LOAD-33: no ON/OFF chatter.  A group is not turned on on a generator before
\* the retry interval is over since one was taken off as too much for it, through
\* degradations, changes of the owner, of the path and restarts.  (When the user
\* has taken back everything, a measurement ends the interval: _maybe_restore.)
NoHastyRestore ==
  [][call = NoCall /\ call'.on /\ house' \in OnGeneratorBus => coolFor' = 0]_vars

\* REQ-LOAD-14, 15, 20 to 24, 34, 35 and 41: a group is admitted to a generator
\* only after a measurement of its own, on this engine and over at least two samples
\* that are all below the threshold, with no command, no lost reading, no tick on
\* which commands are forbidden and no restart in between, and never with the
\* samples of a window that was broken off or of the engine before.
AdmissionIsMeasured ==
  [][call = NoCall /\ call'.on /\ house' \in OnGeneratorBus =>
       steady'.age >= Stabilization /\ steady'.count >= 2]_vars

-------------------------------------------------------------------------------
\* REQ-LOAD-11: a switch that fails, or a reading that never confirms, holds the
\* transfer up only for a while.
PretransferEnds == [](settled # "no" /\ house = "prepare" => <>[]permitted)

\* REQ-LOAD-38: on the grid everything that is owed is given back.
GridGivesBack == settled = "low" /\ house = "grid" /\ m.enabled ~> m.shed = {}

\* REQ-LOAD-28 and 29: a load that stays too high makes the manager take a group
\* off, if none is off on its account yet, or find that none obeys.
FirstOverloadIsAnswered ==
  settled = "high" /\ house = "A" /\ m.enabled /\ m.shed = {}
    ~> m.shed # {} \/ closed \subseteq m.blocked

\* REQ-LOAD-25 and 30: as long as the load stays too high one group after the other
\* is taken off, until none is left that obeys.
OverloadIsAnswered == settled = "high" /\ house = "A" ~> closed \subseteq m.blocked

\* REQ-LOAD-33 and 34: what was refused or taken off gets its next try, and is
\* admitted when the load has fallen.
RetryIsServed ==
  settled = "low" /\ house = "A" /\ m.enabled /\ m.retry # NoTimer ~> m.shed = {}
===============================================================================
