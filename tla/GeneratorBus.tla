----------------------------- MODULE GeneratorBus -----------------------------
(***************************************************************************)
(* The common generator bus and the tracker that reconstructs its owner.   *)
(*                                                                         *)
(* The plant: every generator has a contactor whose coil it feeds itself   *)
(* through the closed contacts of the others, so the first engine to make  *)
(* voltage takes the bus, keeps it while it runs, and loses it to another  *)
(* running engine when it stops.  No sensor shows which contactor is in.   *)
(*                                                                         *)
(* The program: GeneratorBusTracker (generator_bus.py) samples the RUNNING *)
(* sensors once per tick and derives the FIFO owner from two consecutive   *)
(* samples; it also remembers why each current run was started.            *)
(***************************************************************************)
EXTENDS EnergyDomain

CONSTANTS
  Slots,         \* the generators on the bus
  NoOwner,       \* the bus has no owner / no managed session
  UnknownOwner,  \* the owner cannot be told
  FlickerFree    \* an engine changes at most once between two ticks

ASSUME SlotAssumption ==
  /\ NoOwner \notin Slots
  /\ UnknownOwner \notin Slots
  /\ NoOwner # UnknownOwner
  /\ FlickerFree \in BOOLEAN

Owner == Slots \cup {NoOwner, UnknownOwner}

RunContext == {"none", "outage_related", "test_run", "other", "unknown"}

VARIABLES
  running,          \* plant: the engines that make voltage
  contactor,        \* plant: the engine whose contactor is in
  linked,           \* the connection to Home Assistant is up
  changed,          \* the engines that changed since the last tick
  owner,            \* tracker: the FIFO owner
  runContexts,      \* tracker: why each current run was started
  history,          \* tracker: previous_running is not None
  previousRunning   \* tracker: the engines that ran at the last tick

plant == <<running, contactor>>
tracker == <<owner, runContexts, history, previousRunning>>
vars == <<running, contactor, linked, changed, owner, runContexts, history,
          previousRunning>>

NoContexts == [s \in Slots |-> "none"]

Init ==
  /\ running \in SUBSET Slots
  /\ \/ running = {} /\ contactor = NoOwner
     \/ contactor \in running
  /\ linked = TRUE
  /\ changed = {}
  /\ owner = UnknownOwner
  /\ runContexts = NoContexts
  /\ history = FALSE
  /\ previousRunning = {}

-------------------------------------------------------------------------------
(***************************************************************************)
(* The plant between two ticks.  While the link is up and FlickerFree      *)
(* holds, an engine that changed waits for the next tick to change again.  *)
(***************************************************************************)

MayChange(s) == linked /\ FlickerFree => s \notin changed

EngineStarts(s) ==
  /\ s \notin running
  /\ MayChange(s)
  /\ running' = running \cup {s}
  /\ contactor' = IF contactor = NoOwner THEN s ELSE contactor
  /\ changed' = changed \cup {s}
  /\ UNCHANGED <<linked, owner, runContexts, history, previousRunning>>

EngineStops(s) ==
  /\ s \in running
  /\ MayChange(s)
  /\ running' = running \ {s}
  /\ IF contactor # s THEN contactor' = contactor
     ELSE IF running = {s} THEN contactor' = NoOwner
     ELSE contactor' \in running \ {s}
  /\ changed' = changed \cup {s}
  /\ UNCHANGED <<linked, owner, runContexts, history, previousRunning>>

-------------------------------------------------------------------------------
(***************************************************************************)
(* The tracker.                                                            *)
(***************************************************************************)

\* invalidate_observation_history
Invalidate ==
  /\ owner' = UnknownOwner
  /\ history' = FALSE
  /\ previousRunning' = {}
  /\ runContexts' = NoContexts

\* Mutant: the state of the switch instead of a context.
ClassifyNewRunRaw(gridReady, testMode) ==
  IF testMode = "no" /\ gridReady = "no" THEN "outage_related" ELSE testMode

\* _classify_new_run
ClassifyNewRun(gridReady, testMode) ==
  CASE testMode = "yes" -> "test_run"
    [] testMode = "unknown" \/ (testMode = "no" /\ gridReady = "unknown") -> "unknown"
    [] testMode = "no" /\ gridReady = "no" -> "outage_related"
    [] OTHER -> "other"

\* _initialize_contexts, for an engine found running without any history
InitialContext(s, managed, managedOutage, internalTests) ==
  CASE s \in internalTests -> "test_run"
    [] s \notin internalTests /\ managed = s ->
         IF managedOutage THEN "outage_related" ELSE "other"
    [] OTHER -> "unknown"

\* Mutant: the reason is decided again at every tick.
NextContextAgain(s, gridReady, testMode, managed, managedOutage, internalTests) ==
  CASE s \notin running -> "none"
    [] s \in running /\ ~history ->
         InitialContext(s, managed, managedOutage, internalTests)
    [] OTHER -> IF s \in internalTests THEN "test_run"
                ELSE ClassifyNewRun(gridReady, testMode)

NextContext(s, gridReady, testMode, managed, managedOutage, internalTests) ==
  CASE s \notin running -> "none"
    [] s \in running /\ ~history ->
         InitialContext(s, managed, managedOutage, internalTests)
    [] s \in running /\ history /\ s \notin previousRunning ->
         IF s \in internalTests THEN "test_run"
         ELSE ClassifyNewRun(gridReady, testMode)
    [] OTHER -> runContexts[s]

\* Mutant: a running engine is as good as another.
NextOwnerAny ==
  IF running = {} THEN NoOwner ELSE CHOOSE s \in running : TRUE

\* Mutant: an engine needs history to be named.
NextOwnerFromHistory ==
  IF running = {} THEN NoOwner
  ELSE IF owner \in running THEN owner
  ELSE IF history /\ \E s \in running : previousRunning = {s}
       THEN CHOOSE s \in running : previousRunning = {s}
  ELSE UnknownOwner

\* _update_owner
NextOwner ==
  IF running = {} THEN NoOwner
  ELSE IF \E s \in Slots : running = {s} THEN CHOOSE s \in Slots : running = {s}
  ELSE IF owner \in running THEN owner
  ELSE IF history /\ \E s \in running : previousRunning = {s}
       THEN CHOOSE s \in running : previousRunning = {s}
  ELSE UnknownOwner

\* A tick that reads every RUNNING sensor: update() past its first test.
Tick(gridReady, testMode, managed, managedOutage, internalTests) ==
  /\ linked
  /\ owner' = NextOwner
  /\ runContexts' =
       [s \in Slots |->
         NextContext(s, gridReady, testMode, managed, managedOutage, internalTests)]
  /\ history' = TRUE
  /\ previousRunning' = running
  /\ changed' = {}
  /\ UNCHANGED <<running, contactor, linked>>

\* A tick that finds some RUNNING sensor unknown or unavailable.
UnknownTick ==
  /\ linked
  /\ Invalidate
  /\ changed' = {}
  /\ UNCHANGED <<running, contactor, linked>>

\* The connection breaks, or the program stops and restarts: the interrupted
\* connection invalidates, and from_dict drops whatever history was saved.
Gap ==
  /\ linked
  /\ linked' = FALSE
  /\ Invalidate
  /\ UNCHANGED <<running, contactor, changed>>

Reconnect ==
  /\ ~linked
  /\ linked' = TRUE
  /\ changed' = {}
  /\ UNCHANGED <<running, contactor, owner, runContexts, history, previousRunning>>

AnyTick ==
  \E gridReady \in Tri, testMode \in Tri, managed \in Slots \cup {NoOwner},
     managedOutage \in BOOLEAN, internalTests \in SUBSET Slots :
    Tick(gridReady, testMode, managed, managedOutage, internalTests)

Next ==
  \/ \E s \in Slots : EngineStarts(s) \/ EngineStops(s)
  \/ AnyTick
  \/ UnknownTick
  \/ Gap
  \/ Reconnect

Spec == Init /\ [][Next]_vars

-------------------------------------------------------------------------------
(***************************************************************************)
(* What main.py makes of the owner: the load_connected reading that the    *)
(* generator controller of slot s gets (_apply_bus_model).                 *)
(***************************************************************************)

\* Mutant: an unknown owner is taken for another engine.
LoadConnectedByOther(s, houseOnGenerator) ==
  CASE houseOnGenerator = "no" -> "no"
    [] houseOnGenerator = "yes" -> Reads(owner = s)
    [] OTHER -> "unknown"

LoadConnected(s, houseOnGenerator) ==
  CASE houseOnGenerator = "no" -> "no"
    [] houseOnGenerator = "yes" /\ owner \in Slots -> Reads(owner = s)
    [] OTHER -> "unknown"

-------------------------------------------------------------------------------
(***************************************************************************)
(* Properties.                                                             *)
(***************************************************************************)

\* The variables have their types.
TypeOK ==
  /\ running \in SUBSET Slots
  /\ contactor \in Slots \cup {NoOwner}
  /\ linked \in BOOLEAN
  /\ changed \in SUBSET Slots
  /\ owner \in Owner
  /\ runContexts \in [Slots -> RunContext]
  /\ history \in BOOLEAN
  /\ previousRunning \in SUBSET Slots

\* REQ-BUS-02, REQ-BUS-04, REQ-BUS-05: at every tick the owner derived from
\* two samples of RUNNING is the engine whose contactor really is in, or it
\* is admitted to be unknown.  No order of starts, stops, takeovers, unknown
\* readings, gaps and restarts makes the tracker name the wrong engine.
OwnerSound == changed = {} => owner \in {UnknownOwner, contactor}

\* REQ-BUS-06: an engine is named only on the strength of a sample taken since
\* the last gap, and that sample saw it run; a saved owner is no evidence.
OwnerNeedsHistory ==
  owner \in Slots => history /\ owner \in previousRunning

\* _apply_bus_model: while the house is fed from the bus, the engine that
\* feeds it is never reported free of load.  The controller of a free engine
\* cools it down and stops it.
FeedingEngineNeverFree ==
  changed = {} /\ contactor \in Slots => LoadConnected(contactor, "yes") # "no"

\* REQ-BUS-05: an engine that runs alone is known as the owner at the first
\* complete sample, however the history was lost.
LoneEngineOwns ==
  history /\ changed = {} => \A s \in Slots : running = {s} => owner = s

\* The reason of a run is decided once, when the run is first seen: an outage
\* or a test switch that comes later does not turn a run that belongs to the
\* user into one the program may stop.
ContextSticky ==
  [][history /\ history' =>
       \A s \in previousRunning \cap previousRunning' :
         runContexts'[s] = runContexts[s]]_vars
===============================================================================
