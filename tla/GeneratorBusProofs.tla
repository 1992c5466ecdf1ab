-------------------------- MODULE GeneratorBusProofs --------------------------
(***************************************************************************)
(* Proofs about GeneratorBus, for any set of generators.  The invariant    *)
(* BusInv relates the two clocks of the component: what the tracker saw at *)
(* its last sample and what the plant did since.  The set of engines that  *)
(* changed since the sample is the difference of the two views, and an     *)
(* owner that has not changed still holds the bus.                         *)
(***************************************************************************)
EXTENDS GeneratorBus, TLAPS

\* The interlock: the bus is free only while nothing runs.
BusPhysics ==
  IF contactor = NoOwner THEN running = {} ELSE contactor \in running

\* Every difference between the sample and the plant is a recorded change.
SampleGap ==
  history => /\ linked
             /\ \A s \in Slots :
                  s \in changed <=> ((s \in running) # (s \in previousRunning))

\* A named owner ran at the sample and, unless it changed, holds the bus.
OwnerHeld ==
  owner \in Slots => /\ history
                     /\ owner \in previousRunning
                     /\ owner \notin changed => contactor = owner

OwnerNone == owner = NoOwner => history /\ previousRunning = {}

LoneSample ==
  history => \A s \in Slots : previousRunning = {s} => owner = s

BusInv ==
  /\ TypeOK
  /\ BusPhysics
  /\ SampleGap
  /\ OwnerHeld
  /\ OwnerNone
  /\ LoneSample

-------------------------------------------------------------------------------
\* What the owner derived at a tick can be: the engine that runs alone, the
\* engine that held the bus before and still runs, or nobody.
LEMMA NextOwnerCases ==
  ASSUME BusInv
  PROVE  \/ running = {} /\ NextOwner = NoOwner
         \/ NextOwner \in Slots /\ running = {NextOwner}
         \/ /\ NextOwner \in Slots
            /\ NextOwner = owner
            /\ owner \in running
         \/ /\ running # {}
            /\ \A s \in Slots : running # {s}
            /\ NextOwner = UnknownOwner
<1> USE SlotAssumption
<1>1. CASE running = {}
  BY <1>1 DEF NextOwner
<1>2. CASE running # {} /\ \E s \in Slots : running = {s}
  BY <1>2 DEF NextOwner
<1>3. CASE running # {} /\ ~(\E s \in Slots : running = {s})
  <2>1. CASE owner \in running
    BY <1>3, <2>1 DEF NextOwner, BusInv, TypeOK
  <2>2. CASE owner \notin running
    <3>1. ~(history /\ \E s \in running : previousRunning = {s})
      BY <2>2 DEF BusInv, LoneSample, TypeOK
    <3> QED
      BY <1>3, <2>2, <3>1 DEF NextOwner
  <2> QED
    BY <2>1, <2>2
<1> QED
  BY <1>1, <1>2, <1>3

\* The tick keeps the owner in its type and every context in RunContext.
LEMMA TickTypes ==
  ASSUME TypeOK, NextOwner \in Owner,
         NEW gridReady \in Tri, NEW testMode \in Tri,
         NEW managed \in Slots \cup {NoOwner}, NEW managedOutage \in BOOLEAN,
         NEW internalTests \in SUBSET Slots,
         Tick(gridReady, testMode, managed, managedOutage, internalTests)
  PROVE  TypeOK'
<1>1. ASSUME NEW s \in Slots
      PROVE  NextContext(s, gridReady, testMode, managed, managedOutage, internalTests)
               \in RunContext
  <2>1. InitialContext(s, managed, managedOutage, internalTests) \in RunContext
    BY DEF InitialContext, RunContext
  <2>2. ClassifyNewRun(gridReady, testMode) \in RunContext
    BY DEF ClassifyNewRun, RunContext, Tri
  <2>3. runContexts[s] \in RunContext
    BY DEF TypeOK
  <2> QED
    BY <2>1, <2>2, <2>3 DEF NextContext, RunContext
<1>2. runContexts' \in [Slots -> RunContext]
  BY <1>1 DEF Tick
<1> QED
  BY <1>2 DEF TypeOK, Tick

\* Typing does not depend on FlickerFree.
THEOREM SpecTypes == Spec => []TypeOK
<1> USE SlotAssumption
<1>1. Init => TypeOK
  BY DEF Init, TypeOK, Owner, RunContext, NoContexts
<1>2. ASSUME TypeOK, [Next]_vars
      PROVE  TypeOK'
  <2> USE <1>2
  <2>1. ASSUME NEW s \in Slots, EngineStarts(s) \/ EngineStops(s)
        PROVE  TypeOK'
    BY <2>1 DEF EngineStarts, EngineStops, TypeOK
  <2>2. CASE AnyTick
    <3>1. NextOwner \in Owner
      BY DEF NextOwner, Owner, TypeOK
    <3> QED
      BY <2>2, <3>1, TickTypes DEF AnyTick
  <2>3. CASE UnknownTick \/ Gap
    BY <2>3 DEF UnknownTick, Gap, Invalidate, TypeOK, Owner, NoContexts, RunContext
  <2>4. CASE Reconnect \/ UNCHANGED vars
    BY <2>4 DEF Reconnect, vars, TypeOK
  <2> QED
    BY <2>1, <2>2, <2>3, <2>4 DEF Next
<1> QED
  BY <1>1, <1>2, PTL DEF Spec

-------------------------------------------------------------------------------
\* The tracker starts without an owner and without history.
LEMMA InitBusInv == Init => BusInv
BY SlotAssumption
   DEF Init, BusInv, TypeOK, Owner, RunContext, NoContexts, BusPhysics,
       SampleGap, OwnerHeld, OwnerNone, LoneSample

\* Every change of the plant and every tick keeps the invariant.
LEMMA NextBusInv ==
  ASSUME FlickerFree, BusInv, [Next]_vars
  PROVE  BusInv'
<1> USE SlotAssumption DEF BusInv
<1>1. ASSUME NEW s \in Slots, EngineStarts(s)
      PROVE  BusInv'
  <2>1. TypeOK'
    BY <1>1 DEF EngineStarts, TypeOK
  <2>2. BusPhysics'
    BY <1>1 DEF EngineStarts, TypeOK, BusPhysics
  <2>3. SampleGap'
    BY <1>1 DEF EngineStarts, MayChange, TypeOK, SampleGap
  <2>4. OwnerHeld'
    BY <1>1 DEF EngineStarts, TypeOK, OwnerHeld
  <2>5. OwnerNone' /\ LoneSample'
    BY <1>1 DEF EngineStarts, OwnerNone, LoneSample
  <2> QED
    BY <2>1, <2>2, <2>3, <2>4, <2>5
<1>2. ASSUME NEW s \in Slots, EngineStops(s)
      PROVE  BusInv'
  <2>1. TypeOK'
    BY <1>2 DEF EngineStops, TypeOK
  <2>2. BusPhysics'
    BY <1>2 DEF EngineStops, TypeOK, BusPhysics
  <2>3. SampleGap'
    BY <1>2 DEF EngineStops, MayChange, TypeOK, SampleGap
  <2>4. OwnerHeld'
    BY <1>2 DEF EngineStops, TypeOK, OwnerHeld
  <2>5. OwnerNone' /\ LoneSample'
    BY <1>2 DEF EngineStops, OwnerNone, LoneSample
  <2> QED
    BY <2>1, <2>2, <2>3, <2>4, <2>5
<1>3. ASSUME AnyTick
      PROVE  BusInv'
  <2>1. PICK gridReady \in Tri, testMode \in Tri, managed \in Slots \cup {NoOwner},
             managedOutage \in BOOLEAN, internalTests \in SUBSET Slots :
          Tick(gridReady, testMode, managed, managedOutage, internalTests)
    BY <1>3 DEF AnyTick
  <2>2. /\ linked /\ linked' = linked
        /\ running' = running /\ contactor' = contactor
        /\ owner' = NextOwner /\ history' = TRUE
        /\ previousRunning' = running /\ changed' = {}
    BY <2>1 DEF Tick
  <2>3. NextOwner \in Owner
    BY NextOwnerCases DEF Owner
  <2>4. TypeOK'
    BY <2>1, <2>3, TickTypes
  <2>5. BusPhysics' /\ SampleGap'
    BY <2>2 DEF BusPhysics, SampleGap
  <2>6. OwnerHeld'
    <3>1. CASE NextOwner \in Slots /\ running = {NextOwner}
      BY <2>2, <3>1 DEF OwnerHeld, BusPhysics, TypeOK
    <3>2. CASE NextOwner \in Slots /\ NextOwner = owner /\ owner \in running
      BY <2>2, <3>2 DEF OwnerHeld, SampleGap
    <3> QED
      BY <2>2, <3>1, <3>2, NextOwnerCases DEF OwnerHeld
  <2>7. OwnerNone'
    BY <2>2, NextOwnerCases DEF OwnerNone
  <2>8. LoneSample'
    BY <2>2, NextOwnerCases DEF LoneSample
  <2> QED
    BY <2>4, <2>5, <2>6, <2>7, <2>8
<1>4. CASE UnknownTick
  BY <1>4 DEF UnknownTick, Invalidate, TypeOK, Owner, NoContexts, RunContext,
              BusPhysics, SampleGap, OwnerHeld, OwnerNone, LoneSample
<1>5. CASE Gap
  BY <1>5 DEF Gap, Invalidate, TypeOK, Owner, NoContexts, RunContext,
              BusPhysics, SampleGap, OwnerHeld, OwnerNone, LoneSample
<1>6. CASE Reconnect
  BY <1>6 DEF Reconnect, TypeOK, BusPhysics, SampleGap, OwnerHeld, OwnerNone,
              LoneSample
<1>7. CASE UNCHANGED vars
  BY <1>7 DEF vars, TypeOK, BusPhysics, SampleGap, OwnerHeld, OwnerNone,
              LoneSample
<1> QED
  BY <1>1, <1>2, <1>3, <1>4, <1>5, <1>6, <1>7 DEF Next

-------------------------------------------------------------------------------
\* As long as no engine changes twice between two ticks, BusInv always holds.
THEOREM BusInvariant == FlickerFree => (Spec => []BusInv)
<1> SUFFICES ASSUME FlickerFree PROVE Spec => []BusInv
  OBVIOUS
<1>1. Init => BusInv
  BY InitBusInv
<1>2. BusInv /\ [Next]_vars => BusInv'
  BY NextBusInv
<1> QED
  BY <1>1, <1>2, PTL DEF Spec

\* REQ-BUS-02, -04, -05 for any number of generators: the tracker never names
\* an engine that does not hold the bus.
THEOREM OwnerIsSound == FlickerFree => (Spec => []OwnerSound)
<1>1. BusInv => OwnerSound
  BY SlotAssumption
     DEF BusInv, OwnerSound, OwnerHeld, OwnerNone, SampleGap, BusPhysics,
         TypeOK, Owner
<1> QED
  BY <1>1, BusInvariant, PTL

\* REQ-BUS-06 for any number of generators.
THEOREM OwnerRestsOnHistory == FlickerFree => (Spec => []OwnerNeedsHistory)
<1>1. BusInv => OwnerNeedsHistory
  BY DEF BusInv, OwnerHeld, OwnerNeedsHistory
<1> QED
  BY <1>1, BusInvariant, PTL

\* The engine that feeds the house is never reported free of load.
THEOREM FeedingEngineIsNotFree ==
  FlickerFree => (Spec => []FeedingEngineNeverFree)
<1>1. BusInv => FeedingEngineNeverFree
  BY SlotAssumption
     DEF BusInv, FeedingEngineNeverFree, LoadConnected, Reads, OwnerHeld,
         TypeOK
<1> QED
  BY <1>1, BusInvariant, PTL

\* REQ-BUS-05: a single running engine is named at the first full sample.
THEOREM LoneEngineIsNamed == FlickerFree => (Spec => []LoneEngineOwns)
<1>1. BusInv => LoneEngineOwns
  <2> SUFFICES ASSUME BusInv, history, changed = {}, NEW s \in Slots, running = {s}
               PROVE  owner = s
    BY DEF LoneEngineOwns
  <2>1. previousRunning = {s}
    BY DEF BusInv, SampleGap, TypeOK
  <2> QED
    BY <2>1 DEF BusInv, LoneSample
<1> QED
  BY <1>1, BusInvariant, PTL

\* The reason of an unbroken run is never revised.  This needs no assumption
\* on how often the engines change.
THEOREM ContextIsSticky == Spec => ContextSticky
<1>1. ASSUME TypeOK, [Next]_vars, history, history',
             NEW s \in previousRunning \cap previousRunning'
      PROVE  runContexts'[s] = runContexts[s]
  <2> USE <1>1
  <2>1. CASE AnyTick
    <3>1. PICK gridReady \in Tri, testMode \in Tri, managed \in Slots \cup {NoOwner},
               managedOutage \in BOOLEAN, internalTests \in SUBSET Slots :
            Tick(gridReady, testMode, managed, managedOutage, internalTests)
      BY <2>1 DEF AnyTick
    <3>2. s \in running /\ s \in Slots
      BY <3>1 DEF Tick, TypeOK
    <3>3. NextContext(s, gridReady, testMode, managed, managedOutage, internalTests)
            = runContexts[s]
      BY <3>2 DEF NextContext
    <3> QED
      BY <3>1, <3>2, <3>3 DEF Tick
  <2>2. CASE UnknownTick \/ Gap
    BY <2>2 DEF UnknownTick, Gap, Invalidate
  <2>3. CASE Reconnect \/ UNCHANGED vars
    BY <2>3 DEF Reconnect, vars
  <2>4. ASSUME NEW e \in Slots, EngineStarts(e) \/ EngineStops(e)
        PROVE  runContexts' = runContexts
    BY <2>4 DEF EngineStarts, EngineStops
  <2> QED
    BY <2>1, <2>2, <2>3, <2>4 DEF Next
<1>2. TypeOK /\ [Next]_vars =>
        (history /\ history' =>
           \A s \in previousRunning \cap previousRunning' :
             runContexts'[s] = runContexts[s])
  BY <1>1
<1>3. Spec => []TypeOK
  BY SpecTypes
<1> QED
  BY <1>2, <1>3, PTL DEF Spec, ContextSticky
===============================================================================
