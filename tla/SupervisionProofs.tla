---------------------------- MODULE SupervisionProofs ----------------------------
(***************************************************************************)
(* What holds of Supervision for every delay, every set of configured      *)
(* generators, every observation and every intent: the types, and what the *)
(* supervisor promises about engines, stops and returns.                   *)
(*                                                                         *)
(* SupervisorInvariant is inductive.  It adds to the properties that the   *)
(* supervisor and its session fit together (Kept), that a stop in force is *)
(* remembered also while there is no session, and that no time of the      *)
(* stable grid has a gap.  What an operator of the supervisor does to it   *)
(* is in EnergySupervisorProofs; a step of the application uses only that. *)
(***************************************************************************)
EXTENDS Supervision, EnergySupervisorProofs

SupervisorInvariant ==
  /\ Kept(s)
  /\ orders \subseteq GeneratorSlot /\ OneEngineOrdered
  /\ userWord \in {"none", "start", "stop"}
  /\ userWord = "stop" => Minds(s)
  /\ owes \in BOOLEAN
  /\ owes => s.restorePending
  /\ acquired \in {"none", "stopped", "exercise"}
  /\ gap \in {"none", "reset"}

\* A program that has never run.
LEMMA InitInvariant == Init => SupervisorInvariant
<1> SUFFICES ASSUME Init PROVE SupervisorInvariant
  OBVIOUS
<1>1. Kept(s) /\ ~HasSession(s)
  BY NewSupervisorKept DEF Init
<1> QED
  BY <1>1 DEF Init, SupervisorInvariant, OneEngineOrdered

-------------------------------------------------------------------------------
(***************************************************************************)
(* The commands as they arrive.                                            *)
(***************************************************************************)

\* A step in which the session, the memory and the orders are left alone.
LEMMA CarriedInvariant ==
  ASSUME SupervisorInvariant, Carries(s, s'),
         orders' \in {orders, {}}, gap' \in {"none", "reset"},
         UNCHANGED <<userWord, owes, acquired>>
  PROVE  SupervisorInvariant'
<1>1. HasSession(s)' <=> HasSession(s)
  BY DEF Carries, HasSession
<1>2. Slot(s)' = Slot(s)
  BY DEF Carries, Slot
<1>3. OneEngineOrdered'
  BY <1>1, <1>2 DEF SupervisorInvariant, OneEngineOrdered
<1>4. userWord' = "stop" => Minds(s)'
  BY <1>1 DEF SupervisorInvariant, Minds, Carries
<1> QED
  BY <1>3, <1>4 DEF SupervisorInvariant, Carries

\* A request of the user is noted.
LEMMA RequestsCarry ==
  ASSUME Kept(s)
  PROVE  /\ RequestManualStart \/ RequestManualStop \/ RequestRecoveryReset =>
              /\ Carries(s, s') /\ s'.phase = s.phase
              /\ s'.desiredSource = s.desiredSource
<1>1. ASSUME NEW v \in {[s EXCEPT !.wantStart = TRUE], [s EXCEPT !.wantStop = TRUE],
                        [s EXCEPT !.wantReset = TRUE]}
      PROVE  /\ v \in Supervisor /\ v.session = s.session /\ v.desired = s.desired
             /\ v.suppressed = s.suppressed /\ v.restorePending = s.restorePending
             /\ v.phase = s.phase /\ v.desiredSource = s.desiredSource
  BY <1>1 DEF Kept, Supervisor
<1>2. RequestManualStart \/ RequestManualStop \/ RequestRecoveryReset =>
        s' \in {[s EXCEPT !.wantStart = TRUE], [s EXCEPT !.wantStop = TRUE],
                [s EXCEPT !.wantReset = TRUE]}
  BY DEF RequestManualStart, RequestManualStop, RequestRecoveryReset
<1> QED
  BY <1>1, <1>2, CarriesWhenSet

-------------------------------------------------------------------------------
(***************************************************************************)
(* A tick.                                                                 *)
(***************************************************************************)

\* What is left of the step of a tick when a shutdown may have failed.
LEMMA TickSteps ==
  ASSUME SupervisorInvariant, NEW o \in Observations, NEW c \in IntentSet,
         s' \in {Step(Elapse(s), o, c), RequireRecovery(Step(Elapse(s), o, c))}
  PROVE  LET before == Elapse(s)
             after == Step(before, o, c)
         IN  /\ Kept(before) /\ SameCharge(s, before)
             /\ Kept(s') /\ Steps(before, after, o, c) /\ Steps(before, s', o, c)
             /\ s'.session = after.session /\ s'.readyFor = after.readyFor
             /\ s'.phase \in {after.phase, "recovery_required"}
             /\ s'.desiredSource = after.desiredSource
<1> DEFINE before == Elapse(s)
           after == Step(before, o, c)
           failed == RequireRecovery(after)
<1>1. o \in Observation /\ c \in Intents
  BY SupervisionAssumption
<1>2. Kept(before) /\ SameCharge(s, before)
  BY ElapseKeeps DEF SupervisorInvariant
<1> HIDE DEF before
<1>3. Steps(before, after, o, c)
  BY <1>1, <1>2, StepSteps
<1>4. s' \in {after, failed}
  BY DEF before
<1> HIDE DEF after
<1>5. Kept(after)
  BY <1>3 DEF Steps
<1>6. /\ Goes(after, failed, o) /\ failed.phase = "recovery_required"
      /\ failed.session = after.session
      /\ failed.desiredSource = after.desiredSource
  BY <1>5, RequireRecoveryGoes
<1> HIDE DEF failed
<1>7. /\ Kept(failed) /\ Same(after, failed) /\ SameDebts(after, failed)
  BY <1>6 DEF Goes
<1>8. HasSession(failed) <=> HasSession(after)
  BY <1>6 DEF HasSession
<1>9. Steps(before, failed, o, c)
  <2>1. SameEngine(before, after, o) => SameEngine(before, failed, o)
    BY <1>6 DEF SameEngine, Slot
  <2>2. FromRest(after, o, c) => FromRest(failed, o, c)
    BY <1>6, <1>7 DEF FromRest, Slot, SameDebts
  <2>3. Minds(after) => Minds(failed)
    BY <1>6, <1>7, <1>8 DEF Minds, SameDebts
  <2> QED
    BY <1>3, <1>6, <1>7, <1>8, <2>1, <2>2, <2>3 DEF Steps, Same, SameDebts
<1> QED
  BY <1>2, <1>3, <1>4, <1>5, <1>6, <1>7, <1>9 DEF Same, before, after

\* What the history calls heeded is what the supervisor heeds.
LEMMA HeededMeans ==
  ASSUME SupervisorInvariant, NEW o, NEW c
  PROVE  /\ "stop" \in Heeded(o, c) <=> StopHeeded(Elapse(s), o, c)
         /\ "start" \in Heeded(o, c) <=> Restarted(Elapse(s), o, c)
         /\ Heeded(o, c) \subseteq {"start", "stop"}
<1> DEFINE before == Elapse(s)
           u == Prelude(before, o)
           session == HasSession(AfterStart(u, o, c))
<1>1. Kept(before) /\ SameCharge(s, before)
  BY ElapseKeeps DEF SupervisorInvariant
<1>2. SameCharge(before, u)
  BY <1>1, PreludeKeeps
<1>3. /\ StopHeeded(before, o, c) <=> Attends(u, o) /\ s.wantStop /\ session
      /\ Restarted(before, o, c) <=>
           /\ Attends(u, o) /\ s.wantStart /\ session
           /\ s.session.reason # "manual_generator_start"
  BY <1>1, <1>2 DEF StopHeeded, Restarted, StartHeeded, SameCharge
<1>4. Heeded(o, c) =
        IF ~s.wantStart /\ ~s.wantStop THEN {}
        ELSE IF Attends(u, o) /\ session
        THEN (IF s.wantStart /\ s.session.reason # "manual_generator_start"
              THEN {"start"} ELSE {})
               \cup (IF s.wantStop THEN {"stop"} ELSE {})
        ELSE {}
  BY DEF Heeded
<1> HIDE DEF before, u, session
<1> QED
  BY <1>3, <1>4 DEF before

\* A tick without a reset keeps the invariant.
LEMMA NormalTickInvariant ==
  SupervisorInvariant /\ NormalTick => SupervisorInvariant'
<1> SUFFICES ASSUME SupervisorInvariant, NormalTick
             PROVE  SupervisorInvariant'
  OBVIOUS
<1>1. PICK o \in Observations, c \in IntentSet :
        \E after \in {Step(Elapse(s), o, c)}, heeded \in {Heeded(o, c)} :
             /\ \/ s' = after
                \/ ShutdownMayFail(after, c) /\ s' = RequireRecovery(after)
             /\ orders' = Ordered(after, o, c)
             /\ userWord' = WordAfter(heeded, after, o)
             /\ owes' = \/ "stop" \in heeded /\ o.grid = "no"
                        \/ owes /\ (HasSession(s) \/ ~GridPath(o))
             /\ acquired' = AcquiredAfter(after, o, c)
             /\ gap' = GapAfter(after, o, "unseen")
  BY DEF NormalTick
<1> DEFINE before == Elapse(s)
           after == Step(before, o, c)
           heeded == Heeded(o, c)
<1>2. /\ s' \in {after, RequireRecovery(after)}
      /\ orders' = Ordered(after, o, c)
      /\ userWord' = WordAfter(heeded, after, o)
      /\ owes' = \/ "stop" \in heeded /\ o.grid = "no"
                 \/ owes /\ (HasSession(s) \/ ~GridPath(o))
      /\ acquired' = AcquiredAfter(after, o, c)
      /\ gap' = GapAfter(after, o, "unseen")
  BY <1>1
<1>3. /\ Kept(before) /\ SameCharge(s, before)
      /\ Kept(s') /\ Steps(before, after, o, c) /\ Steps(before, s', o, c)
      /\ s'.session = after.session /\ s'.readyFor = after.readyFor
  BY <1>2, TickSteps
<1>4. /\ "stop" \in heeded <=> StopHeeded(before, o, c)
      /\ "start" \in heeded <=> Restarted(before, o, c)
      /\ heeded \subseteq {"start", "stop"}
  BY HeededMeans
<1> HIDE DEF before, after, heeded
<1>5. /\ HasSession(before) <=> HasSession(s)
      /\ Minds(s) <=> Minds(before)
      /\ Slot(before) = Slot(s)
  BY <1>3 DEF SameCharge, HasSession, Minds, Slot
<1>6. /\ HasSession(s)' <=> HasSession(after)
      /\ Slot(s)' = Slot(after)
  BY <1>3 DEF HasSession, Slot
<1>7. orders' \subseteq GeneratorSlot /\ OneEngineOrdered'
  <2>1. Kept(after) /\ c \in Intents
    BY <1>3, SupervisionAssumption DEF Steps
  <2> QED
    BY <1>2, <1>6, <2>1, OrderedFits DEF OneEngineOrdered
<1>8. userWord' \in {"none", "start", "stop"}
  BY <1>2 DEF WordAfter, SupervisorInvariant
<1>9. ASSUME userWord' = "stop" PROVE Minds(s)'
  <2>1. \/ "stop" \in heeded /\ o.grid = "no"
        \/ /\ userWord = "stop" /\ heeded = {} /\ o.grid # "yes"
    <3>1. CASE "stop" \in heeded
      BY <1>2, <1>9, <3>1 DEF WordAfter
    <3>2. CASE heeded = {"start"}
      BY <1>2, <1>9, <3>2 DEF WordAfter
    <3>3. CASE "stop" \notin heeded /\ heeded # {"start"}
      <4>1. heeded = {}
        BY <1>4, <3>3
      <4> QED
        BY <1>2, <1>9, <3>3, <4>1 DEF WordAfter
    <3> QED
      BY <3>1, <3>2, <3>3
  <2>2. Minds(s')
    BY <1>3, <1>4, <1>5, <2>1 DEF Steps, SupervisorInvariant
  <2> QED
    BY <2>2 DEF Minds, HasSession
<1>10. owes' \in BOOLEAN /\ (owes' => s'.restorePending)
  BY <1>2, <1>3, <1>4, <1>5 DEF Steps, SupervisorInvariant, SameCharge
<1>11. acquired' \in {"none", "stopped", "exercise"}
  <2>1. CASE HasSession(after) /\ Slot(after) # Slot(s) /\ Slot(after) \in ActiveSlots(o)
    <3>1. ~HasSession(s)
      BY <1>3, <1>5, <2>1 DEF Steps, SameEngine
    <3>2. FromRest(after, o, c)
      BY <1>3, <1>5, <2>1, <3>1 DEF Steps
    <3> QED
      BY <1>2, <2>1, <3>2 DEF AcquiredAfter, FromRest
  <2>2. CASE ~(HasSession(after) /\ Slot(after) # Slot(s)
               /\ Slot(after) \in ActiveSlots(o))
    BY <1>2, <2>2 DEF AcquiredAfter, SupervisorInvariant
  <2> QED
    BY <2>1, <2>2
<1>12. gap' \in {"none", "reset"}
  <2>1. o.grid # "yes" => after.readyFor = NoTimer
    BY <1>3 DEF Steps
  <2>2. CASE s.readyFor = NoTimer \/ after.readyFor = NoTimer
    BY <1>2, <2>2 DEF GapAfter
  <2>3. CASE s.readyFor # NoTimer /\ after.readyFor # NoTimer
    BY <1>2, <2>1, <2>3 DEF GapAfter, SupervisorInvariant
  <2> QED
    BY <2>2, <2>3
<1>13. Kept(s)'
  BY <1>3 DEF Kept, HasSession, Slot
<1> QED
  BY <1>7, <1>8, <1>9, <1>10, <1>11, <1>12, <1>13 DEF SupervisorInvariant

\* A tick of a reset: the session goes on as it is, or the reset is complete.
LEMMA ResetTickCarries ==
  ASSUME SupervisorInvariant, ResetTick
  PROVE  /\ \/ Carries(s, s') /\ owes' = owes
            \/ /\ Kept(s') /\ ~HasSession(s') /\ s'.suppressed = s.suppressed
               /\ owes' = FALSE
         /\ gap' \in {"none", "reset"}
<1>1. PICK o \in Observations, c \in IntentSet, blocked \in BOOLEAN,
           confirmed \in BOOLEAN :
        /\ \E r \in {RecoveryStep(Elapse(s), o, c, blocked, confirmed)} :
             \/ s' \in ResetGoesOn(r) /\ owes' = owes
             \/ /\ r.directive = "complete"
                /\ s' = CompleteReset(r.s)
                /\ owes' = FALSE
        /\ gap' = GapAfter(s', o, "reset")
  BY DEF ResetTick
<1> DEFINE before == Elapse(s)
           r == RecoveryStep(before, o, c, blocked, confirmed)
<1>2. Kept(before) /\ SameCharge(s, before)
  BY ElapseKeeps DEF SupervisorInvariant
<1>3. Carries(s, before)
  BY <1>2 DEF SameCharge, Carries
<1>4. \/ s' \in ResetGoesOn(r) /\ owes' = owes
      \/ s' = CompleteReset(r.s) /\ owes' = FALSE
  BY <1>1
<1> HIDE DEF before
<1>5. Carries(before, r.s)
  BY <1>2, RecoveryStepCarries
<1> HIDE DEF r
<1>6. Carries(s, r.s)
  BY <1>3, <1>5, CarriesTransitive
<1>7. CASE s' \in ResetGoesOn(r) /\ owes' = owes
  <2>1. s' \in {r.s, FailReset(r.s)}
    BY <1>7 DEF ResetGoesOn
  <2>2. Carries(r.s, FailReset(r.s))
    BY <1>6, ResetCarries DEF Carries
  <2>3. Carries(s, s')
    BY <1>6, <2>1, <2>2, CarriesTransitive
  <2> QED
    BY <1>1, <1>7, <2>3 DEF GapAfter, SupervisorInvariant
<1>8. CASE s' = CompleteReset(r.s) /\ owes' = FALSE
  <2>1. Kept(s') /\ ~HasSession(s') /\ s'.suppressed = s.suppressed
    BY <1>6, <1>8, CompleteResetEnds DEF Carries
  <2> QED
    BY <1>1, <1>8, <2>1 DEF GapAfter, SupervisorInvariant
<1> QED
  BY <1>4, <1>7, <1>8

\* A tick of a reset keeps the invariant.
LEMMA ResetTickInvariant ==
  SupervisorInvariant /\ ResetTick => SupervisorInvariant'
<1> SUFFICES ASSUME SupervisorInvariant, ResetTick
             PROVE  SupervisorInvariant'
  OBVIOUS
<1>1. /\ \/ Carries(s, s') /\ owes' = owes
         \/ /\ Kept(s') /\ ~HasSession(s') /\ s'.suppressed = s.suppressed
            /\ owes' = FALSE
      /\ gap' \in {"none", "reset"}
  BY ResetTickCarries
<1>2. /\ acquired' \in {"none", "stopped", "exercise"} /\ orders' = {}
      /\ userWord' = userWord
  BY DEF ResetTick, SupervisorInvariant
<1>3. Kept(s') /\ s'.suppressed = s.suppressed
  BY <1>1 DEF Carries
<1>4. userWord' = "stop" => Minds(s')
  <2>1. Carries(s, s') => (Minds(s) => Minds(s'))
    BY DEF Carries, Minds, HasSession
  <2>2. ~HasSession(s') /\ s'.suppressed = s.suppressed => (Minds(s) => Minds(s'))
    BY DEF Minds
  <2> QED
    BY <1>1, <1>2, <2>1, <2>2 DEF SupervisorInvariant
<1>5. Kept(s)' /\ (userWord' = "stop" => Minds(s)')
  BY <1>3, <1>4 DEF Kept, Minds, HasSession, Slot
<1>6. owes' \in BOOLEAN /\ (owes' => s'.restorePending)
  <2>1. CASE Carries(s, s') /\ owes' = owes
    BY <2>1 DEF Carries, SupervisorInvariant
  <2>2. CASE owes' = FALSE
    BY <2>2
  <2> QED
    BY <1>1, <2>1, <2>2
<1> QED
  BY <1>1, <1>2, <1>5, <1>6 DEF SupervisorInvariant, OneEngineOrdered

-------------------------------------------------------------------------------
(***************************************************************************)
(* The connection, the process, and all of it.                             *)
(***************************************************************************)

\* The connection breaks: the supervisor is as it was, or waits for a technician,
\* and its timers start anew.
LEMMA DisconnectCarries ==
  ASSUME Kept(s), Disconnect
  PROVE  /\ Carries(s, s') /\ s'.desiredSource = s.desiredSource
         /\ s'.phase \in {s.phase, "recovery_required"}
         /\ gap' = "none"
<1> DEFINE lost == MarkConnectionLost(s)
           v == [lost EXCEPT !.readyFor = NoTimer, !.failedFor = NoTimer]
<1>1. s' = v
  BY DEF Disconnect
<1>2. /\ Carries(s, lost) /\ lost.desiredSource = s.desiredSource
      /\ lost.phase \in {s.phase, "recovery_required"}
  BY MarkConnectionLostCarries
<1> HIDE DEF lost
<1>3. NoTimer \in NoTimer..StableTime /\ NoTimer \in NoTimer..FailureDelay
  BY SupervisorAssumption DEF NoTimer
<1>4. /\ v \in Supervisor /\ v.session = lost.session /\ v.desired = lost.desired
      /\ v.suppressed = lost.suppressed /\ v.restorePending = lost.restorePending
      /\ v.phase = lost.phase /\ v.desiredSource = lost.desiredSource
      /\ v.readyFor = NoTimer
  BY <1>2, <1>3 DEF Carries, Kept, Supervisor
<1> HIDE DEF v
<1>5. Carries(lost, v)
  BY <1>2, <1>4, CarriesWhenSet DEF Carries
<1>6. Carries(s, v)
  BY <1>2, <1>5, CarriesTransitive
<1>7. gap' = "none"
  BY <1>1, <1>4 DEF Disconnect
<1> QED
  BY <1>1, <1>2, <1>4, <1>6, <1>7

\* The process starts anew: the session and the memory are those of the file.
LEMMA RestartCarries ==
  ASSUME Kept(s), Restart
  PROVE  /\ Carries(s, s') /\ s'.desiredSource = Nobody
         /\ s'.phase \in {s.phase, "recovery_required"}
         /\ gap' = "none"
<1> DEFINE v == Restored(s)
           w == RequireRecovery(v)
<1>1. s' \in {v, w}
  BY DEF Restart
<1>2. /\ Carries(s, v) /\ v.phase = s.phase /\ v.desiredSource = Nobody
      /\ v.readyFor = NoTimer
  BY RestoredCarries
<1> HIDE DEF v
<1>3. /\ \A o : Goes(v, w, o)
      /\ w.phase = "recovery_required" /\ w.session = v.session
      /\ w.desiredSource = v.desiredSource
  BY <1>2, RequireRecoveryGoes DEF Carries
<1> HIDE DEF w
<1>4. Carries(v, w) /\ w.readyFor = NoTimer
  BY <1>2, <1>3 DEF Goes, Same, SameDebts, Carries
<1>5. Carries(s, w)
  BY <1>2, <1>4, CarriesTransitive
<1>6. gap' = "none"
  BY <1>1, <1>2, <1>4 DEF Restart
<1> QED
  BY <1>1, <1>2, <1>3, <1>5, <1>6

\* Every step keeps the invariant.
LEMMA NextInvariant ==
  SupervisorInvariant /\ [Next]_vars => SupervisorInvariant'
<1> SUFFICES ASSUME SupervisorInvariant, [Next]_vars
             PROVE  SupervisorInvariant'
  OBVIOUS
<1>1. Kept(s) /\ gap \in {"none", "reset"}
  BY DEF SupervisorInvariant
<1>2. CASE RequestManualStart \/ RequestManualStop \/ RequestRecoveryReset
  <2>1. Carries(s, s')
    BY <1>1, <1>2, RequestsCarry
  <2>2. UNCHANGED <<orders, userWord, owes, acquired, gap>>
    BY <1>2 DEF RequestManualStart, RequestManualStop, RequestRecoveryReset, history
  <2> QED
    BY <1>1, <2>1, <2>2, CarriedInvariant
<1>3. CASE NormalTick
  BY <1>3, NormalTickInvariant
<1>4. CASE ResetTick
  BY <1>4, ResetTickInvariant
<1>5. CASE Disconnect
  <2>1. orders' = {} /\ UNCHANGED <<userWord, owes, acquired>>
    BY <1>5 DEF Disconnect
  <2> QED
    BY <1>1, <1>5, <2>1, DisconnectCarries, CarriedInvariant
<1>6. CASE Restart
  <2>1. orders' = {} /\ UNCHANGED <<userWord, owes, acquired>>
    BY <1>6 DEF Restart
  <2> QED
    BY <1>1, <1>6, <2>1, RestartCarries, CarriedInvariant
<1>7. CASE UNCHANGED vars
  BY <1>7 DEF vars, SupervisorInvariant, Kept, HasSession, Slot, OneEngineOrdered, Minds
<1> QED
  BY <1>2, <1>3, <1>4, <1>5, <1>6, <1>7 DEF Next

\* The invariant holds in every state, whatever is observed and intended.
THEOREM SupervisorInvariantHolds == Spec => []SupervisorInvariant
<1> QED
  BY InitInvariant, NextInvariant, PTL DEF Spec

-------------------------------------------------------------------------------
(***************************************************************************)
(* The properties.                                                         *)
(***************************************************************************)

\* The variables have their types, for every delay and every observation.
THEOREM SpecTypes == Spec => []TypeOK
<1>1. SupervisorInvariant => TypeOK
  BY DEF SupervisorInvariant, TypeOK, Kept
<1> QED
  BY <1>1, SupervisorInvariantHolds, PTL

\* Two engines are never told to run at once, and beside the engine of a session
\* none is, whatever the house does and whoever else wants an engine.
THEOREM SpecOrdersOneEngine == Spec => []OneEngineOrdered
<1>1. SupervisorInvariant => OneEngineOrdered
  BY DEF SupervisorInvariant
<1> QED
  BY <1>1, SupervisorInvariantHolds, PTL

\* The engine of a session was at rest when the session took it, or was handed
\* over by an exercise: none that somebody else runs is seized.
THEOREM SpecSeizesNoEngine == Spec => []EnginesAreNotSeized
<1>1. SupervisorInvariant => EnginesAreNotSeized
  BY DEF SupervisorInvariant, EnginesAreNotSeized
<1> QED
  BY <1>1, SupervisorInvariantHolds, PTL

\* What a manual stop in an outage leaves behind survives failures, later
\* sessions, resets, lost connections and restarts.
THEOREM SpecRemembersStops == Spec => []StopIsRemembered
<1>1. SupervisorInvariant => StopIsRemembered
  BY DEF SupervisorInvariant, StopIsRemembered, UserStopHolds, RestoreIsRemembered,
         Minds
<1> QED
  BY <1>1, SupervisorInvariantHolds, PTL

\* What every step other than a tick leaves of the session, the phase and the
\* source; and the session of a tick.
LEMMA OtherSteps ==
  ASSUME SupervisorInvariant, Next, ~NormalTick
  PROVE  /\ HasSession(s') => s'.session = s.session
         /\ \/ ResetTick
            \/ /\ s'.session = s.session
               /\ s'.phase \in {s.phase, "recovery_required"}
               /\ s'.desiredSource \in {s.desiredSource, Nobody}
<1>1. Kept(s)
  BY DEF SupervisorInvariant
<1>2. CASE RequestManualStart \/ RequestManualStop \/ RequestRecoveryReset
  BY <1>1, <1>2, RequestsCarry DEF Carries
<1>3. CASE ResetTick
  BY <1>3, ResetTickCarries DEF Carries
<1>4. CASE Disconnect
  BY <1>1, <1>4, DisconnectCarries DEF Carries
<1>5. CASE Restart
  BY <1>1, <1>5, RestartCarries DEF Carries
<1> QED
  BY <1>2, <1>3, <1>4, <1>5 DEF Next

\* What a tick without a reset has observed.
LEMMA TickObserved ==
  ASSUME SupervisorInvariant, NormalTick
  PROVE  \E o \in Observations, c \in IntentSet :
            LET before == Elapse(s)
            IN  Kept(before) /\ SameCharge(s, before) /\ Steps(before, s', o, c)
<1>1. PICK o \in Observations, c \in IntentSet :
        s' \in {Step(Elapse(s), o, c), RequireRecovery(Step(Elapse(s), o, c))}
  BY DEF NormalTick
<1> QED
  BY <1>1, TickSteps

\* A session changes its engine at most once: a second change would need a mark
\* that the first one has used up.
THEOREM SpecFallsBackOnce == Spec => SingleFallback
<1> DEFINE Once == HasSession(s) /\ HasSession(s)' /\ Slot(s)' # Slot(s) =>
                     ~s.session.fallbackUsed /\ s'.session.fallbackUsed
<1>1. ASSUME SupervisorInvariant, NormalTick
      PROVE  Once
  <2>1. PICK o \in Observations, c \in IntentSet :
          SameCharge(s, Elapse(s)) /\ Steps(Elapse(s), s', o, c)
    BY <1>1, TickObserved
  <2> DEFINE before == Elapse(s)
  <2>2. SameCharge(s, before) /\ Steps(before, s', o, c)
    BY <2>1
  <2> HIDE DEF before
  <2>3. HasSession(s) /\ HasSession(s') => SameEngine(before, s', o)
    BY <2>2 DEF Steps, SameCharge, HasSession
  <2> QED
    BY <2>2, <2>3 DEF SameEngine, SameCharge, Slot, HasSession
<1>2. ASSUME SupervisorInvariant, Next, ~NormalTick
      PROVE  Once
  BY <1>2, OtherSteps DEF HasSession, Slot
<1>3. SupervisorInvariant /\ [Next]_vars => [Once]_vars
  BY <1>1, <1>2
<1> HIDE DEF Once
<1>4. Spec => [][Once]_vars
  BY <1>3, SupervisorInvariantHolds, PTL DEF Spec
<1> QED
  BY <1>4 DEF SingleFallback, Once

\* A return to the grid that the user did not ask for finds the grid stable, and
\* the stable time without a gap that no tick has seen.
THEOREM SpecReturnsToStableGrid == Spec => ReturnNeedsObservedGrid
<1> DEFINE Observed == ReturnBegins => GridStable(s') /\ gap' # "unseen"
<1>1. ASSUME SupervisorInvariant, NormalTick, ReturnBegins
      PROVE  GridStable(s')
  <2>1. PICK o \in Observations, c \in IntentSet :
          SameCharge(s, Elapse(s)) /\ Steps(Elapse(s), s', o, c)
    BY <1>1, TickObserved
  <2> DEFINE before == Elapse(s)
  <2>2. SameCharge(s, before) /\ Steps(before, s', o, c)
    BY <2>1
  <2> HIDE DEF before
  <2>3. CASE s.phase # "returning_to_grid" /\ s'.phase = "returning_to_grid"
    BY <1>1, <2>2, <2>3 DEF Steps, SameCharge, ReturnBegins
  <2>4. CASE /\ ~HasSession(s') /\ s.desiredSource # "grid"
             /\ s'.desiredSource = "grid"
    BY <1>1, <2>2, <2>4 DEF Steps, SameCharge, ReturnBegins
  <2> QED
    BY <1>1, <2>3, <2>4 DEF ReturnBegins, HasSession
<1>2. ASSUME SupervisorInvariant, Next, ~NormalTick
      PROVE  ~ReturnBegins
  <2>1. ResetTick => s.wantReset \/ s.resetActive
    BY DEF ResetTick
  <2> QED
    BY <1>2, <2>1, OtherSteps DEF ReturnBegins, Nobody
<1>3. SupervisorInvariant' => gap' # "unseen"
  BY DEF SupervisorInvariant
<1>4. SupervisorInvariant /\ SupervisorInvariant' /\ [Next]_vars => [Observed]_vars
  BY <1>1, <1>2, <1>3
<1> HIDE DEF Observed
<1>5. Spec => [][Observed]_vars
  BY <1>4, SupervisorInvariantHolds, PTL DEF Spec
<1> QED
  BY <1>5 DEF ReturnNeedsObservedGrid, Observed
=================================================================================
