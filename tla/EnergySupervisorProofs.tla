------------------------ MODULE EnergySupervisorProofs ------------------------
(***************************************************************************)
(* What the operators of EnergySupervisor keep, for every configuration,   *)
(* every observation and every intent.                                     *)
(*                                                                         *)
(* A supervisor that is Kept orders no engine but that of its session, and *)
(* its charge cycle owns no session of the user.  Goes says what the step  *)
(* of a session may make of it: it goes on as it was, perhaps on the other *)
(* engine, once, or it is over.  Goes is transitive, so the branches of a  *)
(* step are put together from a few elementary updates.                    *)
(***************************************************************************)
EXTENDS EnergySupervisor, TLAPS

\* A supervisor and its session fit together.
Kept(s) ==
  /\ s \in Supervisor
  /\ HasSession(s) => s.desired \subseteq {Slot(s)}
  /\ ~HasSession(s) => s.desired = {}
  /\ s.session.cycleOwned =>
       s.session.reason = "grid_outage" /\ ~s.session.manualOverride

\* What neither a session nor the lack of one has a hand in.
Same(s, v) ==
  /\ v.readyFor = s.readyFor /\ v.initialized = s.initialized
  /\ v.wantStart = s.wantStart /\ v.wantStop = s.wantStop
  /\ v.wantReset = s.wantReset

\* What a manual stop leaves behind is as it was, and so is the directive.
SameDebts(s, v) ==
  /\ v.suppressed = s.suppressed /\ v.restorePending = s.restorePending
  /\ v.directive = s.directive

\* The session belongs to whom it belonged.
SameOwner(s, v) ==
  /\ v.session.reason = s.session.reason
  /\ v.session.manualOverride = s.session.manualOverride
  /\ v.session.cycleOwned = s.session.cycleOwned

\* The session has its engine, or the other one, once, which was at rest.
SameEngine(s, v, o) ==
  \/ Slot(v) = Slot(s) /\ v.session.fallbackUsed = s.session.fallbackUsed
  \/ /\ ~s.session.fallbackUsed /\ v.session.fallbackUsed
     /\ Slot(v) \notin ActiveSlots(o)

\* The session is the same but for its engine and the takeover mark.
SameSession(s, v, o) ==
  /\ SameOwner(s, v) /\ SameEngine(s, v, o)
  /\ v.session.stopRequested = s.session.stopRequested

Goes(s, v, o) ==
  /\ Kept(v) /\ Same(s, v) /\ SameDebts(s, v)
  /\ HasSession(v) => HasSession(s) /\ SameSession(s, v, o)
  /\ v.phase = "returning_to_grid" =>
       s.phase = "returning_to_grid" /\ (HasSession(s) => HasSession(v))
  /\ ~HasSession(v) /\ v.desiredSource = "grid" =>
       ~HasSession(s) /\ s.desiredSource = "grid"

-------------------------------------------------------------------------------
(***************************************************************************)
(* Elementary updates.                                                     *)
(***************************************************************************)

\* A session has an engine.
LEMMA SessionTypes ==
  ASSUME NEW s, Kept(s)
  PROVE  /\ HasSession(s) => s.session \in GeneratorSession /\ Slot(s) \in GeneratorSlot
         /\ ~HasSession(s) => s.session = NoSession /\ Slot(s) = Nobody
         /\ NoSession \notin GeneratorSession
<1>1. NoSession \notin GeneratorSession
  BY DEF NoSession, NewSession, GeneratorSession, Nobody
<1>2. s.session \in GeneratorSession \cup {NoSession}
  BY DEF Kept, Supervisor
<1>3. NoSession.generator = Nobody
  BY DEF NoSession, NewSession
<1>4. \A session \in GeneratorSession : session.generator \in GeneratorSlot
  BY DEF GeneratorSession
<1> QED
  BY <1>1, <1>2, <1>3, <1>4 DEF HasSession, Slot

\* Nothing changes.
LEMMA GoesReflexive ==
  ASSUME NEW s, Kept(s), NEW o
  PROVE  Goes(s, s, o)
BY DEF Goes, Same, SameDebts, SameSession, SameOwner, SameEngine

\* One update after the other.
LEMMA GoesTransitive ==
  ASSUME NEW s, NEW u, NEW v, NEW o, Kept(s), Goes(s, u, o), Goes(u, v, o)
  PROVE  Goes(s, v, o)
<1>1. Kept(v) /\ Same(s, v) /\ SameDebts(s, v)
  BY DEF Goes, Same, SameDebts
<1>2. HasSession(v) => HasSession(s) /\ SameSession(s, v, o)
  BY DEF Goes, SameSession, SameOwner, SameEngine
<1> QED
  BY <1>1, <1>2 DEF Goes

\* An update of the other attributes of a session's supervisor.
LEMMA SetElsewhere ==
  ASSUME NEW s, Kept(s), NEW v \in Supervisor, NEW o,
         v.session = s.session, v.desired \subseteq s.desired,
         Same(s, v), SameDebts(s, v),
         v.phase = "returning_to_grid" => s.phase = "returning_to_grid",
         HasSession(s) \/ v.desiredSource \in {s.desiredSource, Nobody}
  PROVE  Goes(s, v, o)
<1>1. HasSession(v) <=> HasSession(s)
  BY DEF HasSession
<1>2. Slot(v) = Slot(s)
  BY DEF Slot
<1>3. Kept(v)
  BY <1>1, <1>2 DEF Kept
<1> QED
  BY <1>1, <1>2, <1>3 DEF Goes, SameSession, SameOwner, SameEngine, Nobody

\* The user's requests, the directive and the source apart: recovery.
LEMMA RequireRecoveryGoes ==
  ASSUME NEW s, Kept(s), NEW o
  PROVE  /\ Goes(s, RequireRecovery(s), o)
         /\ RequireRecovery(s).phase = "recovery_required"
         /\ RequireRecovery(s).session = s.session
         /\ RequireRecovery(s).failedFor = s.failedFor
         /\ RequireRecovery(s).desiredSource = s.desiredSource
<1>1. CASE s.phase = "recovery_required"
  BY <1>1, GoesReflexive DEF RequireRecovery
<1>2. CASE s.phase # "recovery_required"
  <2> DEFINE v == [s EXCEPT !.phase = "recovery_required", !.desired = {},
                            !.stopOutage = {}, !.resetActive = FALSE]
  <2>1. v \in Supervisor
    BY DEF Kept, Supervisor, SupervisorPhase
  <2>2. /\ v.session = s.session /\ v.desired = {} /\ v.phase = "recovery_required"
        /\ v.desiredSource = s.desiredSource /\ v.failedFor = s.failedFor
        /\ Same(s, v) /\ SameDebts(s, v)
    BY DEF Kept, Supervisor, Same, SameDebts
  <2>3. RequireRecovery(s) = v
    BY <1>2 DEF RequireRecovery
  <2> HIDE DEF v
  <2>4. Goes(s, v, o)
    BY <2>1, <2>2, SetElsewhere
  <2> QED
    BY <2>2, <2>3, <2>4
<1> QED
  BY <1>1, <1>2

\* The session is over.
LEMMA EndSessionGoes ==
  ASSUME NEW s, Kept(s), NEW o
  PROVE  /\ Goes(s, EndSession(s), o) /\ Goes(s, FinishSession(s), o)
         /\ ~HasSession(EndSession(s)) /\ ~HasSession(FinishSession(s))
         /\ EndSession(s).desiredSource = Nobody /\ FinishSession(s).desiredSource = Nobody
         /\ EndSession(s).phase = "normal" /\ FinishSession(s).phase = "normal"
<1> DEFINE u == EndSession(s)
           v == FinishSession(s)
<1>1. /\ u \in Supervisor /\ u.session = NoSession /\ u.desired = {}
      /\ u.desiredSource = Nobody /\ u.phase = "normal"
      /\ Same(s, u) /\ SameDebts(s, u)
  BY DEF EndSession, Kept, Supervisor, SupervisorPhase, Same, SameDebts
<1>2. v = [u EXCEPT !.failedFor = NoTimer]
  BY DEF FinishSession
<1> HIDE DEF u, v
<1>3. /\ v \in Supervisor /\ v.session = NoSession /\ v.desired = {}
      /\ v.desiredSource = Nobody /\ v.phase = "normal"
      /\ Same(s, v) /\ SameDebts(s, v)
  <2>1. NoTimer \in NoTimer..FailureDelay
    BY SupervisorAssumption DEF NoTimer
  <2> QED
    BY <1>1, <1>2, <2>1 DEF Supervisor, Same, SameDebts
<1>4. Kept(u) /\ Kept(v) /\ ~HasSession(u) /\ ~HasSession(v)
  BY <1>1, <1>3 DEF Kept, HasSession, NoSession, NewSession
<1> QED
  BY <1>1, <1>3, <1>4 DEF Goes, Nobody, u, v

\* The session's supervisor wants another source.
LEMMA SourceGoes ==
  ASSUME NEW s, Kept(s), HasSession(s), NEW o, NEW source \in PowerSource
  PROVE  LET v == [s EXCEPT !.desiredSource = source]
         IN  Goes(s, v, o) /\ HasSession(v) /\ v.phase = s.phase
<1> DEFINE v == [s EXCEPT !.desiredSource = source]
<1>1. /\ v \in Supervisor /\ v.session = s.session /\ v.desired = s.desired
      /\ v.phase = s.phase
      /\ Same(s, v) /\ SameDebts(s, v)
  BY DEF Kept, Supervisor, Same, SameDebts
<1> HIDE DEF v
<1>2. Goes(s, v, o)
  BY <1>1, SetElsewhere
<1> QED
  BY <1>1, <1>2 DEF v, HasSession

\* The session's supervisor is in another phase.
LEMMA PhaseGoes ==
  ASSUME NEW s, Kept(s), HasSession(s), NEW o,
         NEW phase \in SupervisorPhase \ {"returning_to_grid"}
  PROVE  LET v == [s EXCEPT !.phase = phase]
         IN  Goes(s, v, o) /\ HasSession(v) /\ v.phase = phase
<1> DEFINE v == [s EXCEPT !.phase = phase]
<1>1. /\ v \in Supervisor /\ v.session = s.session /\ v.desired = s.desired
      /\ v.phase = phase
      /\ Same(s, v) /\ SameDebts(s, v)
  BY DEF Kept, Supervisor, Same, SameDebts
<1> HIDE DEF v
<1>2. Goes(s, v, o)
  BY <1>1, SetElsewhere
<1> QED
  BY <1>1, <1>2 DEF v, HasSession

\* Both in one.
LEMMA RedirectGoes ==
  ASSUME NEW s, Kept(s), HasSession(s), NEW o, NEW source \in PowerSource,
         NEW phase \in SupervisorPhase \ {"returning_to_grid"}
  PROVE  LET v == [s EXCEPT !.desiredSource = source, !.phase = phase]
         IN  Goes(s, v, o) /\ HasSession(v) /\ v.phase = phase
<1> DEFINE v == [s EXCEPT !.desiredSource = source, !.phase = phase]
<1>1. /\ v \in Supervisor /\ v.session = s.session /\ v.desired = s.desired
      /\ v.phase = phase
      /\ Same(s, v) /\ SameDebts(s, v)
  BY DEF Kept, Supervisor, Same, SameDebts
<1> HIDE DEF v
<1>2. Goes(s, v, o)
  BY <1>1, SetElsewhere
<1> QED
  BY <1>1, <1>2 DEF v, HasSession

\* The session's engine is ordered to run, or not to.
LEMMA OrderGoes ==
  ASSUME NEW s, Kept(s), HasSession(s), NEW o, NEW run \in BOOLEAN
  PROVE  /\ Goes(s, Order(s, run), o)
         /\ Order(s, run).session = s.session
         /\ Order(s, run).phase = s.phase
         /\ ~run => Order(s, run).desired = {}
<1> DEFINE d == IF run THEN s.desired \cup {Slot(s)} ELSE s.desired \ {Slot(s)}
           v == Order(s, run)
<1>1. Slot(s) \in GeneratorSlot
  BY SessionTypes
<1>2. s.desired \subseteq {Slot(s)}
  BY DEF Kept
<1>3. v = [s EXCEPT !.desired = d]
  BY DEF Order
<1>4. d \subseteq {Slot(s)} /\ d \in SUBSET GeneratorSlot /\ (~run => d = {})
  BY <1>1, <1>2
<1> HIDE DEF d, v
<1>5. /\ v \in Supervisor /\ v.session = s.session /\ v.phase = s.phase
      /\ v.desiredSource = s.desiredSource /\ v.desired = d
      /\ Same(s, v) /\ SameDebts(s, v)
  BY <1>3, <1>4 DEF Kept, Supervisor, Same, SameDebts
<1>6. Kept(v)
  BY <1>4, <1>5 DEF Kept, HasSession, Slot
<1>7. Goes(s, v, o)
  BY <1>5, <1>6 DEF Goes, SameSession, SameOwner, SameEngine, HasSession, Slot
<1> QED
  BY <1>4, <1>5, <1>7 DEF v

\* Another engine carries the bus.
LEMMA YieldToGoes ==
  ASSUME NEW s, Kept(s), HasSession(s), NEW o, NEW run \in BOOLEAN
  PROVE  Goes(s, YieldTo(s, run), o) /\ HasSession(YieldTo(s, run))
<1> DEFINE u == Order(s, run)
           v == YieldTo(s, run)
<1>1. Goes(s, u, o) /\ u.session = s.session
  BY OrderGoes
<1>2. v = [u EXCEPT !.session = [@ EXCEPT !.externalTakeover = TRUE]]
  BY DEF YieldTo
<1> HIDE DEF u, v
<1>3. Kept(u) /\ u \in Supervisor /\ u.session \in GeneratorSession
  BY <1>1, SessionTypes DEF Goes, Kept
<1>4. /\ v.session = [u.session EXCEPT !.externalTakeover = TRUE]
      /\ v.desired = u.desired /\ v.phase = u.phase
      /\ v.desiredSource = u.desiredSource
      /\ Same(u, v) /\ SameDebts(u, v)
  BY <1>2, <1>3 DEF Supervisor, Same, SameDebts
<1>5. v.session \in GeneratorSession /\ SameSession(u, v, o)
  BY <1>3, <1>4 DEF GeneratorSession, SameSession, SameOwner, SameEngine, Slot
<1>6. v \in Supervisor
  BY <1>2, <1>3, <1>4, <1>5 DEF Supervisor
<1>7. HasSession(v) /\ HasSession(u)
  BY <1>3, <1>5, SessionTypes DEF HasSession
<1>8. Slot(v) = Slot(u)
  BY <1>3, <1>4 DEF Slot, GeneratorSession
<1>9. Kept(v)
  BY <1>3, <1>4, <1>5, <1>6, <1>7, <1>8 DEF Kept, SameSession, SameOwner, SameEngine
<1>10. Goes(u, v, o)
  BY <1>4, <1>5, <1>7, <1>9 DEF Goes
<1> QED
  BY <1>1, <1>7, <1>10, GoesTransitive DEF v

-------------------------------------------------------------------------------
(***************************************************************************)
(* A session.                                                              *)
(***************************************************************************)

\* _managed_failure: the one fallback, or recovery.
LEMMA ManagedFailureGoes ==
  ASSUME NEW s, Kept(s), HasSession(s), NEW o
  PROVE  Goes(s, ManagedFailure(s, o), o)
<1> DEFINE other == OtherSlot(Slot(s))
           u == Order(s, FALSE)
           yielded == YieldTo(u, FALSE)
           carried == [yielded EXCEPT !.desiredSource = "generator",
                                      !.phase = "on_generator"]
           v == [u EXCEPT !.session.generator = other, !.session.fallbackUsed = TRUE,
                          !.desiredSource = "ups_only", !.desired = @ \cup {other},
                          !.phase = "starting_generator"]
<1>1. Goes(s, u, o) /\ u.session = s.session /\ u.phase = s.phase /\ u.desired = {}
  BY OrderGoes
<1>2. Kept(u) /\ HasSession(u) /\ Slot(u) = Slot(s)
  BY <1>1 DEF Goes, HasSession, Slot
<1>3. \/ ManagedFailure(s, o) = RequireRecovery(u)
      \/ ManagedFailure(s, o) = carried
      \/ /\ ManagedFailure(s, o) = v
         /\ ~s.session.fallbackUsed /\ other \notin ActiveSlots(o)
  BY DEF ManagedFailure
<1> HIDE DEF u
<1>4. Goes(s, RequireRecovery(u), o)
  BY <1>1, <1>2, RequireRecoveryGoes, GoesTransitive
<1>5. Goes(s, carried, o)
  <2>1. Goes(u, yielded, o) /\ HasSession(yielded)
    BY <1>2, YieldToGoes
  <2> HIDE DEF yielded
  <2>2. Goes(yielded, carried, o)
    BY <2>1, RedirectGoes DEF Goes, PowerSource, SupervisorPhase
  <2> HIDE DEF carried
  <2> QED
    BY <1>1, <1>2, <2>1, <2>2, GoesTransitive
<1>6. ASSUME ~s.session.fallbackUsed, other \notin ActiveSlots(o)
      PROVE  Goes(s, v, o)
  <2> DEFINE session == [u.session EXCEPT !.generator = other, !.fallbackUsed = TRUE]
  <2>1. u.session \in GeneratorSession /\ u \in Supervisor /\ other \in GeneratorSlot
    BY <1>2, SessionTypes DEF Kept, OtherSlot, GeneratorSlot
  <2>2. v = [u EXCEPT !.session = session, !.desiredSource = "ups_only",
                      !.desired = {other}, !.phase = "starting_generator"]
    BY <1>1, <2>1 DEF Supervisor
  <2> HIDE DEF other
  <2>3. /\ session \in GeneratorSession /\ session.generator = other
        /\ session.fallbackUsed /\ session.reason = u.session.reason
        /\ session.manualOverride = u.session.manualOverride
        /\ session.cycleOwned = u.session.cycleOwned
        /\ session.stopRequested = u.session.stopRequested
    BY <2>1 DEF GeneratorSession
  <2> HIDE DEF session, v
  <2>4. /\ v \in Supervisor /\ v.session = session /\ v.desired = {other}
        /\ v.phase = "starting_generator" /\ Same(u, v) /\ SameDebts(u, v)
    BY <2>1, <2>2, <2>3 DEF Supervisor, SupervisorPhase, PowerSource, Same, SameDebts
  <2>5. HasSession(v) /\ Slot(v) = other
    BY <2>3, <2>4, SessionTypes DEF HasSession, Slot
  <2>6. SameSession(u, v, o)
    BY <1>1, <1>6, <2>3, <2>4, <2>5 DEF SameSession, SameOwner, SameEngine
  <2>7. Kept(v)
    BY <1>2, <2>3, <2>4, <2>5 DEF Kept
  <2>8. Goes(u, v, o)
    BY <1>2, <2>4, <2>5, <2>6, <2>7 DEF Goes
  <2> QED
    BY <1>1, <2>8, GoesTransitive
<1> HIDE DEF carried, v, other
<1> QED
  BY <1>3, <1>4, <1>5, <1>6

\* An order and the source, or the source and the phase, in one.
LEMMA OrderAndSourceGoes ==
  ASSUME NEW s, Kept(s), HasSession(s), NEW o, NEW run \in BOOLEAN,
         NEW source \in PowerSource
  PROVE  LET v == [Order(s, run) EXCEPT !.desiredSource = source]
         IN  Goes(s, v, o) /\ HasSession(v)
<1> DEFINE u == Order(s, run)
           v == [u EXCEPT !.desiredSource = source]
<1>1. Goes(s, u, o) /\ u.session = s.session
  BY OrderGoes
<1>2. Kept(u) /\ HasSession(u)
  BY <1>1 DEF Goes, HasSession
<1> HIDE DEF u
<1>3. Goes(u, v, o) /\ HasSession(v)
  BY <1>2, SourceGoes
<1> HIDE DEF v
<1>4. Goes(s, v, o)
  BY <1>1, <1>3, GoesTransitive
<1> QED
  BY <1>3, <1>4 DEF u, v

LEMMA OrderAndRedirectGoes ==
  ASSUME NEW s, Kept(s), HasSession(s), NEW o, NEW run \in BOOLEAN,
         NEW source \in PowerSource,
         NEW phase \in SupervisorPhase \ {"returning_to_grid"}
  PROVE  LET v == [Order(s, run) EXCEPT !.desiredSource = source, !.phase = phase]
         IN  Goes(s, v, o) /\ HasSession(v) /\ v.phase = phase
<1> DEFINE u == Order(s, run)
           v == [u EXCEPT !.desiredSource = source, !.phase = phase]
<1>1. Goes(s, u, o) /\ u.session = s.session
  BY OrderGoes
<1>2. Kept(u) /\ HasSession(u)
  BY <1>1 DEF Goes, HasSession
<1> HIDE DEF u
<1>3. Goes(u, v, o) /\ HasSession(v) /\ v.phase = phase
  BY <1>2, RedirectGoes
<1> HIDE DEF v
<1>4. Goes(s, v, o)
  BY <1>1, <1>3, GoesTransitive
<1> QED
  BY <1>3, <1>4 DEF u, v

\* _starting
LEMMA StartingGoes ==
  ASSUME NEW s, Kept(s), HasSession(s), NEW o
  PROVE  Goes(s, Starting(s, o), o)
<1> DEFINE slot == Slot(s)
           first == IF s.session.gridWasUnavailable \/ o.source # "grid"
                    THEN "ups_only" ELSE "grid"
           u == [Order(s, TRUE) EXCEPT !.desiredSource = first]
           v == [u EXCEPT !.desiredSource = "generator"]
           on == [v EXCEPT !.phase = "on_generator"]
<1>1. Starting(s, o) \in {ManagedFailure(u, o), u, v, RequireRecovery(v), on,
                         YieldTo(on, Running(o, slot))}
  BY DEF Starting
<1>2. Goes(s, u, o) /\ HasSession(u)
  <2>1. first \in PowerSource
    BY DEF PowerSource
  <2> HIDE DEF first
  <2> QED
    BY <2>1, OrderAndSourceGoes
<1> HIDE DEF u
<1>3. Goes(s, v, o) /\ HasSession(v)
  <2>1. Goes(u, v, o) /\ HasSession(v)
    BY <1>2, SourceGoes DEF Goes, PowerSource
  <2> HIDE DEF v
  <2> QED
    BY <1>2, <2>1, GoesTransitive
<1> HIDE DEF v
<1>4. Goes(s, on, o) /\ HasSession(on)
  <2>1. Goes(v, on, o) /\ HasSession(on)
    BY <1>3, PhaseGoes DEF Goes, SupervisorPhase
  <2> HIDE DEF on
  <2> QED
    BY <1>3, <2>1, GoesTransitive
<1> HIDE DEF on
<1>5. Kept(u) /\ Kept(v) /\ Kept(on)
  BY <1>2, <1>3, <1>4 DEF Goes
<1>6. Goes(s, ManagedFailure(u, o), o)
  BY <1>2, <1>5, ManagedFailureGoes, GoesTransitive
<1>7. Goes(s, RequireRecovery(v), o)
  BY <1>3, <1>5, RequireRecoveryGoes, GoesTransitive
<1>8. Goes(s, YieldTo(on, Running(o, slot)), o)
  BY <1>4, <1>5, YieldToGoes, GoesTransitive DEF Running
<1> QED
  BY <1>1, <1>2, <1>3, <1>4, <1>6, <1>7, <1>8

\* _on_generator
LEMMA OnGeneratorGoes ==
  ASSUME NEW s, Kept(s), HasSession(s), NEW o
  PROVE  Goes(s, OnGenerator(s, o), o)
<1> DEFINE slot == Slot(s)
           u == [s EXCEPT !.desiredSource = "generator"]
           v == Order(u, TRUE)
<1>1. OnGenerator(s, o) \in {v, ManagedFailure(v, o), YieldTo(u, InService(o, slot)),
                            RequireRecovery(u), ManagedFailure(u, o)}
  BY DEF OnGenerator
<1>2. Goes(s, u, o) /\ HasSession(u)
  BY SourceGoes DEF PowerSource
<1> HIDE DEF u
<1>3. Kept(u)
  BY <1>2 DEF Goes
<1>4. Goes(s, v, o) /\ HasSession(v)
  BY <1>2, <1>3, OrderGoes, GoesTransitive DEF HasSession
<1>5. Kept(v)
  BY <1>4 DEF Goes
<1> HIDE DEF v
<1>6. Goes(s, ManagedFailure(v, o), o) /\ Goes(s, ManagedFailure(u, o), o)
  BY <1>2, <1>3, <1>4, <1>5, ManagedFailureGoes, GoesTransitive
<1>7. Goes(s, RequireRecovery(u), o)
  BY <1>2, <1>3, RequireRecoveryGoes, GoesTransitive
<1>8. Goes(s, YieldTo(u, InService(o, slot)), o)
  BY <1>2, <1>3, YieldToGoes, GoesTransitive DEF InService, Running
<1> QED
  BY <1>1, <1>4, <1>6, <1>7, <1>8

\* _cancel_return
LEMMA CancelReturnGoes ==
  ASSUME NEW s, Kept(s), HasSession(s), NEW o
  PROVE  Goes(s, CancelReturn(s, o), o)
<1> DEFINE mine == o.owner = Slot(s)
           home == [Order(s, mine) EXCEPT !.desiredSource = "generator",
                                          !.phase = "on_generator"]
           on == [Order(s, TRUE) EXCEPT !.desiredSource = "generator",
                                        !.phase = "on_generator"]
           off == [Order(s, TRUE) EXCEPT !.desiredSource = "ups_only",
                                         !.phase = "starting_generator"]
<1>1. CancelReturn(s, o) \in {home, on, off}
  BY DEF CancelReturn
<1>2. Goes(s, home, o) /\ Goes(s, on, o) /\ Goes(s, off, o)
  BY OrderAndRedirectGoes DEF PowerSource, SupervisorPhase
<1> QED
  BY <1>1, <1>2

\* _returning
LEMMA ReturningGoes ==
  ASSUME NEW s, Kept(s), HasSession(s), NEW o \in Observation
  PROVE  Goes(s, Returning(s, o), o)
<1> DEFINE forOutage == s.session.gridWasUnavailable /\ ~s.session.stopRequested
           u == [s EXCEPT !.desiredSource = "grid"]
           left == IF forOutage THEN o.outage ELSE {}
           v == [u EXCEPT !.desired = {}, !.stopOutage = left]
<1>1. Returning(s, o) \in {CancelReturn(u, o), u, RequireRecovery(v), FinishSession(v), v}
  BY DEF Returning
<1>2. Goes(s, u, o) /\ HasSession(u)
  BY SourceGoes DEF PowerSource
<1> HIDE DEF u
<1>3. Kept(u)
  BY <1>2 DEF Goes
<1>4. left \in SUBSET GeneratorSlot
  BY DEF Observation
<1> HIDE DEF left
<1>5. Goes(s, v, o)
  <2>1. /\ v \in Supervisor /\ v.session = u.session /\ v.desired = {}
        /\ v.phase = u.phase /\ Same(u, v) /\ SameDebts(u, v)
    BY <1>3, <1>4 DEF Kept, Supervisor, Same, SameDebts
  <2> HIDE DEF v
  <2>2. Goes(u, v, o)
    BY <1>2, <1>3, <2>1, SetElsewhere
  <2> QED
    BY <1>2, <2>2, GoesTransitive
<1> HIDE DEF v
<1>6. Kept(v)
  BY <1>5 DEF Goes
<1>7. Goes(s, CancelReturn(u, o), o)
  BY <1>2, <1>3, CancelReturnGoes, GoesTransitive
<1>8. Goes(s, RequireRecovery(v), o) /\ Goes(s, FinishSession(v), o)
  BY <1>5, <1>6, RequireRecoveryGoes, EndSessionGoes, GoesTransitive
<1> QED
  BY <1>1, <1>2, <1>5, <1>7, <1>8

\* _returning_to_ups
LEMMA ReturningToUpsGoes ==
  ASSUME NEW s, Kept(s), HasSession(s), NEW o
  PROVE  Goes(s, ReturningToUps(s, o), o)
<1> DEFINE u == [s EXCEPT !.desiredSource = "ups_only"]
<1>1. ReturningToUps(s, o) \in {RequireRecovery(u), Order(u, TRUE), Order(u, FALSE),
                               EndSession(Order(u, FALSE))}
  BY DEF ReturningToUps
<1>2. Goes(s, u, o) /\ HasSession(u)
  BY SourceGoes DEF PowerSource
<1> HIDE DEF u
<1>3. Kept(u)
  BY <1>2 DEF Goes
<1>4. Goes(s, RequireRecovery(u), o)
  BY <1>2, <1>3, RequireRecoveryGoes, GoesTransitive
<1>5. Goes(s, Order(u, TRUE), o) /\ Goes(s, Order(u, FALSE), o)
  BY <1>2, <1>3, OrderGoes, GoesTransitive
<1>6. Goes(s, EndSession(Order(u, FALSE)), o)
  BY <1>5, EndSessionGoes, GoesTransitive DEF Goes
<1> QED
  BY <1>1, <1>4, <1>5, <1>6

\* What conducting a supervisor makes of its session: it goes on, and turns home
\* by itself only when the grid is stable; a stop is then done with.
Conducts(s, v, o) ==
  /\ Kept(v) /\ Same(s, v) /\ SameDebts(s, v)
  /\ HasSession(v) =>
       /\ SameOwner(s, v) /\ SameEngine(s, v, o)
       /\ v.session.stopRequested = s.session.stopRequested \/ GridStable(s)
  /\ ~HasSession(v) => v.desiredSource # "grid" /\ v.phase # "returning_to_grid"
  /\ v.phase = "returning_to_grid" => s.phase = "returning_to_grid" \/ GridStable(s)

\* A session that goes on is conducted.
LEMMA GoesConducts ==
  ASSUME NEW s, NEW v, NEW o, HasSession(s), Goes(s, v, o)
  PROVE  Conducts(s, v, o)
BY DEF Goes, Conducts, SameSession

\* The way home that a stable grid opens.
LEMMA HomeConducts ==
  ASSUME NEW s, Kept(s), HasSession(s), NEW o, GridStable(s)
  PROVE  LET home == [s EXCEPT !.phase = "returning_to_grid",
                               !.desiredSource = "grid"]
         IN  /\ Conducts(s, home, o)
             /\ Conducts(s, [home EXCEPT !.session.stopRequested = FALSE], o)
<1> DEFINE home == [s EXCEPT !.phase = "returning_to_grid", !.desiredSource = "grid"]
           session == [s.session EXCEPT !.stopRequested = FALSE]
           v == [home EXCEPT !.session = session]
<1>1. s \in Supervisor /\ s.session \in GeneratorSession
  BY SessionTypes DEF Kept
<1>2. /\ home \in Supervisor /\ home.session = s.session
      /\ home.desired = s.desired /\ home.phase = "returning_to_grid"
      /\ Same(s, home) /\ SameDebts(s, home)
  BY <1>1 DEF Supervisor, SupervisorPhase, PowerSource, Same, SameDebts
<1>3. [home EXCEPT !.session.stopRequested = FALSE] = v
  BY <1>1, <1>2
<1> HIDE DEF home
<1>4. /\ session \in GeneratorSession /\ session.reason = s.session.reason
      /\ session.manualOverride = s.session.manualOverride
      /\ session.cycleOwned = s.session.cycleOwned
      /\ session.generator = s.session.generator
      /\ session.fallbackUsed = s.session.fallbackUsed
  BY <1>1 DEF GeneratorSession
<1> HIDE DEF session
<1>5. /\ v \in Supervisor /\ v.session = session /\ v.desired = s.desired
      /\ Same(s, v) /\ SameDebts(s, v)
  BY <1>2, <1>4 DEF Supervisor, Same, SameDebts
<1> HIDE DEF v
<1>6. HasSession(home) /\ HasSession(v) /\ Slot(home) = Slot(s) /\ Slot(v) = Slot(s)
  BY <1>2, <1>4, <1>5, SessionTypes DEF HasSession, Slot
<1>7. Kept(home) /\ Kept(v)
  BY <1>2, <1>4, <1>5, <1>6 DEF Kept
<1>8. Conducts(s, home, o)
  BY <1>2, <1>6, <1>7 DEF Conducts, SameOwner, SameEngine
<1>9. Conducts(s, v, o)
  BY <1>4, <1>5, <1>6, <1>7 DEF Conducts, SameOwner, SameEngine
<1> QED
  BY <1>3, <1>8, <1>9 DEF home

\* _with_session
LEMMA WithSessionConducts ==
  ASSUME NEW s, Kept(s), HasSession(s), NEW o \in Observation
  PROVE  Conducts(s, WithSession(s, o), o)
<1> DEFINE home == [s EXCEPT !.phase = "returning_to_grid", !.desiredSource = "grid"]
           back == [home EXCEPT !.session.stopRequested = FALSE]
<1>1. \/ WithSession(s, o) \in {Returning(s, o), ReturningToUps(s, o), Starting(s, o),
                               OnGenerator(s, o), RequireRecovery(s)}
      \/ GridStable(s) /\ WithSession(s, o) \in {home, back}
  BY DEF WithSession
<1>2. Goes(s, Returning(s, o), o) /\ Goes(s, ReturningToUps(s, o), o)
  BY ReturningGoes, ReturningToUpsGoes
<1>3. Goes(s, Starting(s, o), o) /\ Goes(s, OnGenerator(s, o), o)
  BY StartingGoes, OnGeneratorGoes
<1>4. Goes(s, RequireRecovery(s), o)
  BY RequireRecoveryGoes
<1>5. GridStable(s) => Conducts(s, home, o) /\ Conducts(s, back, o)
  BY HomeConducts
<1> HIDE DEF home, back
<1> QED
  BY <1>1, <1>2, <1>3, <1>4, <1>5, GoesConducts

-------------------------------------------------------------------------------
(***************************************************************************)
(* The beginning of a session.                                             *)
(***************************************************************************)

\* The session's engine was at rest, or its exercise has handed it over.
FromRest(v, o, c) ==
  \/ Slot(v) \notin ActiveSlots(o)
  \/ /\ Slot(v) = c.exercise
     /\ v.directive \in {"handoff_to_outage", "handoff_to_manual", "fail_active"}

\* A session of nobody but the one who asked for it.
Fresh(session, reason) ==
  /\ session.reason = reason
  /\ ~session.manualOverride /\ ~session.cycleOwned /\ ~session.stopRequested

\* What an attempt to begin a session makes of a supervisor without one.
Takes(s, v, o, c, reason) ==
  /\ Kept(v) /\ Same(s, v)
  /\ v.suppressed = s.suppressed /\ v.restorePending = s.restorePending
  /\ HasSession(v) => Fresh(v.session, reason) /\ FromRest(v, o, c)
  /\ v.phase = "returning_to_grid" => s.phase = "returning_to_grid" /\ ~HasSession(v)
  /\ ~HasSession(v) => v.desiredSource = s.desiredSource

\* A directive concerns nothing else.
LEMMA SetDirectiveKeeps ==
  ASSUME NEW s, Kept(s), NEW directive \in ExerciseDirective
  PROVE  LET v == SetDirective(s, directive)
         IN  /\ Kept(v) /\ Same(s, v)
             /\ v.suppressed = s.suppressed /\ v.restorePending = s.restorePending
             /\ v.session = s.session /\ v.phase = s.phase
             /\ v.desiredSource = s.desiredSource
             /\ v.directive \in {directive, "fail_active"}
<1> DEFINE v == [s EXCEPT !.directive = directive]
<1>1. CASE s.directive = "fail_active"
  BY <1>1 DEF SetDirective, Same
<1>2. CASE s.directive # "fail_active"
  <2>1. /\ v \in Supervisor /\ v.session = s.session /\ v.desired = s.desired
        /\ v.phase = s.phase /\ v.desiredSource = s.desiredSource
        /\ v.suppressed = s.suppressed /\ v.restorePending = s.restorePending
        /\ v.directive = directive /\ Same(s, v)
    BY DEF Kept, Supervisor, Same
  <2>2. SetDirective(s, directive) = v
    BY <1>2 DEF SetDirective
  <2> HIDE DEF v
  <2>3. Kept(v)
    BY <2>1 DEF Kept, HasSession, Slot
  <2> QED
    BY <2>1, <2>2, <2>3
<1> QED
  BY <1>1, <1>2

\* _begin_session_for_slot: nothing, or a session with that engine.
LEMMA BeginSessionForSlotBegins ==
  ASSUME NEW s, Kept(s), NEW o \in Observation, NEW slot \in GeneratorSlot,
         NEW reason \in {"grid_outage", "manual_generator_start"}
  PROVE  LET v == BeginSessionForSlot(s, o, reason, slot)
         IN  \/ v = s
             \/ /\ Kept(v) /\ Same(s, v) /\ SameDebts(s, v)
                /\ HasSession(v) /\ Slot(v) = slot /\ Fresh(v.session, reason)
                /\ v.phase = "starting_generator"
<1> DEFINE session == NewSession(reason, slot, o.grid = "no")
           source == IF o.grid = "no" THEN "ups_only" ELSE o.source
           v == [s EXCEPT !.session = session, !.desired = {slot},
                          !.phase = "starting_generator", !.desiredSource = source]
<1>1. BeginSessionForSlot(s, o, reason, slot) \in {s, v}
  BY DEF BeginSessionForSlot
<1>2. /\ session \in GeneratorSession /\ session.generator = slot
      /\ Fresh(session, reason)
  BY DEF NewSession, GeneratorSession, Fresh
<1>3. source \in PowerSource
  BY DEF Observation, PowerSource
<1> HIDE DEF session, source
<1>4. /\ v \in Supervisor /\ v.session = session /\ v.desired = {slot}
      /\ v.phase = "starting_generator" /\ Same(s, v) /\ SameDebts(s, v)
  BY <1>2, <1>3 DEF Kept, Supervisor, SupervisorPhase, Same, SameDebts
<1> HIDE DEF v
<1>5. HasSession(v) /\ Slot(v) = slot
  <2>1. NoSession \notin GeneratorSession
    BY SessionTypes
  <2> QED
    BY <1>2, <1>4, <2>1 DEF HasSession, Slot
<1>6. Kept(v)
  BY <1>2, <1>4, <1>5 DEF Kept, Fresh
<1> QED
  BY <1>1, <1>2, <1>4, <1>5, <1>6

\* Nothing has changed yet.
LEMMA TakesReflexive ==
  ASSUME NEW s, Kept(s), ~HasSession(s), NEW o, NEW c, NEW reason
  PROVE  Takes(s, s, o, c, reason)
BY DEF Takes, Same

\* _begin_session: with every engine at rest.
LEMMA BeginSessionTakes ==
  ASSUME NEW s, Kept(s), ~HasSession(s), NEW o \in Observation, NEW c,
         NEW reason \in {"grid_outage", "manual_generator_start"}
  PROVE  Takes(s, BeginSession(s, o, reason), o, c, reason)
<1> DEFINE v == BeginSessionForSlot(s, o, reason, o.primary)
<1>1. \/ BeginSession(s, o, reason) = s
      \/ BeginSession(s, o, reason) = v /\ ActiveSlots(o) = {}
  BY DEF BeginSession
<1>2. o.primary \in GeneratorSlot
  BY DEF Observation
<1>3. \/ v = s
      \/ /\ Kept(v) /\ Same(s, v) /\ SameDebts(s, v)
         /\ HasSession(v) /\ Fresh(v.session, reason) /\ v.phase = "starting_generator"
  BY <1>2, BeginSessionForSlotBegins
<1> HIDE DEF v
<1>4. ActiveSlots(o) = {} => Takes(s, v, o, c, reason)
  BY <1>3, TakesReflexive DEF Takes, SameDebts, FromRest
<1> QED
  BY <1>1, <1>4, TakesReflexive

\* An exercise is on the way.
LEMMA TakeFromExerciseTakes ==
  ASSUME NEW s, Kept(s), ~HasSession(s), NEW o \in Observation, NEW c \in Intents,
         c.exercise # Nobody, NEW mayBegin \in BOOLEAN,
         NEW reason \in {"grid_outage", "manual_generator_start"},
         NEW handoff \in {"handoff_to_outage", "handoff_to_manual"}
  PROVE  Takes(s, TakeFromExercise(s, o, c, reason, handoff, mayBegin), o, c, reason)
<1> DEFINE adopted == BeginSessionForSlot(s, o, reason, c.exercise)
           handed == SetDirective(adopted, handoff)
           u == SetDirective(s, "cancel_unstarted")
           deferred == [u EXCEPT !.phase = "grid_failure_delay"]
           failed == SetDirective(RequireRecovery(s), "fail_active")
<1>1. TakeFromExercise(s, o, c, reason, handoff, mayBegin)
        \in {handed, BeginSession(u, o, reason), deferred, failed}
  BY DEF TakeFromExercise
<1>2. c.exercise \in GeneratorSlot
  BY DEF Intents
<1>3. /\ handoff \in ExerciseDirective /\ "cancel_unstarted" \in ExerciseDirective
      /\ "fail_active" \in ExerciseDirective
  BY DEF ExerciseDirective
<1>4. Takes(s, handed, o, c, reason)
  <2>1. \/ adopted = s
        \/ /\ Kept(adopted) /\ Same(s, adopted) /\ SameDebts(s, adopted)
           /\ HasSession(adopted) /\ Slot(adopted) = c.exercise
           /\ Fresh(adopted.session, reason) /\ adopted.phase = "starting_generator"
    BY <1>2, BeginSessionForSlotBegins
  <2> HIDE DEF adopted
  <2>2. Kept(adopted) /\ Same(s, adopted) /\ SameDebts(s, adopted)
    BY <2>1 DEF Same, SameDebts
  <2>3. /\ Kept(handed) /\ Same(adopted, handed)
        /\ handed.suppressed = adopted.suppressed
        /\ handed.restorePending = adopted.restorePending
        /\ handed.session = adopted.session /\ handed.phase = adopted.phase
        /\ handed.desiredSource = adopted.desiredSource
        /\ handed.directive \in {handoff, "fail_active"}
    BY <1>3, <2>2, SetDirectiveKeeps
  <2> HIDE DEF handed
  <2> QED
    BY <2>1, <2>2, <2>3 DEF Takes, Same, SameDebts, HasSession, Slot, FromRest
<1>5. /\ Kept(u) /\ Same(s, u) /\ u.suppressed = s.suppressed
      /\ u.restorePending = s.restorePending /\ u.session = s.session
      /\ u.phase = s.phase /\ u.desiredSource = s.desiredSource
  BY <1>3, SetDirectiveKeeps
<1> HIDE DEF u
<1>6. ~HasSession(u)
  BY <1>5 DEF HasSession
<1>7. Takes(s, BeginSession(u, o, reason), o, c, reason)
  <2> DEFINE v == BeginSession(u, o, reason)
  <2>1. Takes(u, v, o, c, reason)
    BY <1>5, <1>6, BeginSessionTakes
  <2> HIDE DEF v
  <2> QED
    BY <1>5, <2>1 DEF Takes, Same, v
<1>8. Takes(s, deferred, o, c, reason)
  <2>1. /\ deferred \in Supervisor /\ deferred.session = u.session
        /\ deferred.desired = u.desired /\ deferred.phase = "grid_failure_delay"
        /\ deferred.desiredSource = u.desiredSource
        /\ Same(u, deferred) /\ SameDebts(u, deferred)
    BY <1>5 DEF Kept, Supervisor, SupervisorPhase, Same, SameDebts
  <2> HIDE DEF deferred
  <2>2. Kept(deferred) /\ ~HasSession(deferred)
    BY <1>5, <1>6, <2>1 DEF Kept, HasSession
  <2> QED
    BY <1>5, <2>1, <2>2 DEF Takes, Same, SameDebts
<1>9. Takes(s, failed, o, c, reason)
  <2> DEFINE w == RequireRecovery(s)
  <2>1. /\ Goes(s, w, o) /\ w.phase = "recovery_required" /\ w.session = s.session
        /\ w.desiredSource = s.desiredSource
    BY RequireRecoveryGoes
  <2> HIDE DEF w
  <2>2. Kept(w)
    BY <2>1 DEF Goes
  <2>3. /\ Kept(failed) /\ Same(w, failed) /\ failed.suppressed = w.suppressed
        /\ failed.restorePending = w.restorePending /\ failed.session = w.session
        /\ failed.phase = w.phase /\ failed.desiredSource = w.desiredSource
    BY <1>3, <2>2, SetDirectiveKeeps DEF w
  <2> HIDE DEF failed
  <2> QED
    BY <2>1, <2>3 DEF Takes, Goes, Same, SameDebts, HasSession
<1> HIDE DEF handed, deferred, failed
<1> QED
  BY <1>1, <1>4, <1>7, <1>8, <1>9

-------------------------------------------------------------------------------
(***************************************************************************)
(* No session.                                                             *)
(***************************************************************************)

\* What a tick without a session makes of a supervisor: a session only where no
\* stop of the user forbids it, and with an engine at rest; the stop is
\* forgotten only when the grid is there, the isolation only on the grid path;
\* and the grid is wanted only when it is stable.
Waits(s, v, o, c) ==
  /\ Kept(v) /\ Same(s, v)
  /\ HasSession(v) =>
       /\ ~s.suppressed /\ Fresh(v.session, "grid_outage") /\ FromRest(v, o, c)
       /\ v.phase # "returning_to_grid"
  /\ s.suppressed /\ o.grid # "yes" => v.suppressed
  /\ s.restorePending /\ ~GridPath(o) => v.restorePending
  /\ v.phase = "returning_to_grid" => s.phase = "returning_to_grid" \/ GridStable(s)
  /\ ~HasSession(v) /\ v.desiredSource = "grid" => GridStable(s)

\* Without a session there are no orders to fit to it.
LEMMA WithoutSessionKept ==
  ASSUME NEW s, Kept(s), ~HasSession(s), NEW v \in Supervisor,
         v.session = s.session, v.desired = {}
  PROVE  Kept(v) /\ ~HasSession(v)
BY DEF Kept, HasSession

\* A manual stop has left the house isolated.
LEMMA AwaitRestoreWaits ==
  ASSUME NEW s, Kept(s), ~HasSession(s), NEW o \in Observation, NEW c
  PROVE  Waits(s, AwaitRestore(s, o), o, c)
<1> DEFINE u == [s EXCEPT !.desiredSource = Nobody, !.phase = "normal"]
           quiet == s.suppressed /\ o.grid # "yes"
           done == [u EXCEPT !.restorePending = FALSE, !.suppressed = quiet]
           source == IF GridStable(s) THEN "grid" ELSE Nobody
           going == [u EXCEPT !.desiredSource = source]
<1>1. /\ u \in Supervisor /\ u.session = s.session /\ u.desired = {}
      /\ u.phase = "normal" /\ u.desiredSource = Nobody
      /\ u.suppressed = s.suppressed /\ Same(s, u) /\ SameDebts(s, u)
  BY DEF Kept, Supervisor, SupervisorPhase, Same, SameDebts
<1>2. \/ GridPath(o) /\ AwaitRestore(s, o) = done
      \/ AwaitRestore(s, o) = going
  <2>1. done = [u EXCEPT !.restorePending = FALSE, !.suppressed = @ /\ o.grid # "yes"]
    BY <1>1
  <2>2. going = [u EXCEPT !.desiredSource = IF GridStable(s) THEN "grid" ELSE @]
    BY <1>1
  <2> HIDE DEF done, going
  <2>3. AwaitRestore(s, o) =
          IF GridPath(o)
          THEN [u EXCEPT !.restorePending = FALSE, !.suppressed = @ /\ o.grid # "yes"]
          ELSE [u EXCEPT !.desiredSource = IF GridStable(s) THEN "grid" ELSE @]
    BY DEF AwaitRestore
  <2> HIDE DEF u
  <2> QED
    BY <2>1, <2>2, <2>3
<1> HIDE DEF u
<1>3. GridPath(o) => Waits(s, done, o, c)
  <2>1. quiet \in BOOLEAN
    OBVIOUS
  <2>2. quiet => s.suppressed
    OBVIOUS
  <2>3. s.suppressed /\ o.grid # "yes" => quiet
    OBVIOUS
  <2> HIDE DEF quiet
  <2>4. /\ done \in Supervisor /\ done.session = u.session /\ done.desired = {}
        /\ done.phase = "normal" /\ done.desiredSource = Nobody
        /\ done.suppressed = quiet /\ Same(u, done)
    BY <1>1, <2>1 DEF Supervisor, Same
  <2> HIDE DEF done
  <2>5. Kept(done) /\ ~HasSession(done)
    BY <1>1, <2>4, WithoutSessionKept
  <2> QED
    BY <1>1, <2>3, <2>4, <2>5 DEF Waits, Same, Nobody
<1>4. Waits(s, going, o, c)
  <2>1. source \in PowerSource \cup {Nobody} /\ (source = "grid" => GridStable(s))
    BY DEF PowerSource, Nobody
  <2> HIDE DEF source
  <2>2. /\ going \in Supervisor /\ going.session = u.session /\ going.desired = {}
        /\ going.phase = "normal" /\ going.desiredSource = source
        /\ Same(u, going) /\ SameDebts(u, going)
    BY <1>1, <2>1 DEF Supervisor, Same, SameDebts
  <2> HIDE DEF going
  <2>3. Kept(going) /\ ~HasSession(going)
    BY <1>1, <2>2, WithoutSessionKept
  <2> QED
    BY <1>1, <2>1, <2>2, <2>3 DEF Waits, Same, SameDebts
<1> HIDE DEF done, going
<1> QED
  BY <1>2, <1>3, <1>4

\* The grid is wanted again, and it is stable.
LEMMA WantGridWaits ==
  ASSUME NEW s, Kept(s), ~HasSession(s), NEW o, NEW c, GridStable(s)
  PROVE  LET u == [s EXCEPT !.desiredSource = "grid", !.phase = "returning_to_grid"]
         IN  Waits(s, u, o, c) /\ ~HasSession(u)
<1> DEFINE u == [s EXCEPT !.desiredSource = "grid", !.phase = "returning_to_grid"]
<1>1. /\ u \in Supervisor /\ u.session = s.session /\ u.desired = {}
      /\ Same(s, u) /\ SameDebts(s, u)
  BY DEF Kept, Supervisor, SupervisorPhase, PowerSource, Same, SameDebts
<1> HIDE DEF u
<1>2. Kept(u) /\ ~HasSession(u)
  BY <1>1, WithoutSessionKept
<1>3. Waits(s, u, o, c)
  BY <1>1, <1>2 DEF Waits, SameDebts
<1> QED
  BY <1>2, <1>3 DEF u

\* The grid is stable and engines still run for the outage.
LEMMA ReturnFromOutageWaits ==
  ASSUME NEW s, Kept(s), ~HasSession(s), NEW o \in Observation, NEW c, GridStable(s)
  PROVE  Waits(s, ReturnFromOutage(s, o), o, c)
<1> DEFINE u == [s EXCEPT !.desiredSource = "grid", !.phase = "returning_to_grid"]
           v == [u EXCEPT !.stopOutage = o.outage]
<1>1. ReturnFromOutage(s, o) \in {u, FinishSession(u), v}
  BY DEF ReturnFromOutage
<1>2. Waits(s, u, o, c) /\ ~HasSession(u)
  BY WantGridWaits
<1>3. SameDebts(s, u)
  BY DEF Kept, Supervisor, SameDebts
<1> HIDE DEF u
<1>4. Kept(u) /\ Same(s, u)
  BY <1>2 DEF Waits
<1>5. Waits(s, v, o, c)
  <2>1. /\ v \in Supervisor /\ v.session = u.session /\ v.desired = {}
        /\ Same(u, v) /\ SameDebts(u, v)
    BY <1>2, <1>4 DEF Kept, Supervisor, Observation, Same, SameDebts
  <2> HIDE DEF v
  <2>2. Kept(v) /\ ~HasSession(v)
    BY <1>2, <1>4, <2>1, WithoutSessionKept
  <2> QED
    BY <1>3, <1>4, <2>1, <2>2 DEF Waits, Same, SameDebts
<1>6. Waits(s, FinishSession(u), o, c)
  <2> DEFINE w == FinishSession(u)
  <2>1. /\ Goes(u, w, o) /\ ~HasSession(w) /\ w.desiredSource = Nobody
        /\ w.phase = "normal"
    BY <1>4, EndSessionGoes
  <2> HIDE DEF w
  <2> QED
    BY <1>3, <1>4, <2>1 DEF Waits, Goes, Same, SameDebts, w
<1> HIDE DEF v
<1> QED
  BY <1>1, <1>2, <1>5, <1>6

\* An attempt to begin a session where no stop forbids it.
LEMMA TakesWaits ==
  ASSUME NEW s, NEW v, NEW o, NEW c, ~s.suppressed, s.desiredSource = Nobody,
         Takes(s, v, o, c, "grid_outage")
  PROVE  Waits(s, v, o, c)
BY DEF Takes, Waits, Nobody

\* The outage has lasted for the failure delay.
LEMMA BeginOutageWaits ==
  ASSUME NEW s, Kept(s), ~HasSession(s), NEW o \in Observation, NEW c \in Intents,
         ~s.suppressed, s.desiredSource = Nobody
  PROVE  Waits(s, BeginOutage(s, o, c), o, c)
<1> DEFINE taken == TakeFromExercise(s, o, c, "grid_outage", "handoff_to_outage",
                                     ~c.defer)
           deferred == [s EXCEPT !.phase = "grid_failure_delay"]
           begun == BeginSession(s, o, "grid_outage")
<1>1. \/ c.exercise # Nobody /\ BeginOutage(s, o, c) = taken
      \/ BeginOutage(s, o, c) \in {deferred, begun}
  BY DEF BeginOutage
<1>2. c.exercise # Nobody => Waits(s, taken, o, c)
  BY TakeFromExerciseTakes, TakesWaits
<1>3. Waits(s, begun, o, c)
  BY BeginSessionTakes, TakesWaits
<1>4. Waits(s, deferred, o, c)
  <2>1. /\ deferred \in Supervisor /\ deferred.session = s.session
        /\ deferred.desired = {} /\ deferred.phase = "grid_failure_delay"
        /\ deferred.desiredSource = Nobody
        /\ Same(s, deferred) /\ SameDebts(s, deferred)
    BY DEF Kept, Supervisor, SupervisorPhase, Same, SameDebts
  <2> HIDE DEF deferred
  <2>2. Kept(deferred) /\ ~HasSession(deferred)
    BY <2>1, WithoutSessionKept
  <2> QED
    BY <2>1, <2>2 DEF Waits, SameDebts, Nobody
<1> HIDE DEF taken, deferred, begun
<1> QED
  BY <1>1, <1>2, <1>3, <1>4

\* Waiting in a phase that is not a return.
LEMMA PhaseWaits ==
  ASSUME NEW s, Kept(s), ~HasSession(s), NEW o, NEW c, s.desiredSource = Nobody,
         NEW phase \in SupervisorPhase \ {"returning_to_grid"}
  PROVE  Waits(s, [s EXCEPT !.phase = phase], o, c)
<1> DEFINE v == [s EXCEPT !.phase = phase]
<1>1. /\ v \in Supervisor /\ v.session = s.session /\ v.desired = {}
      /\ v.phase = phase /\ v.desiredSource = Nobody /\ Same(s, v) /\ SameDebts(s, v)
  BY DEF Kept, Supervisor, Same, SameDebts
<1> HIDE DEF v
<1>2. Kept(v) /\ ~HasSession(v)
  BY <1>1, WithoutSessionKept
<1> QED
  BY <1>1, <1>2 DEF Waits, SameDebts, Nobody, v

\* Nothing to return from: an outage is waited for.
LEMMA AwaitOutageWaits ==
  ASSUME NEW s, Kept(s), ~HasSession(s), NEW o \in Observation, NEW c \in Intents,
         s.desiredSource = Nobody
  PROVE  Waits(s, AwaitOutage(s, o, c), o, c)
<1> DEFINE seen == [s EXCEPT !.suppressed = FALSE, !.phase = "normal"]
           since == IF s.failedFor = NoTimer THEN 0 ELSE s.failedFor
           counting == [s EXCEPT !.failedFor = since, !.phase = "grid_failure_delay"]
<1>1. \/ o.grid = "yes" /\ AwaitOutage(s, o, c) = seen
      \/ AwaitOutage(s, o, c) \in {[s EXCEPT !.phase = "normal"],
                                  [s EXCEPT !.phase = "external_running"]}
      \/ AwaitOutage(s, o, c) = counting
      \/ ~s.suppressed /\ AwaitOutage(s, o, c) = BeginOutage(s, o, c)
  BY DEF AwaitOutage
<1>2. o.grid = "yes" => Waits(s, seen, o, c)
  <2>1. /\ seen \in Supervisor /\ seen.session = s.session /\ seen.desired = {}
        /\ seen.phase = "normal" /\ seen.desiredSource = Nobody
        /\ seen.restorePending = s.restorePending /\ Same(s, seen)
    BY DEF Kept, Supervisor, SupervisorPhase, Same
  <2> HIDE DEF seen
  <2>2. Kept(seen) /\ ~HasSession(seen)
    BY <2>1, WithoutSessionKept
  <2> QED
    BY <2>1, <2>2 DEF Waits, Nobody
<1>3. Waits(s, counting, o, c)
  <2>1. since \in NoTimer..FailureDelay
    BY SupervisorAssumption DEF Kept, Supervisor, NoTimer
  <2> HIDE DEF since
  <2>2. /\ counting \in Supervisor /\ counting.session = s.session
        /\ counting.desired = {} /\ counting.phase = "grid_failure_delay"
        /\ counting.desiredSource = Nobody
        /\ Same(s, counting) /\ SameDebts(s, counting)
    BY <2>1 DEF Kept, Supervisor, SupervisorPhase, Same, SameDebts
  <2> HIDE DEF counting
  <2>3. Kept(counting) /\ ~HasSession(counting)
    BY <2>2, WithoutSessionKept
  <2> QED
    BY <2>2, <2>3 DEF Waits, SameDebts, Nobody
<1>4. /\ Waits(s, [s EXCEPT !.phase = "normal"], o, c)
      /\ Waits(s, [s EXCEPT !.phase = "external_running"], o, c)
  BY PhaseWaits DEF SupervisorPhase
<1>5. ~s.suppressed => Waits(s, BeginOutage(s, o, c), o, c)
  BY BeginOutageWaits
<1> HIDE DEF seen, counting
<1> QED
  BY <1>1, <1>2, <1>3, <1>4, <1>5

\* _without_session
LEMMA WithoutSessionWaits ==
  ASSUME NEW s, Kept(s), ~HasSession(s), NEW o \in Observation, NEW c \in Intents
  PROVE  Waits(s, WithoutSession(s, o, c), o, c)
<1> DEFINE u == [s EXCEPT !.desired = {}]
           home == [u EXCEPT !.desiredSource = "grid", !.phase = "returning_to_grid"]
           idle == [u EXCEPT !.desiredSource = Nobody]
<1>1. /\ u \in Supervisor /\ u.session = s.session /\ u.desired = {}
      /\ u.phase = s.phase /\ Same(s, u) /\ SameDebts(s, u)
  BY DEF Kept, Supervisor, Same, SameDebts
<1>2. \/ WithoutSession(s, o, c) = AwaitRestore(u, o)
      \/ GridStable(u) /\ WithoutSession(s, o, c) = home
      \/ GridStable(u) /\ WithoutSession(s, o, c) = ReturnFromOutage(u, o)
      \/ WithoutSession(s, o, c) = AwaitOutage(idle, o, c)
  BY DEF WithoutSession
<1> HIDE DEF u
<1>3. Kept(u) /\ ~HasSession(u)
  BY <1>1, WithoutSessionKept
<1>4. /\ idle \in Supervisor /\ idle.session = u.session /\ idle.desired = {}
      /\ idle.phase = s.phase /\ idle.desiredSource = Nobody
      /\ Same(u, idle) /\ SameDebts(u, idle)
  BY <1>1 DEF Supervisor, Same, SameDebts
<1> HIDE DEF idle
<1>5. Kept(idle) /\ ~HasSession(idle)
  BY <1>3, <1>4, WithoutSessionKept
<1>6. /\ Waits(u, AwaitRestore(u, o), o, c)
      /\ Waits(idle, AwaitOutage(idle, o, c), o, c)
  BY <1>3, <1>4, <1>5, AwaitRestoreWaits, AwaitOutageWaits
<1>7. GridStable(u) =>
        Waits(u, home, o, c) /\ Waits(u, ReturnFromOutage(u, o), o, c)
  BY <1>3, WantGridWaits, ReturnFromOutageWaits
<1>8. \A v : Waits(u, v, o, c) \/ Waits(idle, v, o, c) => Waits(s, v, o, c)
  BY <1>1, <1>4 DEF Waits, Same, SameDebts, GridStable
<1> HIDE DEF home
<1> QED
  BY <1>2, <1>6, <1>7, <1>8

-------------------------------------------------------------------------------
(***************************************************************************)
(* The commands.                                                           *)
(***************************************************************************)

\* No command exchanges the engine of a session.
KeepsEngine(s, v) ==
  /\ HasSession(v) /\ Slot(v) = Slot(s)
  /\ v.session.fallbackUsed = s.session.fallbackUsed
  /\ v.session.reason = s.session.reason

\* A change of the session's marks and perhaps of the phase and the source.
LEMMA MarkSession ==
  ASSUME NEW s, Kept(s), HasSession(s), NEW session \in GeneratorSession,
         session.generator = s.session.generator,
         session.fallbackUsed = s.session.fallbackUsed,
         session.reason = s.session.reason,
         session.cycleOwned =>
           session.reason = "grid_outage" /\ ~session.manualOverride,
         NEW v \in Supervisor, v.session = session, v.desired = s.desired
  PROVE  Kept(v) /\ KeepsEngine(s, v)
<1>1. HasSession(v) /\ Slot(v) = Slot(s)
  BY SessionTypes DEF HasSession, Slot
<1>2. Kept(v)
  BY <1>1 DEF Kept
<1> QED
  BY <1>1, <1>2 DEF KeepsEngine

\* The user takes over an automatic session: the charge cycle has no part in it.
LEMMA TakeOverKeeps ==
  ASSUME NEW s, Kept(s), HasSession(s), NEW o
  PROVE  LET v == TakeOver(s)
         IN  /\ Kept(v) /\ KeepsEngine(s, v) /\ Same(s, v) /\ SameDebts(s, v)
             /\ ~v.session.cycleOwned /\ ~v.session.stopRequested
             /\ v.phase = "returning_to_grid" => s.phase = "returning_to_grid"
<1> DEFINE session == [s.session EXCEPT !.manualOverride = TRUE,
                                        !.cycleOwned = FALSE,
                                        !.stopRequested = FALSE]
           u == [s EXCEPT !.session = session]
           v == [Order(u, TRUE) EXCEPT !.phase = "starting_generator",
                                       !.desiredSource = "ups_only"]
<1>1. s \in Supervisor /\ s.session \in GeneratorSession
  BY SessionTypes DEF Kept
<1>2. [s EXCEPT !.session.manualOverride = TRUE, !.session.cycleOwned = FALSE,
                !.session.stopRequested = FALSE] = u
  BY <1>1 DEF Supervisor
<1>3. TakeOver(s) = IF s.phase = "returning_to_ups" THEN v ELSE u
  <2> DEFINE w == [s EXCEPT !.session.manualOverride = TRUE,
                            !.session.cycleOwned = FALSE,
                            !.session.stopRequested = FALSE]
  <2>1. TakeOver(s) = IF s.phase = "returning_to_ups"
                      THEN [Order(w, TRUE) EXCEPT !.phase = "starting_generator",
                                                  !.desiredSource = "ups_only"]
                      ELSE w
    BY DEF TakeOver
  <2> HIDE DEF w, u
  <2> QED
    BY <1>2, <2>1 DEF w
<1>4. /\ session \in GeneratorSession /\ session.generator = s.session.generator
      /\ session.fallbackUsed = s.session.fallbackUsed
      /\ session.reason = s.session.reason /\ ~session.cycleOwned
      /\ ~session.stopRequested
  BY <1>1 DEF GeneratorSession
<1> HIDE DEF session
<1>5. /\ u \in Supervisor /\ u.session = session /\ u.desired = s.desired
      /\ u.phase = s.phase /\ Same(s, u) /\ SameDebts(s, u)
  BY <1>1, <1>4 DEF Supervisor, Same, SameDebts
<1> HIDE DEF u
<1>6. Kept(u) /\ KeepsEngine(s, u)
  BY <1>4, <1>5, MarkSession
<1>7. Goes(u, v, o) /\ HasSession(v) /\ v.phase = "starting_generator"
  <2> DEFINE w == [Order(u, TRUE) EXCEPT !.desiredSource = "ups_only",
                                         !.phase = "starting_generator"]
  <2>1. Goes(u, w, o) /\ HasSession(w)
    <3>1. HasSession(u)
      BY <1>6 DEF KeepsEngine
    <3> QED
      BY <1>6, <3>1, OrderAndRedirectGoes DEF PowerSource, SupervisorPhase
  <2>2. Order(u, TRUE) \in Supervisor
    BY <1>6, OrderGoes DEF Goes, Kept, KeepsEngine
  <2>3. v = w /\ v.phase = "starting_generator"
    BY <2>2 DEF Supervisor
  <2> HIDE DEF v, w
  <2> QED
    BY <2>1, <2>3
<1>8. v.session = u.session
  <2>1. Order(u, TRUE) \in Supervisor /\ Order(u, TRUE).session = u.session
    BY <1>6, OrderGoes DEF Goes, Kept, KeepsEngine
  <2> QED
    BY <2>1 DEF Supervisor
<1> HIDE DEF v
<1>9. /\ Kept(v) /\ KeepsEngine(s, v) /\ Same(s, v) /\ SameDebts(s, v)
  BY <1>5, <1>6, <1>7, <1>8 DEF Goes, KeepsEngine, Slot, Same, SameDebts
<1> QED
  BY <1>3, <1>4, <1>5, <1>6, <1>7, <1>8, <1>9

\* _manual_start
LEMMA ManualStartObeys ==
  ASSUME NEW s, Kept(s), NEW o \in Observation, NEW c \in Intents
  PROVE  LET v == ManualStart(s, o, c)
         IN  /\ Kept(v) /\ Same(s, v) /\ v.restorePending = s.restorePending
             /\ HasSession(s) =>
                  /\ KeepsEngine(s, v) /\ v.suppressed = s.suppressed
                  /\ s.session.reason = "manual_generator_start" => v = s
             /\ ~HasSession(s) /\ HasSession(v) =>
                  Fresh(v.session, "manual_generator_start") /\ FromRest(v, o, c)
             /\ ~HasSession(v) =>
                  v.suppressed = s.suppressed /\ v.desiredSource = s.desiredSource
             /\ v.phase = "returning_to_grid" => s.phase = "returning_to_grid"
<1> DEFINE v == ManualStart(s, o, c)
<1>1. CASE HasSession(s)
  <2>1. CASE s.session.reason = "grid_outage"
    <3>1. v = TakeOver(s)
      BY <1>1, <2>1 DEF ManualStart
    <3> HIDE DEF v
    <3> QED
      BY <1>1, <2>1, <3>1, TakeOverKeeps DEF KeepsEngine, SameDebts, v
  <2>2. CASE s.session.reason # "grid_outage"
    <3>1. v = s
      BY <1>1, <2>2 DEF ManualStart
    <3> QED
      BY <1>1, <3>1 DEF KeepsEngine, Same
  <2> QED
    BY <2>1, <2>2
<1>2. CASE ~HasSession(s)
  <2> DEFINE taken == TakeFromExercise(s, o, c, "manual_generator_start",
                                       "handoff_to_manual", TRUE)
             begun == BeginSession(s, o, "manual_generator_start")
             u == IF c.exercise # Nobody THEN taken ELSE begun
             w == [u EXCEPT !.suppressed = FALSE]
  <2>1. v = IF HasSession(u) THEN w ELSE u
    BY <1>2 DEF ManualStart
  <2>2. Takes(s, u, o, c, "manual_generator_start")
    BY <1>2, TakeFromExerciseTakes, BeginSessionTakes
  <2> HIDE DEF u, v
  <2>3. CASE ~HasSession(u)
    BY <1>2, <2>1, <2>2, <2>3 DEF Takes, v
  <2>4. CASE HasSession(u)
    <3>1. /\ w \in Supervisor /\ w.session = u.session /\ w.desired = u.desired
          /\ w.phase = u.phase /\ w.restorePending = u.restorePending
          /\ w.directive = u.directive /\ Same(u, w)
      BY <2>2 DEF Takes, Kept, Supervisor, Same
    <3>2. v = w
      BY <2>1, <2>4
    <3> HIDE DEF w
    <3>3. Kept(w) /\ HasSession(w)
      BY <2>2, <2>4, <3>1 DEF Takes, Kept, HasSession, Slot
    <3>4. Fresh(w.session, "manual_generator_start") /\ FromRest(w, o, c)
      BY <2>2, <2>4, <3>1 DEF Takes, FromRest, Slot
    <3> QED
      BY <1>2, <2>2, <2>4, <3>1, <3>2, <3>3, <3>4 DEF Takes, Same, v
  <2> QED
    BY <2>3, <2>4
<1> QED
  BY <1>1, <1>2

\* _manual_stop: the session is asked to end, and in an outage that is not
\* forgotten with it.
LEMMA ManualStopObeys ==
  ASSUME NEW s, Kept(s), NEW o
  PROVE  LET v == ManualStop(s, o)
         IN  /\ Kept(v) /\ Same(s, v) /\ v.directive = s.directive
             /\ ~HasSession(s) => v = s
             /\ HasSession(s) =>
                  /\ KeepsEngine(s, v) /\ v.session.stopRequested
                  /\ o.grid = "no" => /\ v.suppressed /\ v.restorePending
                                      /\ v.phase = "returning_to_ups"
             /\ s.suppressed => v.suppressed
             /\ s.restorePending => v.restorePending
<1> DEFINE session == [s.session EXCEPT !.stopRequested = TRUE, !.cycleOwned = FALSE]
           ups == [s EXCEPT !.session = session, !.suppressed = TRUE,
                            !.restorePending = TRUE, !.desiredSource = "ups_only",
                            !.phase = "returning_to_ups"]
           home == [s EXCEPT !.session = session, !.desiredSource = "grid",
                             !.phase = "returning_to_grid"]
<1>1. CASE ~HasSession(s)
  BY <1>1 DEF ManualStop, Same
<1>2. CASE HasSession(s)
  <2>1. s \in Supervisor /\ s.session \in GeneratorSession
    BY <1>2, SessionTypes DEF Kept
  <2>2. ManualStop(s, o) = IF o.grid = "no" THEN ups ELSE home
    BY <1>2, <2>1 DEF ManualStop, Supervisor
  <2>3. /\ session \in GeneratorSession /\ session.generator = s.session.generator
        /\ session.fallbackUsed = s.session.fallbackUsed
        /\ session.reason = s.session.reason /\ ~session.cycleOwned
        /\ session.stopRequested
    BY <2>1 DEF GeneratorSession
  <2> HIDE DEF session
  <2>4. /\ ups \in Supervisor /\ ups.session = session /\ ups.desired = s.desired
        /\ ups.suppressed /\ ups.restorePending /\ ups.phase = "returning_to_ups"
        /\ ups.directive = s.directive /\ Same(s, ups)
    BY <2>1, <2>3 DEF Supervisor, SupervisorPhase, PowerSource, Same
  <2>5. /\ home \in Supervisor /\ home.session = session /\ home.desired = s.desired
        /\ Same(s, home) /\ SameDebts(s, home)
    BY <2>1, <2>3 DEF Supervisor, SupervisorPhase, PowerSource, Same, SameDebts
  <2> HIDE DEF ups, home
  <2>6. Kept(ups) /\ KeepsEngine(s, ups) /\ Kept(home) /\ KeepsEngine(s, home)
    BY <1>2, <2>3, <2>4, <2>5, MarkSession
  <2> QED
    BY <1>2, <2>2, <2>3, <2>4, <2>5, <2>6 DEF SameDebts
<1> QED
  BY <1>1, <1>2

\* _cycle_stop: the charge cycle ends the session that it owns.
LEMMA CycleStopObeys ==
  ASSUME NEW s, Kept(s)
  PROVE  LET v == CycleStop(s)
         IN  \/ v = s
             \/ /\ Kept(v) /\ Same(s, v) /\ SameDebts(s, v)
                /\ HasSession(s) /\ KeepsEngine(s, v) /\ v.session.stopRequested
                /\ v.phase = "returning_to_ups" /\ s.phase = "on_generator"
<1> DEFINE session == [s.session EXCEPT !.stopRequested = TRUE]
           v == [s EXCEPT !.session = session, !.desiredSource = "ups_only",
                          !.phase = "returning_to_ups"]
<1>1. CASE CycleStop(s) = s
  BY <1>1
<1>2. CASE CycleStop(s) # s
  <2>1. HasSession(s) /\ s.phase = "on_generator"
    BY <1>2 DEF CycleStop, HasSession, NoSession, NewSession
  <2>2. s \in Supervisor /\ s.session \in GeneratorSession
    BY <2>1, SessionTypes DEF Kept
  <2>3. CycleStop(s) = v
    BY <1>2, <2>2 DEF CycleStop, Supervisor
  <2>4. s.session.cycleOwned =>
          s.session.reason = "grid_outage" /\ ~s.session.manualOverride
    BY DEF Kept
  <2>5. /\ session \in GeneratorSession /\ session.generator = s.session.generator
        /\ session.fallbackUsed = s.session.fallbackUsed
        /\ session.reason = s.session.reason /\ session.stopRequested
        /\ session.cycleOwned =>
             session.reason = "grid_outage" /\ ~session.manualOverride
    BY <2>2, <2>4 DEF GeneratorSession
  <2> HIDE DEF session
  <2>6. /\ v \in Supervisor /\ v.session = session /\ v.desired = s.desired
        /\ v.phase = "returning_to_ups" /\ Same(s, v) /\ SameDebts(s, v)
    BY <2>2, <2>5 DEF Supervisor, SupervisorPhase, PowerSource, Same, SameDebts
  <2> HIDE DEF v
  <2>7. Kept(v) /\ KeepsEngine(s, v)
    BY <2>1, <2>5, <2>6, MarkSession
  <2> QED
    BY <2>1, <2>3, <2>5, <2>6, <2>7
<1> QED
  BY <1>1, <1>2

\* A request is taken up.
LEMMA RequestTaken ==
  ASSUME NEW s, Kept(s)
  PROVE  LET start == [s EXCEPT !.wantStart = FALSE]
             stop == [s EXCEPT !.wantStop = FALSE]
         IN  /\ Kept(start) /\ SameDebts(s, start)
             /\ start.session = s.session /\ start.phase = s.phase
             /\ start.desiredSource = s.desiredSource
             /\ start.readyFor = s.readyFor /\ start.wantStop = s.wantStop
             /\ Kept(stop) /\ SameDebts(s, stop)
             /\ stop.session = s.session /\ stop.phase = s.phase
             /\ stop.desiredSource = s.desiredSource
             /\ stop.readyFor = s.readyFor
<1> DEFINE start == [s EXCEPT !.wantStart = FALSE]
           stop == [s EXCEPT !.wantStop = FALSE]
<1>1. /\ start \in Supervisor /\ SameDebts(s, start)
      /\ start.session = s.session /\ start.phase = s.phase
      /\ start.desired = s.desired /\ start.desiredSource = s.desiredSource
      /\ start.readyFor = s.readyFor /\ start.wantStop = s.wantStop
  BY DEF Kept, Supervisor, SameDebts
<1>2. /\ stop \in Supervisor /\ SameDebts(s, stop)
      /\ stop.session = s.session /\ stop.phase = s.phase
      /\ stop.desired = s.desired /\ stop.desiredSource = s.desiredSource
      /\ stop.readyFor = s.readyFor
  BY DEF Kept, Supervisor, SameDebts
<1> HIDE DEF start, stop
<1>3. Kept(start) /\ Kept(stop)
  BY <1>1, <1>2 DEF Kept, HasSession, Slot
<1> QED
  BY <1>1, <1>2, <1>3 DEF start, stop

\* The start command begins a session, takes one over, or finds none to begin.
StartHeeded(s, o, c) ==
  /\ s.wantStart /\ s.session.reason # "manual_generator_start"
  /\ HasSession(AfterStart(s, o, c))

\* What the start command makes of a supervisor.
LEMMA AfterStartObeys ==
  ASSUME NEW s, Kept(s), NEW o \in Observation, NEW c \in Intents
  PROVE  LET v == AfterStart(s, o, c)
         IN  /\ Kept(v) /\ v.readyFor = s.readyFor /\ v.wantStop = s.wantStop
             /\ v.restorePending = s.restorePending
             /\ HasSession(s) => KeepsEngine(s, v) /\ v.suppressed = s.suppressed
             /\ HasSession(s) /\ s.session.stopRequested /\ ~StartHeeded(s, o, c) =>
                  v.session.stopRequested
             /\ ~HasSession(s) /\ HasSession(v) =>
                  /\ Fresh(v.session, "manual_generator_start")
                  /\ FromRest(v, o, c) /\ s.wantStart
             /\ ~HasSession(v) =>
                  v.suppressed = s.suppressed /\ v.desiredSource = s.desiredSource
             /\ v.phase = "returning_to_grid" => s.phase = "returning_to_grid"
<1> DEFINE v == AfterStart(s, o, c)
<1>1. CASE ~s.wantStart
  <2>1. v = s
    BY <1>1 DEF AfterStart
  <2> HIDE DEF v
  <2> QED
    BY <1>1, <2>1 DEF KeepsEngine, v
<1>2. CASE s.wantStart
  <2> DEFINE u == [s EXCEPT !.wantStart = FALSE]
             w == ManualStart(u, o, c)
  <2>1. v = w
    BY <1>2 DEF AfterStart
  <2>2. /\ Kept(u) /\ SameDebts(s, u)
        /\ u.session = s.session /\ u.phase = s.phase
        /\ u.desiredSource = s.desiredSource
        /\ u.readyFor = s.readyFor /\ u.wantStop = s.wantStop
    BY RequestTaken
  <2> HIDE DEF u
  <2>3. /\ Kept(w) /\ Same(u, w) /\ w.restorePending = u.restorePending
        /\ HasSession(u) =>
             /\ KeepsEngine(u, w) /\ w.suppressed = u.suppressed
             /\ u.session.reason = "manual_generator_start" => w = u
        /\ ~HasSession(u) /\ HasSession(w) =>
             Fresh(w.session, "manual_generator_start") /\ FromRest(w, o, c)
        /\ ~HasSession(w) =>
             w.suppressed = u.suppressed /\ w.desiredSource = u.desiredSource
        /\ w.phase = "returning_to_grid" => u.phase = "returning_to_grid"
    BY <2>2, ManualStartObeys
  <2> HIDE DEF v, w
  <2>4. HasSession(u) <=> HasSession(s)
    BY <2>2 DEF HasSession
  <2>5. HasSession(s) => KeepsEngine(s, v) /\ v.suppressed = s.suppressed
    BY <2>1, <2>2, <2>3, <2>4 DEF KeepsEngine, Slot, SameDebts
  <2>6. HasSession(s) /\ s.session.stopRequested /\ ~StartHeeded(s, o, c) =>
          v.session.stopRequested
    <3>1. HasSession(s) => HasSession(v)
      BY <2>5 DEF KeepsEngine
    <3> QED
      BY <1>2, <2>1, <2>2, <2>3, <2>4, <3>1 DEF StartHeeded, v
  <2> QED
    BY <1>2, <2>1, <2>2, <2>3, <2>4, <2>5, <2>6 DEF Same, SameDebts, v
<1> QED
  BY <1>1, <1>2

\* What the stop command makes of a supervisor.
LEMMA AfterStopObeys ==
  ASSUME NEW s, Kept(s), NEW o
  PROVE  LET v == AfterStop(s, o)
         IN  /\ Kept(v) /\ v.readyFor = s.readyFor /\ v.directive = s.directive
             /\ HasSession(s) => KeepsEngine(s, v)
             /\ HasSession(s) /\ s.session.stopRequested => v.session.stopRequested
             /\ HasSession(s) /\ s.wantStop /\ o.grid = "no" =>
                  /\ v.suppressed /\ v.restorePending /\ v.session.stopRequested
                  /\ v.phase = "returning_to_ups"
             /\ ~HasSession(s) => /\ ~HasSession(v) /\ v.phase = s.phase
                                  /\ v.desiredSource = s.desiredSource
             /\ s.suppressed => v.suppressed
             /\ s.restorePending => v.restorePending
             /\ v.phase = "returning_to_grid" =>
                  \/ s.phase = "returning_to_grid"
                  \/ HasSession(v) /\ v.session.stopRequested
<1> DEFINE v == AfterStop(s, o)
<1>1. CASE ~s.wantStop
  <2>1. v = s
    BY <1>1 DEF AfterStop
  <2> HIDE DEF v
  <2> QED
    BY <1>1, <2>1 DEF KeepsEngine, v
<1>2. CASE s.wantStop
  <2> DEFINE u == [s EXCEPT !.wantStop = FALSE]
             w == ManualStop(u, o)
  <2>1. v = w
    BY <1>2 DEF AfterStop
  <2>2. /\ Kept(u) /\ SameDebts(s, u)
        /\ u.session = s.session /\ u.phase = s.phase
        /\ u.desiredSource = s.desiredSource /\ u.readyFor = s.readyFor
    BY RequestTaken
  <2> HIDE DEF u
  <2>3. /\ Kept(w) /\ Same(u, w) /\ w.directive = u.directive
        /\ ~HasSession(u) => w = u
        /\ HasSession(u) =>
             /\ KeepsEngine(u, w) /\ w.session.stopRequested
             /\ o.grid = "no" => /\ w.suppressed /\ w.restorePending
                                 /\ w.phase = "returning_to_ups"
        /\ u.suppressed => w.suppressed
        /\ u.restorePending => w.restorePending
    BY <2>2, ManualStopObeys
  <2> HIDE DEF v, w
  <2>4. HasSession(u) <=> HasSession(s)
    BY <2>2 DEF HasSession
  <2>5. HasSession(s) => KeepsEngine(s, v)
    BY <2>1, <2>2, <2>3, <2>4 DEF KeepsEngine, Slot
  <2>6. CASE HasSession(s)
    BY <2>1, <2>2, <2>3, <2>4, <2>5, <2>6 DEF KeepsEngine, Same, SameDebts, v
  <2>7. CASE ~HasSession(s)
    BY <2>1, <2>2, <2>3, <2>4, <2>7 DEF SameDebts, v
  <2> QED
    BY <2>6, <2>7
<1> QED
  BY <1>1, <1>2

\* What the commands of a tick make of a supervisor: a session keeps its engine,
\* a new one was started by the user with an engine at rest, a stop is in force
\* and remembered until a start is heeded.
Obeys(s, v, o, c) ==
  /\ Kept(v) /\ v.readyFor = s.readyFor
  /\ HasSession(s) => KeepsEngine(s, v)
  /\ ~HasSession(s) /\ HasSession(v) =>
       v.session.reason = "manual_generator_start" /\ FromRest(v, o, c)
  /\ ~HasSession(s) /\ HasSession(v) => StartHeeded(s, o, c)
  /\ ~HasSession(v) => v.desiredSource = s.desiredSource
  /\ v.phase = "returning_to_grid" =>
       \/ s.phase = "returning_to_grid"
       \/ HasSession(v) /\ v.session.stopRequested
  /\ s.restorePending => v.restorePending
  /\ s.suppressed /\ ~StartHeeded(s, o, c) => v.suppressed
  /\ HasSession(s) /\ s.session.stopRequested /\ ~StartHeeded(s, o, c) =>
       v.session.stopRequested
  /\ s.wantStop /\ HasSession(AfterStart(s, o, c)) /\ o.grid = "no" =>
       /\ HasSession(v) /\ v.session.stopRequested
       /\ v.suppressed /\ v.restorePending /\ v.phase # "returning_to_grid"

\* The user first, then the cycle.
LEMMA CommandedObeys ==
  ASSUME NEW s, Kept(s), NEW o \in Observation, NEW c \in Intents
  PROVE  Obeys(s, Commanded(s, o, c), o, c)
<1> DEFINE x == AfterStart(s, o, c)
           y == AfterStop(x, o)
           z == CycleStop(y)
<1>1. Commanded(s, o, c) \in {y, z}
  BY DEF Commanded
<1>2. /\ Kept(x) /\ x.readyFor = s.readyFor /\ x.wantStop = s.wantStop
      /\ x.restorePending = s.restorePending
      /\ HasSession(s) => KeepsEngine(s, x) /\ x.suppressed = s.suppressed
      /\ HasSession(s) /\ s.session.stopRequested /\ ~StartHeeded(s, o, c) =>
           x.session.stopRequested
      /\ ~HasSession(s) /\ HasSession(x) =>
           /\ Fresh(x.session, "manual_generator_start")
           /\ FromRest(x, o, c) /\ s.wantStart
      /\ ~HasSession(x) =>
           x.suppressed = s.suppressed /\ x.desiredSource = s.desiredSource
      /\ x.phase = "returning_to_grid" => s.phase = "returning_to_grid"
  BY AfterStartObeys
<1>3. ~HasSession(s) /\ HasSession(x) => StartHeeded(s, o, c)
  <2>1. ~HasSession(s) => s.session.reason # "manual_generator_start"
    BY DEF HasSession, NoSession, NewSession, Nobody
  <2> QED
    BY <1>2, <2>1 DEF StartHeeded
<1> HIDE DEF x
<1>4. /\ Kept(y) /\ y.readyFor = x.readyFor /\ y.directive = x.directive
      /\ HasSession(x) => KeepsEngine(x, y)
      /\ HasSession(x) /\ x.session.stopRequested => y.session.stopRequested
      /\ HasSession(x) /\ x.wantStop /\ o.grid = "no" =>
           /\ y.suppressed /\ y.restorePending /\ y.session.stopRequested
           /\ y.phase = "returning_to_ups"
      /\ ~HasSession(x) => /\ ~HasSession(y) /\ y.phase = x.phase
                           /\ y.desiredSource = x.desiredSource
      /\ x.suppressed => y.suppressed
      /\ x.restorePending => y.restorePending
      /\ y.phase = "returning_to_grid" =>
           \/ x.phase = "returning_to_grid"
           \/ HasSession(y) /\ y.session.stopRequested
  BY <1>2, AfterStopObeys
<1> HIDE DEF y
<1>5. Obeys(s, y, o, c)
  <2>1. HasSession(s) => KeepsEngine(s, y)
    BY <1>2, <1>4 DEF KeepsEngine
  <2>2. HasSession(y) <=> HasSession(x)
    BY <1>4 DEF KeepsEngine
  <2>3. ~HasSession(s) /\ HasSession(y) =>
          y.session.reason = "manual_generator_start" /\ FromRest(y, o, c)
    BY <1>2, <1>4, <2>2 DEF KeepsEngine, Fresh, FromRest
  <2>4. s.suppressed /\ ~StartHeeded(s, o, c) => y.suppressed
    BY <1>2, <1>3, <1>4
  <2>5. HasSession(s) /\ s.session.stopRequested /\ ~StartHeeded(s, o, c) =>
          y.session.stopRequested
    BY <1>2, <1>4 DEF KeepsEngine
  <2>6. s.wantStop /\ HasSession(AfterStart(s, o, c)) /\ o.grid = "no" =>
          /\ HasSession(y) /\ y.session.stopRequested
          /\ y.suppressed /\ y.restorePending /\ y.phase # "returning_to_grid"
    BY <1>2, <1>4 DEF KeepsEngine, x
  <2> QED
    BY <1>2, <1>3, <1>4, <2>1, <2>2, <2>3, <2>4, <2>5, <2>6 DEF Obeys
<1>6. \/ z = y
      \/ /\ Kept(z) /\ Same(y, z) /\ SameDebts(y, z)
         /\ HasSession(y) /\ KeepsEngine(y, z) /\ z.session.stopRequested
         /\ z.phase = "returning_to_ups" /\ y.phase = "on_generator"
  BY <1>4, CycleStopObeys
<1> HIDE DEF z
<1>7. Obeys(s, z, o, c)
  BY <1>5, <1>6 DEF Obeys, KeepsEngine, FromRest, Same, SameDebts
<1> QED
  BY <1>1, <1>5, <1>7

-------------------------------------------------------------------------------
(***************************************************************************)
(* A tick.                                                                 *)
(***************************************************************************)

\* The session and what the user has left behind are untouched.
SameCharge(s, v) ==
  /\ v.session = s.session
  /\ v.suppressed = s.suppressed /\ v.restorePending = s.restorePending
  /\ v.wantStart = s.wantStart /\ v.wantStop = s.wantStop
  /\ v.phase = "returning_to_grid" => s.phase = "returning_to_grid"
  /\ v.desiredSource = "grid" => s.desiredSource = "grid"

\* Time passes.
LEMMA ElapseKeeps ==
  ASSUME NEW s, Kept(s)
  PROVE  LET v == Elapse(s)
         IN  /\ Kept(v) /\ SameCharge(s, v) /\ v.initialized = s.initialized
             /\ v.phase = s.phase
             /\ v.readyFor = NoTimer <=> s.readyFor = NoTimer
<1> DEFINE failedFor == IF s.failedFor \in 0..(FailureDelay - 1)
                        THEN s.failedFor + 1 ELSE s.failedFor
           readyFor == IF s.readyFor \in 0..(StableTime - 1)
                       THEN s.readyFor + 1 ELSE s.readyFor
           v == [s EXCEPT !.failedFor = failedFor, !.readyFor = readyFor]
<1>1. s \in Supervisor
  BY DEF Kept
<1>2. Elapse(s) = v
  BY <1>1 DEF Elapse, Supervisor
<1>3. /\ s.failedFor \in NoTimer..FailureDelay /\ s.readyFor \in NoTimer..StableTime
  BY <1>1 DEF Supervisor
<1>4. /\ failedFor \in NoTimer..FailureDelay /\ readyFor \in NoTimer..StableTime
      /\ readyFor = NoTimer <=> s.readyFor = NoTimer
  BY <1>3, SupervisorAssumption DEF NoTimer
<1> HIDE DEF failedFor, readyFor
<1>5. /\ v \in Supervisor /\ v.readyFor = readyFor /\ v.desired = s.desired
      /\ v.initialized = s.initialized /\ v.phase = s.phase /\ SameCharge(s, v)
  BY <1>1, <1>4 DEF Supervisor, SameCharge
<1> HIDE DEF v
<1>6. Kept(v)
  BY <1>5 DEF Kept, SameCharge, HasSession, Slot
<1> QED
  BY <1>2, <1>4, <1>5, <1>6

\* The timers follow what is seen of the grid.
LEMMA UpdateGridTimerKeeps ==
  ASSUME NEW s, Kept(s), NEW grid
  PROVE  LET v == UpdateGridTimer(s, grid)
         IN  /\ Kept(v) /\ SameCharge(s, v) /\ v.directive = s.directive
             /\ grid # "yes" => v.readyFor = NoTimer
<1> DEFINE since == IF s.readyFor = NoTimer THEN 0 ELSE s.readyFor
           yes == [s EXCEPT !.readyFor = since, !.failedFor = NoTimer]
           no == [s EXCEPT !.readyFor = NoTimer]
           other == [s EXCEPT !.readyFor = NoTimer, !.failedFor = NoTimer]
<1>1. s \in Supervisor
  BY DEF Kept
<1>2. /\ grid = "yes" => UpdateGridTimer(s, grid) = yes
      /\ grid # "yes" => UpdateGridTimer(s, grid) \in {no, other}
  <2>1. yes = [s EXCEPT !.readyFor = IF @ = NoTimer THEN 0 ELSE @, !.failedFor = NoTimer]
    OBVIOUS
  <2> HIDE DEF yes
  <2> QED
    BY <2>1 DEF UpdateGridTimer
<1>3. since \in NoTimer..StableTime
  BY <1>1, SupervisorAssumption DEF Supervisor, NoTimer
<1>4. NoTimer \in NoTimer..StableTime /\ NoTimer \in NoTimer..FailureDelay
  BY SupervisorAssumption DEF NoTimer
<1> HIDE DEF since
<1>5. /\ yes \in Supervisor /\ yes.desired = s.desired /\ SameCharge(s, yes)
      /\ yes.directive = s.directive
  BY <1>1, <1>3, <1>4 DEF Supervisor, SameCharge
<1>6. /\ no \in Supervisor /\ no.desired = s.desired /\ SameCharge(s, no)
      /\ no.directive = s.directive /\ no.readyFor = NoTimer
  BY <1>1, <1>4 DEF Supervisor, SameCharge
<1>7. /\ other \in Supervisor /\ other.desired = s.desired /\ SameCharge(s, other)
      /\ other.directive = s.directive /\ other.readyFor = NoTimer
  BY <1>1, <1>4 DEF Supervisor, SameCharge
<1> HIDE DEF yes, no, other
<1>8. Kept(yes) /\ Kept(no) /\ Kept(other)
  BY <1>5, <1>6, <1>7 DEF Kept, SameCharge, HasSession, Slot
<1> QED
  BY <1>2, <1>5, <1>6, <1>7, <1>8

\* _initialize: on the first tick a session goes on, or waits for a technician.
LEMMA InitializeKeeps ==
  ASSUME NEW s, Kept(s), NEW o
  PROVE  LET v == Initialize(s, o)
         IN  Kept(v) /\ SameCharge(s, v) /\ v.directive = s.directive
<1> DEFINE recovered == RequireRecovery(s)
           finished == FinishSession(s)
           d == {Slot(s)} \cap {o.owner}
           going == [s EXCEPT !.desiredSource = "generator", !.desired = d]
<1>1. \/ Initialize(s, o) \in {s, recovered}
      \/ ~HasSession(s) /\ Initialize(s, o) = finished
      \/ HasSession(s) /\ Initialize(s, o) = going
  BY DEF Initialize
<1>2. Kept(recovered) /\ SameCharge(s, recovered) /\ recovered.directive = s.directive
  BY RequireRecoveryGoes DEF Goes, Same, SameDebts, SameCharge
<1>3. ~HasSession(s) =>
        /\ Kept(finished) /\ SameCharge(s, finished)
        /\ finished.directive = s.directive
  <2>1. /\ Goes(s, finished, o) /\ ~HasSession(finished)
        /\ finished.desiredSource = Nobody /\ finished.phase = "normal"
    BY EndSessionGoes
  <2> HIDE DEF finished
  <2> QED
    BY <2>1 DEF Goes, Same, SameDebts, SameCharge, HasSession, Nobody
<1>4. HasSession(s) => Kept(going) /\ SameCharge(s, going) /\ going.directive = s.directive
  <2> SUFFICES ASSUME HasSession(s)
               PROVE  Kept(going) /\ SameCharge(s, going) /\ going.directive = s.directive
    OBVIOUS
  <2>1. d \in SUBSET GeneratorSlot /\ d \subseteq {Slot(s)}
    BY SessionTypes
  <2> HIDE DEF d
  <2>2. /\ going \in Supervisor /\ going.desired = d /\ SameCharge(s, going)
        /\ going.directive = s.directive
    BY <2>1 DEF Kept, Supervisor, PowerSource, SameCharge
  <2> HIDE DEF going
  <2>3. Kept(going)
    BY <2>1, <2>2 DEF Kept, SameCharge, HasSession, Slot
  <2> QED
    BY <2>2, <2>3
<1>5. SameCharge(s, s)
  BY DEF SameCharge
<1> HIDE DEF recovered, finished, going
<1> QED
  BY <1>1, <1>2, <1>3, <1>4, <1>5

\* The beginning of a tick.
LEMMA PreludeKeeps ==
  ASSUME NEW s, Kept(s), NEW o
  PROVE  LET u == Prelude(s, o)
         IN  /\ Kept(u) /\ SameCharge(s, u) /\ u.directive = "none"
             /\ o.grid # "yes" => u.readyFor = NoTimer
<1> DEFINE u == [s EXCEPT !.stopOutage = {}, !.directive = "none",
                          !.postCycleWait = FALSE]
           first == Initialize(u, o)
           begun == [first EXCEPT !.initialized = TRUE]
           v == IF u.initialized THEN u ELSE begun
           w == UpdateGridTimer(v, o.grid)
<1>1. Prelude(s, o) = w
  BY DEF Prelude
<1>2. /\ u \in Supervisor /\ u.desired = s.desired /\ u.directive = "none"
      /\ SameCharge(s, u)
  BY DEF Kept, Supervisor, ExerciseDirective, SameCharge
<1> HIDE DEF u
<1>3. Kept(u)
  BY <1>2 DEF Kept, SameCharge, HasSession, Slot
<1>4. Kept(first) /\ SameCharge(u, first) /\ first.directive = "none"
  BY <1>2, <1>3, InitializeKeeps
<1> HIDE DEF first
<1>5. /\ begun \in Supervisor /\ begun.desired = first.desired
      /\ begun.directive = "none" /\ SameCharge(first, begun)
  BY <1>4 DEF Kept, Supervisor, SameCharge
<1> HIDE DEF begun
<1>6. Kept(begun)
  BY <1>4, <1>5 DEF Kept, SameCharge, HasSession, Slot
<1>7. Kept(v) /\ SameCharge(u, v) /\ v.directive = "none"
  BY <1>2, <1>3, <1>4, <1>5, <1>6 DEF SameCharge
<1> HIDE DEF v
<1>8. /\ Kept(w) /\ SameCharge(v, w) /\ w.directive = v.directive
      /\ o.grid # "yes" => w.readyFor = NoTimer
  BY <1>7, UpdateGridTimerKeeps
<1> HIDE DEF w
<1>9. SameCharge(s, w)
  BY <1>2, <1>7, <1>8 DEF SameCharge
<1> QED
  BY <1>1, <1>7, <1>8, <1>9

\* What conducting makes of a supervisor that has obeyed its commands.
Conducted(u, w, o, c) ==
  /\ Kept(w) /\ w.readyFor = u.readyFor
  /\ HasSession(u) =>
       w.suppressed = u.suppressed /\ w.restorePending = u.restorePending
  /\ HasSession(u) /\ HasSession(w) =>
       /\ SameEngine(u, w, o) /\ w.directive = u.directive
       /\ w.session.stopRequested = u.session.stopRequested \/ GridStable(u)
  /\ ~HasSession(u) /\ HasSession(w) => ~u.suppressed /\ FromRest(w, o, c)
  /\ u.suppressed /\ o.grid # "yes" => w.suppressed
  /\ u.restorePending /\ (HasSession(u) \/ ~GridPath(o)) => w.restorePending
  /\ w.phase = "returning_to_grid" =>
       /\ u.phase = "returning_to_grid" \/ GridStable(u)
       /\ HasSession(u) => HasSession(w)
  /\ ~HasSession(w) /\ w.desiredSource = "grid" => ~HasSession(u) /\ GridStable(u)

\* No session is not the cycle's.
LEMMA NoSessionUnmarked == [NoSession EXCEPT !.cycleOwned = FALSE] = NoSession
<1> DEFINE Blank == [reason : {Nobody}, generator : {Nobody},
                     gridWasUnavailable : {FALSE}, stopRequested : {FALSE},
                     fallbackUsed : {FALSE}, externalTakeover : {FALSE},
                     cycleOwned : {FALSE}, manualOverride : {FALSE}]
<1>1. NoSession \in Blank
  BY DEF NoSession, NewSession
<1>2. \A session \in Blank : [session EXCEPT !.cycleOwned = FALSE] = session
  OBVIOUS
<1> QED
  BY <1>1, <1>2

\* The session after the commands, or none; the cycle claims no session of the
\* user.
LEMMA ConductConducted ==
  ASSUME NEW before, NEW u, Kept(u), NEW o \in Observation, NEW c \in Intents,
         HasSession(u) /\ ~HasSession(before) =>
           u.session.reason = "manual_generator_start"
  PROVE  Conducted(u, Conduct(before, u, o, c), o, c)
<1> DEFINE v == IF HasSession(u) THEN WithSession(u, o) ELSE WithoutSession(u, o, c)
           claimed == /\ c.claim /\ ~HasSession(before)
                      /\ v.session.reason = "grid_outage"
                      /\ v.directive # "handoff_to_outage"
           owned == v.session.cycleOwned \/ claimed
           wait == /\ u.session.cycleOwned /\ u.phase = "returning_to_ups"
                   /\ ~HasSession(v) /\ o.grid = "no"
           session == [v.session EXCEPT !.cycleOwned = owned]
           w == [v EXCEPT !.session = session, !.postCycleWait = wait]
<1>1. HasSession(u) => Conducts(u, v, o)
  BY WithSessionConducts
<1>2. ~HasSession(u) => Waits(u, v, o, c)
  BY WithoutSessionWaits
<1>3. Conduct(before, u, o, c) =
        [v EXCEPT !.session.cycleOwned = @ \/ claimed, !.postCycleWait = wait]
  BY DEF Conduct
<1> HIDE DEF v
<1>4. Kept(v)
  BY <1>1, <1>2 DEF Conducts, Waits
<1>5. claimed => HasSession(v) /\ v.session.reason = "grid_outage"
                 /\ ~v.session.manualOverride
  <2> SUFFICES ASSUME claimed
               PROVE  HasSession(v) /\ v.session.reason = "grid_outage"
                      /\ ~v.session.manualOverride
    OBVIOUS
  <2>1. HasSession(v)
    BY DEF HasSession, NoSession, NewSession, Nobody
  <2>2. ~HasSession(u)
    BY <1>1, <2>1 DEF Conducts, SameOwner
  <2> QED
    BY <1>2, <2>1, <2>2 DEF Waits, Fresh
<1>6. owned \in BOOLEAN /\ claimed \in BOOLEAN /\ wait \in BOOLEAN
  BY DEF Intents
<1>7. v.session.cycleOwned =>
        HasSession(v) /\ v.session.reason = "grid_outage" /\ ~v.session.manualOverride
  BY <1>4 DEF Kept, HasSession, NoSession, NewSession
<1>8. owned => HasSession(v) /\ v.session.reason = "grid_outage"
               /\ ~v.session.manualOverride
  BY <1>5, <1>7
<1>9. Conduct(before, u, o, c) = w
  <2>1. v \in Supervisor
    BY <1>4 DEF Kept
  <2> HIDE DEF claimed, wait
  <2> QED
    BY <1>3, <2>1 DEF Supervisor
<1> HIDE DEF owned, wait, claimed
<1>10. CASE HasSession(v)
  <2>1. v.session \in GeneratorSession
    BY <1>4, <1>10, SessionTypes
  <2>2. /\ session \in GeneratorSession
        /\ session.generator = v.session.generator
        /\ session.fallbackUsed = v.session.fallbackUsed
        /\ session.stopRequested = v.session.stopRequested
        /\ session.reason = v.session.reason
        /\ session.manualOverride = v.session.manualOverride
        /\ session.cycleOwned = owned
    BY <1>6, <2>1 DEF GeneratorSession
  <2> HIDE DEF session
  <2>3. /\ w \in Supervisor /\ w.session = session /\ w.desired = v.desired
        /\ w.phase = v.phase /\ w.desiredSource = v.desiredSource
        /\ Same(v, w) /\ SameDebts(v, w)
    BY <1>4, <1>6, <2>2 DEF Kept, Supervisor, Same, SameDebts
  <2> HIDE DEF w
  <2>4. Kept(w) /\ KeepsEngine(v, w)
    BY <1>4, <1>8, <1>10, <2>2, <2>3, MarkSession
  <2>5. CASE HasSession(u)
    <3>1. SameEngine(u, v, o) => SameEngine(u, w, o)
      BY <2>4 DEF SameEngine, KeepsEngine
    <3> QED
      BY <1>1, <1>9, <1>10, <2>2, <2>3, <2>4, <2>5, <3>1
      DEF Conducts, Conducted, KeepsEngine, Same, SameDebts
  <2>6. CASE ~HasSession(u)
    <3>1. FromRest(v, o, c) => FromRest(w, o, c)
      BY <2>3, <2>4 DEF FromRest, KeepsEngine, SameDebts
    <3> QED
      BY <1>2, <1>9, <1>10, <2>3, <2>4, <2>6, <3>1
      DEF Waits, Conducted, KeepsEngine, Same, SameDebts
  <2> QED
    BY <2>5, <2>6
<1>11. CASE ~HasSession(v)
  <2>1. v.session = NoSession /\ ~owned
    BY <1>8, <1>11 DEF HasSession
  <2>2. session = NoSession
    <3>1. [NoSession EXCEPT !.cycleOwned = FALSE] = NoSession
      BY NoSessionUnmarked
    <3>2. owned = FALSE
      BY <1>6, <2>1
    <3> QED
      BY <2>1, <3>1, <3>2
  <2> HIDE DEF session
  <2>3. /\ w \in Supervisor /\ w.session = v.session /\ w.desired = v.desired
        /\ w.phase = v.phase /\ w.desiredSource = v.desiredSource
        /\ Same(v, w) /\ SameDebts(v, w)
    BY <1>4, <1>6, <2>1, <2>2 DEF Kept, Supervisor, Same, SameDebts
  <2> HIDE DEF w
  <2>4. Kept(w) /\ ~HasSession(w)
    BY <1>4, <1>11, <2>3 DEF Kept, HasSession
  <2>5. CASE HasSession(u)
    BY <1>1, <1>9, <1>11, <2>3, <2>4, <2>5 DEF Conducts, Conducted, Same, SameDebts
  <2>6. CASE ~HasSession(u)
    BY <1>2, <1>9, <1>11, <2>3, <2>4, <2>6 DEF Waits, Conducted, Same, SameDebts
  <2> QED
    BY <2>5, <2>6
<1> QED
  BY <1>10, <1>11

\* The stop command is heeded.
StopHeeded(s, o, c) ==
  LET u == Prelude(s, o)
  IN Attends(u, o) /\ s.wantStop /\ HasSession(AfterStart(u, o, c))

\* The start command is heeded, by more than the session it began.
Restarted(s, o, c) ==
  LET u == Prelude(s, o)
  IN Attends(u, o) /\ StartHeeded(u, o, c)

\* A stop of the user is remembered.
Minds(s) == s.suppressed /\ (HasSession(s) => s.session.stopRequested)

\* What a tick makes of a supervisor.
Steps(s, v, o, c) ==
  /\ Kept(v)
  /\ o.grid # "yes" => v.readyFor = NoTimer
  /\ HasSession(s) /\ HasSession(v) => SameEngine(s, v, o)
  /\ ~HasSession(s) /\ HasSession(v) => FromRest(v, o, c)
  /\ StopHeeded(s, o, c) /\ o.grid = "no" => Minds(v) /\ v.restorePending
  /\ Minds(s) /\ ~Restarted(s, o, c) /\ o.grid # "yes" => Minds(v)
  /\ s.restorePending /\ (HasSession(s) \/ ~GridPath(o)) => v.restorePending
  /\ v.phase = "returning_to_grid" =>
       \/ s.phase = "returning_to_grid" \/ v.session.stopRequested \/ GridStable(v)
  /\ ~HasSession(v) /\ v.desiredSource = "grid" /\ s.desiredSource # "grid" =>
       v.phase = "recovery_required" \/ GridStable(v)

\* While the grid is not seen to be there, it is not stable.
LEMMA UnseenIsNotStable ==
  ASSUME NEW s, s.readyFor = NoTimer
  PROVE  ~GridStable(s)
BY SupervisorAssumption DEF GridStable, NoTimer

\* A tick in which something outranks the user's commands, or in which they are
\* all that happens.
LEMMA QuietSteps ==
  ASSUME NEW s, Kept(s), NEW o, NEW c, NEW v, Kept(v),
         o.grid # "yes" => v.readyFor = NoTimer,
         v.session = s.session, v.suppressed = s.suppressed,
         v.restorePending = s.restorePending,
         v.phase = "returning_to_grid" => s.phase = "returning_to_grid",
         v.desiredSource = "grid" => s.desiredSource = "grid",
         ~Attends(Prelude(s, o), o)
  PROVE  Steps(s, v, o, c)
<1>1. HasSession(v) <=> HasSession(s)
  BY DEF HasSession
<1>2. HasSession(s) => SameEngine(s, v, o)
  BY DEF SameEngine, Slot
<1>3. ~StopHeeded(s, o, c)
  BY DEF StopHeeded
<1>4. Minds(s) => Minds(v)
  BY <1>1 DEF Minds
<1> QED
  BY <1>1, <1>2, <1>3, <1>4 DEF Steps

\* The tick is conducted, or the commands have failed it.
LEMMA AttentiveSteps ==
  ASSUME NEW s, Kept(s), NEW o \in Observation, NEW c \in Intents,
         Attends(Prelude(s, o), o)
  PROVE  LET v == Commanded(Prelude(s, o), o, c)
             w == IF v.phase = "recovery_required" THEN v ELSE Conduct(s, v, o, c)
         IN  Steps(s, w, o, c)
<1> DEFINE u == Prelude(s, o)
           v == Commanded(u, o, c)
           conducted == Conduct(s, v, o, c)
           w == IF v.phase = "recovery_required" THEN v ELSE conducted
<1>1. /\ Kept(u) /\ SameCharge(s, u)
      /\ o.grid # "yes" => u.readyFor = NoTimer
  BY PreludeKeeps
<1>2. StopHeeded(s, o, c) <=> u.wantStop /\ HasSession(AfterStart(u, o, c))
  BY <1>1 DEF StopHeeded, SameCharge
<1>3. Restarted(s, o, c) <=> StartHeeded(u, o, c)
  BY DEF Restarted
<1>4. HasSession(s) <=> HasSession(u)
  BY <1>1 DEF HasSession, SameCharge
<1> HIDE DEF u
<1>5. Obeys(u, v, o, c)
  BY <1>1, CommandedObeys
<1> HIDE DEF v
<1>6. Kept(v) /\ v.readyFor = u.readyFor
  BY <1>5 DEF Obeys
<1>7. HasSession(v) /\ ~HasSession(s) => v.session.reason = "manual_generator_start"
  BY <1>4, <1>5 DEF Obeys
<1>8. Conducted(v, conducted, o, c)
  BY <1>6, <1>7, ConductConducted
<1> HIDE DEF conducted
<1>9. Kept(w) /\ w.readyFor = u.readyFor
  BY <1>6, <1>8 DEF Conducted
<1>10. o.grid # "yes" => ~GridStable(v)
  BY <1>1, <1>6, UnseenIsNotStable
<1>11. GridStable(w) <=> GridStable(v)
  BY <1>6, <1>9 DEF GridStable
<1>12. /\ HasSession(s) => HasSession(v)
       /\ HasSession(s) => Slot(v) = Slot(s)
       /\ HasSession(s) => v.session.fallbackUsed = s.session.fallbackUsed
  <2>1. HasSession(s) => KeepsEngine(u, v)
    BY <1>4, <1>5 DEF Obeys
  <2> QED
    BY <1>1, <2>1 DEF KeepsEngine, SameCharge, Slot
<1>13. HasSession(s) /\ HasSession(w) => SameEngine(s, w, o)
  BY <1>8, <1>12 DEF Conducted, SameEngine
<1>14. ~HasSession(s) /\ HasSession(w) => FromRest(w, o, c)
  <2>1. ~HasSession(s) /\ HasSession(v) => FromRest(v, o, c)
    BY <1>4, <1>5 DEF Obeys
  <2> QED
    BY <1>8, <2>1 DEF Conducted, SameEngine, FromRest
<1>15. ASSUME StopHeeded(s, o, c), o.grid = "no"
       PROVE  Minds(w) /\ w.restorePending
  <2>1. HasSession(v) /\ v.session.stopRequested /\ v.suppressed /\ v.restorePending
    BY <1>2, <1>5, <1>15 DEF Obeys
  <2>2. ~GridStable(v)
    BY <1>10, <1>15
  <2> QED
    BY <1>8, <2>1, <2>2 DEF Conducted, Minds
<1>16. ASSUME Minds(s), ~Restarted(s, o, c), o.grid # "yes"
       PROVE  Minds(w)
  <2>1. v.suppressed /\ (HasSession(s) => v.session.stopRequested)
    BY <1>1, <1>3, <1>4, <1>5, <1>16 DEF Minds, Obeys, SameCharge
  <2>2. HasSession(v) => HasSession(s)
    BY <1>3, <1>4, <1>5, <1>16 DEF Obeys
  <2>3. ~GridStable(v)
    BY <1>10, <1>16
  <2> QED
    BY <1>8, <1>16, <2>1, <2>2, <2>3 DEF Conducted, Minds
<1>17. ASSUME s.restorePending, HasSession(s) \/ ~GridPath(o)
       PROVE  w.restorePending
  <2>1. v.restorePending
    BY <1>1, <1>5, <1>17 DEF Obeys, SameCharge
  <2> QED
    BY <1>8, <1>12, <1>17, <2>1 DEF Conducted
<1>18. w.phase = "returning_to_grid" =>
         s.phase = "returning_to_grid" \/ w.session.stopRequested \/ GridStable(w)
  <2> SUFFICES ASSUME w.phase = "returning_to_grid", s.phase # "returning_to_grid",
                      ~GridStable(w)
               PROVE  w.session.stopRequested
    OBVIOUS
  <2>1. v.phase = "returning_to_grid" /\ w = conducted
    BY <1>8, <1>11 DEF Conducted
  <2>2. HasSession(v) /\ v.session.stopRequested
    BY <1>1, <1>5, <2>1 DEF Obeys, SameCharge
  <2> QED
    BY <1>8, <1>11, <2>1, <2>2 DEF Conducted
<1>19. ~HasSession(w) /\ w.desiredSource = "grid" /\ s.desiredSource # "grid" =>
         w.phase = "recovery_required" \/ GridStable(w)
  BY <1>8, <1>11 DEF Conducted
<1> HIDE DEF w
<1>20. Steps(s, w, o, c)
  BY <1>1, <1>9, <1>13, <1>14, <1>15, <1>16, <1>17, <1>18, <1>19 DEF Steps
<1> QED
  BY <1>20 DEF u, v, w, conducted

\* An exercise that failed is told so, and nothing else changes.
LEMMA FailExerciseKeeps ==
  ASSUME NEW s, Kept(s), NEW c
  PROVE  LET v == FailExercise(s, c)
         IN  /\ Kept(v) /\ Same(s, v)
             /\ v.suppressed = s.suppressed /\ v.restorePending = s.restorePending
             /\ v.session = s.session /\ v.phase = s.phase
             /\ v.desiredSource = s.desiredSource
             /\ v.directive \in {s.directive, "fail_active"}
<1>1. "fail_active" \in ExerciseDirective
  BY DEF ExerciseDirective
<1>2. FailExercise(s, c) \in {s, SetDirective(s, "fail_active")}
  BY DEF FailExercise
<1> QED
  BY <1>1, <1>2, SetDirectiveKeeps DEF Same

\* The requests of the user are discarded, and nothing else changes.
LEMMA DiscardRequestsKeeps ==
  ASSUME NEW s, Kept(s)
  PROVE  LET v == DiscardRequests(s)
         IN  /\ Kept(v) /\ v.readyFor = s.readyFor
             /\ v.suppressed = s.suppressed /\ v.restorePending = s.restorePending
             /\ v.session = s.session /\ v.phase = s.phase
             /\ v.desiredSource = s.desiredSource
<1> DEFINE v == DiscardRequests(s)
<1>1. /\ v \in Supervisor /\ v.readyFor = s.readyFor /\ v.desired = s.desired
      /\ v.suppressed = s.suppressed /\ v.restorePending = s.restorePending
      /\ v.session = s.session /\ v.phase = s.phase
      /\ v.desiredSource = s.desiredSource
  BY DEF Kept, Supervisor, DiscardRequests
<1> HIDE DEF v
<1>2. Kept(v)
  BY <1>1 DEF Kept, HasSession, Slot
<1> QED
  BY <1>1, <1>2 DEF v

\* step
LEMMA StepSteps ==
  ASSUME NEW s, Kept(s), NEW o \in Observation, NEW c \in Intents
  PROVE  Steps(s, Step(s, o, c), o, c)
<1> DEFINE u == Prelude(s, o)
           v == Commanded(u, o, c)
           w == IF v.phase = "recovery_required" THEN v ELSE Conduct(s, v, o, c)
           failed == FailExercise(w, c)
           quiet == DiscardRequests(u)
           recovered == RequireRecovery(quiet)
           told == FailExercise(recovered, c)
<1>1. \/ Attends(u, o) /\ Step(s, o, c) = w
      \/ Attends(u, o) /\ w.phase = "recovery_required" /\ Step(s, o, c) = failed
      \/ ~Attends(u, o) /\ Step(s, o, c) = told
      \/ ~Attends(u, o) /\ Step(s, o, c) = quiet
  <2> HIDE DEF u, v, w
  <2>1. Step(s, o, c) =
          CASE Attends(u, o) -> IF w.phase = "recovery_required" THEN failed ELSE w
            [] ~Attends(u, o) /\ RequiredStatesKnown(o) -> told
            [] OTHER -> quiet
    BY DEF Step, u, v, w
  <2>2. \/ Attends(u, o)
        \/ ~Attends(u, o) /\ RequiredStatesKnown(o)
        \/ ~Attends(u, o) /\ ~RequiredStatesKnown(o)
    OBVIOUS
  <2> HIDE DEF failed, told, quiet, recovered
  <2>3. CASE Attends(u, o)
    BY <2>1, <2>3
  <2>4. CASE ~Attends(u, o)
    BY <2>1, <2>4
  <2> QED
    BY <2>3, <2>4
<1>2. /\ Kept(u) /\ SameCharge(s, u)
      /\ o.grid # "yes" => u.readyFor = NoTimer
  BY PreludeKeeps
<1>3. Attends(u, o) => Steps(s, w, o, c)
  BY AttentiveSteps
<1> HIDE DEF w
<1>4. Attends(u, o) => Steps(s, failed, o, c)
  <2> SUFFICES ASSUME Attends(u, o) PROVE Steps(s, failed, o, c)
    OBVIOUS
  <2>1. Steps(s, w, o, c)
    BY <1>3
  <2>2. /\ Kept(failed) /\ Same(w, failed)
        /\ failed.suppressed = w.suppressed
        /\ failed.restorePending = w.restorePending
        /\ failed.session = w.session /\ failed.phase = w.phase
        /\ failed.desiredSource = w.desiredSource
        /\ failed.directive \in {w.directive, "fail_active"}
    BY <2>1, FailExerciseKeeps DEF Steps
  <2> HIDE DEF failed
  <2>3. HasSession(failed) <=> HasSession(w)
    BY <2>2 DEF HasSession
  <2>4. SameEngine(s, w, o) => SameEngine(s, failed, o)
    BY <2>2 DEF SameEngine, Slot
  <2>5. FromRest(w, o, c) => FromRest(failed, o, c)
    BY <2>2 DEF FromRest, Slot
  <2>6. Minds(w) => Minds(failed)
    BY <2>2, <2>3 DEF Minds
  <2>7. GridStable(w) => GridStable(failed)
    BY <2>2 DEF GridStable, Same
  <2> QED
    BY <2>1, <2>2, <2>3, <2>4, <2>5, <2>6, <2>7 DEF Steps, Same
<1>5. /\ Kept(quiet) /\ quiet.readyFor = u.readyFor
      /\ quiet.suppressed = u.suppressed /\ quiet.restorePending = u.restorePending
      /\ quiet.session = u.session /\ quiet.phase = u.phase
      /\ quiet.desiredSource = u.desiredSource
  BY <1>2, DiscardRequestsKeeps
<1> HIDE DEF quiet
<1>6. ~Attends(u, o) => Steps(s, quiet, o, c)
  BY <1>2, <1>5, QuietSteps DEF SameCharge
<1>7. /\ Kept(recovered) /\ Same(quiet, recovered) /\ SameDebts(quiet, recovered)
      /\ recovered.phase = "recovery_required" /\ recovered.session = quiet.session
      /\ recovered.desiredSource = quiet.desiredSource
  BY <1>5, RequireRecoveryGoes DEF Goes
<1> HIDE DEF recovered
<1>8. /\ Kept(told) /\ Same(recovered, told)
      /\ told.suppressed = recovered.suppressed
      /\ told.restorePending = recovered.restorePending
      /\ told.session = recovered.session /\ told.phase = recovered.phase
      /\ told.desiredSource = recovered.desiredSource
  BY <1>7, FailExerciseKeeps
<1> HIDE DEF told
<1>9. ~Attends(u, o) => Steps(s, told, o, c)
  <2>1. /\ told.session = s.session /\ told.suppressed = s.suppressed
        /\ told.restorePending = s.restorePending
        /\ told.phase = "recovery_required"
        /\ told.desiredSource = "grid" => s.desiredSource = "grid"
        /\ o.grid # "yes" => told.readyFor = NoTimer
    BY <1>2, <1>5, <1>7, <1>8 DEF SameCharge, Same, SameDebts
  <2> QED
    BY <1>8, <2>1, QuietSteps
<1> HIDE DEF failed, u
<1> QED
  BY <1>1, <1>3, <1>4, <1>6, <1>9

\* _decision: no engine is told to run beside that of the session, and without a
\* session at most that of the exercise.
LEMMA OrderedFits ==
  ASSUME NEW s, Kept(s), NEW o, NEW c \in Intents
  PROVE  LET orders == Ordered(s, o, c)
         IN  /\ orders \subseteq GeneratorSlot
             /\ \A g, h \in orders : g = h
             /\ HasSession(s) => orders \subseteq {Slot(s)}
<1> DEFINE exercised == {c.exercise}
           orders == Ordered(s, o, c)
<1>1. \/ orders \subseteq s.desired
      \/ ~HasSession(s) /\ c.exercise # Nobody /\ orders \subseteq s.desired \cup exercised
  BY DEF Ordered
<1> HIDE DEF orders
<1>2. CASE HasSession(s)
  <2>1. orders \subseteq {Slot(s)} /\ Slot(s) \in GeneratorSlot
    BY <1>1, <1>2, SessionTypes DEF Kept
  <2> QED
    BY <1>2, <2>1 DEF orders
<1>3. CASE ~HasSession(s)
  <2>1. s.desired = {}
    BY <1>3 DEF Kept
  <2>2. c.exercise # Nobody => c.exercise \in GeneratorSlot
    BY DEF Intents
  <2> QED
    BY <1>1, <1>3, <2>1, <2>2 DEF orders
<1> QED
  BY <1>2, <1>3

-------------------------------------------------------------------------------
(***************************************************************************)
(* The recovery reset, the connection and the restart.                     *)
(***************************************************************************)

\* A supervisor with the same session and the same memory of what the user has
\* stopped.
Carries(s, v) ==
  /\ Kept(v) /\ v.session = s.session
  /\ v.suppressed = s.suppressed /\ v.restorePending = s.restorePending

\* One change after the other.
LEMMA CarriesTransitive ==
  ASSUME NEW s, NEW u, NEW v, Carries(s, u), Carries(u, v)
  PROVE  Carries(s, v)
BY DEF Carries

\* Attributes that neither the session nor the memory has a part in.
LEMMA CarriesWhenSet ==
  ASSUME NEW s, Kept(s), NEW v \in Supervisor, v.session = s.session,
         v.suppressed = s.suppressed, v.restorePending = s.restorePending,
         v.desired \subseteq s.desired
  PROVE  Carries(s, v)
BY DEF Kept, Carries, HasSession, Slot

\* begin_recovery_reset, and the ways a reset goes on without its end.
LEMMA ResetCarries ==
  ASSUME NEW s, Kept(s)
  PROVE  /\ Carries(s, [s EXCEPT !.wantReset = FALSE])
         /\ Carries(s, BeginReset(s)) /\ Carries(s, FailReset(s))
<1> DEFINE taken == [s EXCEPT !.wantReset = FALSE]
           begun == BeginReset(s)
           failed == FailReset(s)
<1>1. /\ taken \in Supervisor /\ taken.session = s.session
      /\ taken.suppressed = s.suppressed
      /\ taken.restorePending = s.restorePending /\ taken.desired = s.desired
  BY DEF Kept, Supervisor
<1>2. /\ begun \in Supervisor /\ begun.session = s.session
      /\ begun.suppressed = s.suppressed
      /\ begun.restorePending = s.restorePending /\ begun.desired = {}
  BY DEF Kept, Supervisor, BeginReset, PowerSource
<1>3. /\ failed \in Supervisor /\ failed.session = s.session
      /\ failed.suppressed = s.suppressed
      /\ failed.restorePending = s.restorePending /\ failed.desired = s.desired
  BY DEF Kept, Supervisor, FailReset
<1> HIDE DEF taken, begun, failed
<1> QED
  BY <1>1, <1>2, <1>3, CarriesWhenSet DEF taken, begun, failed

\* recovery_step: whatever it directs, the session and the memory are kept.
LEMMA RecoveryStepCarries ==
  ASSUME NEW s, Kept(s), NEW o, NEW c, NEW blocked, NEW confirmed
  PROVE  Carries(s, RecoveryStep(s, o, c, blocked, confirmed).s)
<1> DEFINE u == [s EXCEPT !.wantReset = FALSE]
           r == RecoveryStep(s, o, c, blocked, confirmed)
<1>1. r.s \in {u, BeginReset(u), FailReset(u)}
  <2> HIDE DEF u
  <2>1. \A v, d : Reset(v, d).s = v
    BY DEF Reset
  <2>2. \A v : ResetAfterGrid(v, o, c).s = v
    BY <2>1 DEF ResetAfterGrid
  <2> QED
    BY <2>1, <2>2 DEF RecoveryStep, u
<1>2. Carries(s, u)
  BY ResetCarries
<1> HIDE DEF u
<1>3. Carries(u, BeginReset(u)) /\ Carries(u, FailReset(u))
  BY <1>2, ResetCarries DEF Carries
<1> QED
  BY <1>1, <1>2, <1>3, CarriesTransitive

\* complete_recovery_reset: the session is over, the isolation is undone, and a
\* stop of the user is still in force.
LEMMA CompleteResetEnds ==
  ASSUME NEW s, Kept(s)
  PROVE  LET v == CompleteReset(s)
         IN  Kept(v) /\ ~HasSession(v) /\ v.suppressed = s.suppressed
<1> DEFINE v == CompleteReset(s)
<1>1. NoTimer \in NoTimer..StableTime /\ NoTimer \in NoTimer..FailureDelay
  BY SupervisorAssumption DEF NoTimer
<1>2. /\ v \in Supervisor /\ v.session = NoSession /\ v.desired = {}
      /\ v.suppressed = s.suppressed
  BY <1>1 DEF Kept, Supervisor, SupervisorPhase, CompleteReset
<1> HIDE DEF v
<1>3. Kept(v) /\ ~HasSession(v)
  BY <1>2 DEF Kept, HasSession, NoSession, NewSession
<1> QED
  BY <1>2, <1>3 DEF v

\* mark_connection_lost
LEMMA MarkConnectionLostCarries ==
  ASSUME NEW s, Kept(s)
  PROVE  LET v == MarkConnectionLost(s)
         IN  /\ Carries(s, v) /\ v.desiredSource = s.desiredSource
             /\ v.phase \in {s.phase, "recovery_required"}
<1>1. MarkConnectionLost(s) \in {s, RequireRecovery(s)}
  BY DEF MarkConnectionLost
<1> DEFINE w == RequireRecovery(s)
<1>2. /\ \A o : Goes(s, w, o)
      /\ w.phase = "recovery_required" /\ w.session = s.session
      /\ w.desiredSource = s.desiredSource
  BY RequireRecoveryGoes
<1> HIDE DEF w
<1>3. Carries(s, w)
  BY <1>2 DEF Goes, SameDebts, Carries
<1> QED
  BY <1>1, <1>2, <1>3 DEF Carries, w

\* from_dict of to_dict
LEMMA RestoredCarries ==
  ASSUME NEW s, Kept(s)
  PROVE  LET v == Restored(s)
         IN  /\ Carries(s, v) /\ v.phase = s.phase /\ v.desiredSource = Nobody
             /\ v.readyFor = NoTimer
<1> DEFINE v == Restored(s)
<1>1. NoTimer \in NoTimer..StableTime /\ NoTimer \in NoTimer..FailureDelay
  BY SupervisorAssumption DEF NoTimer
<1>2. /\ NewSupervisor.desired = {} /\ NewSupervisor.desiredSource = Nobody
      /\ NewSupervisor.readyFor = NoTimer /\ NewSupervisor \in Supervisor
  BY <1>1 DEF NewSupervisor, Supervisor, SupervisorPhase, ExerciseDirective
<1>3. /\ s.phase \in SupervisorPhase /\ s.session \in GeneratorSession \cup {NoSession}
      /\ s.suppressed \in BOOLEAN /\ s.restorePending \in BOOLEAN
  BY DEF Kept, Supervisor
<1>4. /\ v \in Supervisor /\ v.session = s.session /\ v.desired = {}
      /\ v.suppressed = s.suppressed /\ v.restorePending = s.restorePending
      /\ v.phase = s.phase /\ v.desiredSource = Nobody /\ v.readyFor = NoTimer
  BY <1>2, <1>3 DEF Restored, Supervisor
<1> HIDE DEF v
<1>5. Carries(s, v)
  BY <1>4, CarriesWhenSet
<1> QED
  BY <1>4, <1>5 DEF v

\* A program that has never run.
LEMMA NewSupervisorKept == Kept(NewSupervisor) /\ ~HasSession(NewSupervisor)
<1>1. NoTimer \in NoTimer..StableTime /\ NoTimer \in NoTimer..FailureDelay
  BY SupervisorAssumption DEF NoTimer
<1>2. NewSupervisor \in Supervisor
  BY <1>1 DEF NewSupervisor, Supervisor, SupervisorPhase, ExerciseDirective
<1>3. NewSupervisor.session = NoSession /\ NewSupervisor.desired = {}
  BY DEF NewSupervisor
<1>4. ~NoSession.cycleOwned
  BY DEF NoSession, NewSession
<1> QED
  BY <1>2, <1>3, <1>4 DEF Kept, HasSession

-------------------------------------------------------------------------------
(***************************************************************************)
(* What a tick makes of the session of a charge cycle.                     *)
(***************************************************************************)

\* No stop of the user is in force beside a session of the charge cycle, and one
\* on its way to the UPS has been asked to end.
CycleFits(s) ==
  s.session.cycleOwned =>
    /\ ~s.suppressed
    /\ s.phase = "returning_to_ups" => s.session.stopRequested

\* Without a session there is none of the cycle.
LEMMA CycleHasSession ==
  ASSUME NEW s, Kept(s), s.session.cycleOwned
  PROVE  HasSession(s) /\ s.session \in GeneratorSession
BY SessionTypes DEF HasSession, NoSession, NewSession

\* The beginning of a tick: the wait of the cycle is not begun yet, and a phase
\* is only left for recovery or for none.
LEMMA PreludePhase ==
  ASSUME NEW s, Kept(s), NEW o
  PROVE  LET u == Prelude(s, o)
         IN  /\ ~u.postCycleWait
             /\ u.phase \in {s.phase, "normal", "recovery_required"}
             /\ s.phase = "recovery_required" => u.phase = "recovery_required"
<1> DEFINE u == [s EXCEPT !.stopOutage = {}, !.directive = "none",
                          !.postCycleWait = FALSE]
           first == Initialize(u, o)
           begun == [first EXCEPT !.initialized = TRUE]
           v == IF u.initialized THEN u ELSE begun
           w == UpdateGridTimer(v, o.grid)
<1>1. Prelude(s, o) = w
  BY DEF Prelude
<1>2. /\ u \in Supervisor /\ u.phase = s.phase /\ ~u.postCycleWait
      /\ u.session = s.session
  BY DEF Kept, Supervisor, ExerciseDirective
<1>3. Kept(u)
  <2>1. u.desired = s.desired
    BY DEF Kept, Supervisor
  <2> HIDE DEF u
  <2> QED
    BY <1>2, <2>1 DEF Kept, HasSession, Slot
<1> HIDE DEF u
<1>4. /\ first \in Supervisor /\ first.phase \in {u.phase, "normal", "recovery_required"}
      /\ u.phase = "recovery_required" => first.phase = "recovery_required"
      /\ ~first.postCycleWait
  <2>1. Kept(first)
    BY <1>3, InitializeKeeps
  <2>2. RequireRecovery(u).phase = "recovery_required" /\ ~RequireRecovery(u).postCycleWait
    BY <1>2 DEF RequireRecovery, Supervisor
  <2>3. FinishSession(u).phase = "normal" /\ ~FinishSession(u).postCycleWait
    BY <1>2 DEF FinishSession, EndSession, Supervisor
  <2> DEFINE kept == [u EXCEPT !.desiredSource = "generator",
                               !.desired = {Slot(u)} \cap {o.owner}]
  <2>4. kept.phase = u.phase /\ ~kept.postCycleWait
    BY <1>2 DEF Supervisor
  <2>5. /\ first \in {u, RequireRecovery(u), FinishSession(u), kept}
        /\ u.phase = "recovery_required" => first = u
    BY DEF Initialize
  <2> HIDE DEF kept, first
  <2> QED
    BY <1>2, <2>1, <2>2, <2>3, <2>4, <2>5 DEF Kept
<1> HIDE DEF first
<1>5. begun \in Supervisor /\ begun.phase = first.phase /\ ~begun.postCycleWait
  BY <1>4 DEF Supervisor
<1> HIDE DEF begun
<1>6. /\ v \in Supervisor /\ v.phase \in {u.phase, "normal", "recovery_required"}
      /\ u.phase = "recovery_required" => v.phase = "recovery_required"
      /\ ~v.postCycleWait
  BY <1>2, <1>4, <1>5
<1> HIDE DEF v
<1>7. w.phase = v.phase /\ w.postCycleWait = v.postCycleWait
  BY <1>6 DEF UpdateGridTimer, Supervisor
<1> QED
  BY <1>1, <1>2, <1>6, <1>7

\* A session is conducted to the UPS only if it is on its way there already, and
\* it ends there only when the house is isolated.
LEMMA WithSessionPhase ==
  ASSUME NEW s, Kept(s), HasSession(s), NEW o
  PROVE  LET v == WithSession(s, o)
         IN  /\ v.phase = "returning_to_ups" =>
                  s.phase = "returning_to_ups" /\ v.session = s.session
             /\ s.phase = "returning_to_ups" /\ ~HasSession(v) => o.path = "isolated"
<1>0. s \in Supervisor
  BY DEF Kept
<1> DEFINE home == [s EXCEPT !.phase = "returning_to_grid", !.desiredSource = "grid"]
           back == [home EXCEPT !.session.stopRequested = FALSE]
<1>1. /\ home.phase = "returning_to_grid" /\ back.phase = "returning_to_grid"
      /\ s.session \in GeneratorSession => HasSession(back)
  <2>1. home.phase = "returning_to_grid" /\ home.session = s.session
        /\ home \in Supervisor
    BY <1>0 DEF Supervisor, SupervisorPhase, PowerSource
  <2> DEFINE session == [home.session EXCEPT !.stopRequested = FALSE]
  <2>2. back.phase = "returning_to_grid" /\ back.session = session
    BY <2>1 DEF Supervisor
  <2>3. s.session \in GeneratorSession => session \in GeneratorSession
    BY <2>1 DEF GeneratorSession
  <2>4. NoSession \notin GeneratorSession
    BY SessionTypes
  <2> HIDE DEF session, home, back
  <2> QED
    BY <2>1, <2>2, <2>3, <2>4 DEF HasSession
<1>2. s.session \in GeneratorSession
  BY SessionTypes
<1>3. ASSUME NEW u, u \in Supervisor, NEW run
      PROVE  /\ Order(u, run).phase = u.phase /\ Order(u, run).session = u.session
             /\ DOMAIN Order(u, run) = DOMAIN u
             /\ RequireRecovery(u).phase = "recovery_required"
             /\ YieldTo(u, run).phase = u.phase
  BY <1>3 DEF Order, YieldTo, RequireRecovery, Supervisor
<1>4. CASE s.phase = "returning_to_ups"
  <2>1. WithSession(s, o) \in {back, ReturningToUps(s, o)}
    BY <1>4 DEF WithSession
  <2> DEFINE u == [s EXCEPT !.desiredSource = "ups_only"]
  <2>2. u \in Supervisor /\ u.session = s.session /\ u.phase = s.phase
    BY <1>0 DEF Supervisor, PowerSource
  <2> HIDE DEF u
  <2>3. /\ Order(u, TRUE).session = s.session
        /\ Order(u, FALSE).session = s.session
        /\ RequireRecovery(u).phase = "recovery_required"
        /\ RequireRecovery(u).session = s.session
    BY <2>2 DEF Order, RequireRecovery, Supervisor
  <2>4. EndSession(Order(u, FALSE)).phase = "normal"
    BY <2>2 DEF Order, EndSession, Supervisor
  <2>5. \/ ReturningToUps(s, o) \in {RequireRecovery(u), Order(u, TRUE), Order(u, FALSE)}
        \/ /\ ReturningToUps(s, o) = EndSession(Order(u, FALSE))
           /\ o.path = "isolated"
    BY DEF ReturningToUps, u
  <2> HIDE DEF back
  <2> QED
    BY <1>1, <1>2, <1>4, <2>1, <2>2, <2>3, <2>4, <2>5 DEF HasSession
<1>5. CASE s.phase # "returning_to_ups"
  <2> SUFFICES WithSession(s, o).phase # "returning_to_ups"
    BY <1>5
  <2>1. WithSession(s, o) \in {home, Returning(s, o), Starting(s, o), OnGenerator(s, o),
                               RequireRecovery(s)}
    BY <1>5 DEF WithSession
  <2>2. RequireRecovery(s).phase = "recovery_required"
    BY <1>0, <1>3
  <2>3. ASSUME NEW u, u \in Supervisor, u.phase # "returning_to_ups"
        PROVE  ManagedFailure(u, o).phase # "returning_to_ups"
    BY <2>3 DEF ManagedFailure, YieldTo, Order, RequireRecovery, Supervisor
  <2>4. Returning(s, o).phase # "returning_to_ups"
    <3> DEFINE u == [s EXCEPT !.desiredSource = "grid"]
    <3>1. u \in Supervisor /\ u.phase # "returning_to_ups"
      BY <1>0, <1>5 DEF Supervisor, PowerSource
    <3> HIDE DEF u
    <3>2. CancelReturn(u, o).phase # "returning_to_ups"
      BY <3>1 DEF CancelReturn, Order, Supervisor
    <3> DEFINE v(slots) == [u EXCEPT !.desired = {}, !.stopOutage = slots]
    <3>3. \A slots : /\ v(slots).phase # "returning_to_ups"
                     /\ RequireRecovery(v(slots)).phase # "returning_to_ups"
                     /\ FinishSession(v(slots)).phase # "returning_to_ups"
      BY <3>1 DEF RequireRecovery, FinishSession, EndSession, Supervisor
    <3>4. \/ Returning(s, o) \in {CancelReturn(u, o), u}
          \/ \E slots : Returning(s, o) \in {v(slots), RequireRecovery(v(slots)),
                                            FinishSession(v(slots))}
      BY DEF Returning, u
    <3> HIDE DEF v
    <3> QED
      BY <3>1, <3>2, <3>3, <3>4
  <2>5. Starting(s, o).phase # "returning_to_ups"
    <3> DEFINE first(source) == [Order(s, TRUE) EXCEPT !.desiredSource = source]
               v(source) == [first(source) EXCEPT !.desiredSource = "generator"]
               on(source) == [v(source) EXCEPT !.phase = "on_generator"]
    <3>1. \A source \in PowerSource :
            /\ first(source) \in Supervisor /\ first(source).phase # "returning_to_ups"
            /\ v(source) \in Supervisor /\ v(source).phase # "returning_to_ups"
            /\ on(source) \in Supervisor /\ on(source).phase # "returning_to_ups"
      <4>1. Order(s, TRUE) \in Supervisor /\ Order(s, TRUE).phase = s.phase
        BY <1>0, <1>2 DEF Order, Supervisor, GeneratorSession, Slot
      <4> QED
        BY <1>5, <4>1 DEF Supervisor, PowerSource, SupervisorPhase
    <3>2. \E source \in PowerSource : \E run \in BOOLEAN :
            Starting(s, o) \in {ManagedFailure(first(source), o), first(source), v(source),
                                RequireRecovery(v(source)), on(source),
                                YieldTo(on(source), run)}
      <4> DEFINE source == IF s.session.gridWasUnavailable \/ o.source # "grid"
                           THEN "ups_only" ELSE "grid"
      <4>1. source \in PowerSource
        BY DEF PowerSource
      <4>2. Running(o, Slot(s)) \in BOOLEAN
        BY DEF Running
      <4>3. Starting(s, o) \in {ManagedFailure(first(source), o), first(source), v(source),
                                RequireRecovery(v(source)), on(source),
                                YieldTo(on(source), Running(o, Slot(s)))}
        BY DEF Starting
      <4> QED
        BY <4>1, <4>2, <4>3
    <3> HIDE DEF first, v, on
    <3> QED
      BY <1>3, <2>3, <3>1, <3>2
  <2>6. OnGenerator(s, o).phase # "returning_to_ups"
    <3> DEFINE u == [s EXCEPT !.desiredSource = "generator"]
               v == Order(u, TRUE)
    <3>1. u \in Supervisor /\ u.phase = s.phase /\ u.session = s.session
      BY <1>0 DEF Supervisor, PowerSource
    <3> HIDE DEF u
    <3>2. v \in Supervisor /\ v.phase = s.phase
      BY <1>2, <3>1 DEF Order, Supervisor, GeneratorSession, Slot
    <3>3. OnGenerator(s, o) \in {v, ManagedFailure(v, o), YieldTo(u, InService(o, Slot(s))),
                                 RequireRecovery(u), ManagedFailure(u, o)}
      BY DEF OnGenerator, u
    <3> HIDE DEF v
    <3> QED
      BY <1>3, <1>5, <2>3, <3>1, <3>2, <3>3
  <2> HIDE DEF home
  <2> QED
    BY <1>1, <2>1, <2>2, <2>4, <2>5, <2>6
<1> QED
  BY <1>4, <1>5

\* Without a session a stop of the user is not called to mind, and what begins is
\* a session that starts its engine.
LEMMA WithoutSessionBegins ==
  ASSUME NEW s, Kept(s), ~HasSession(s), NEW o \in Observation, NEW c \in Intents
  PROVE  LET v == WithoutSession(s, o, c)
         IN  /\ v.suppressed => s.suppressed
             /\ HasSession(v) => v.phase = "starting_generator"
<1>0. s \in Supervisor
  BY DEF Kept
<1>1. ASSUME NEW u, Kept(u), ~HasSession(u), NEW slot \in GeneratorSlot
      PROVE  LET v == BeginSessionForSlot(u, o, "grid_outage", slot)
             IN  /\ Kept(v) /\ v.suppressed = u.suppressed
                 /\ HasSession(v) => v.phase = "starting_generator"
  BY <1>1, BeginSessionForSlotBegins DEF SameDebts
<1>2. ASSUME NEW u, Kept(u), ~HasSession(u)
      PROVE  LET v == BeginSession(u, o, "grid_outage")
             IN  /\ Kept(v) /\ v.suppressed = u.suppressed
                 /\ HasSession(v) => v.phase = "starting_generator"
  BY <1>1, <1>2 DEF BeginSession, Observation
<1>3. ASSUME NEW u, Kept(u), ~HasSession(u), c.exercise # Nobody, NEW mayBegin
      PROVE  LET v == TakeFromExercise(u, o, c, "grid_outage", "handoff_to_outage", mayBegin)
             IN  /\ v.suppressed = u.suppressed
                 /\ HasSession(v) => v.phase = "starting_generator"
  <2> DEFINE adopted == BeginSessionForSlot(u, o, "grid_outage", c.exercise)
             handed == SetDirective(adopted, "handoff_to_outage")
             w == SetDirective(u, "cancel_unstarted")
             begun == BeginSession(w, o, "grid_outage")
             deferred == [w EXCEPT !.phase = "grid_failure_delay"]
             recovered == RequireRecovery(u)
             failed == SetDirective(recovered, "fail_active")
  <2>1. TakeFromExercise(u, o, c, "grid_outage", "handoff_to_outage", mayBegin)
          \in {handed, begun, deferred, failed}
    BY DEF TakeFromExercise
  <2>2. c.exercise \in GeneratorSlot
    BY <1>3 DEF Intents
  <2>3. /\ "handoff_to_outage" \in ExerciseDirective
        /\ "cancel_unstarted" \in ExerciseDirective /\ "fail_active" \in ExerciseDirective
    BY DEF ExerciseDirective
  <2>4. /\ Kept(adopted) /\ adopted.suppressed = u.suppressed
        /\ HasSession(adopted) => adopted.phase = "starting_generator"
    BY <1>1, <1>3, <2>2
  <2> HIDE DEF adopted
  <2>5. /\ handed.session = adopted.session /\ handed.phase = adopted.phase
        /\ handed.suppressed = adopted.suppressed
    BY <2>3, <2>4, SetDirectiveKeeps
  <2>6. Kept(w) /\ w.session = u.session /\ w.suppressed = u.suppressed
    BY <1>3, <2>3, SetDirectiveKeeps
  <2> HIDE DEF w
  <2>7. /\ begun.suppressed = w.suppressed
        /\ HasSession(begun) => begun.phase = "starting_generator"
    BY <1>2, <1>3, <2>6 DEF HasSession
  <2>8. deferred.session = w.session /\ deferred.suppressed = w.suppressed
    BY <2>6 DEF Kept, Supervisor
  <2>9. /\ Kept(recovered) /\ recovered.session = u.session
        /\ recovered.suppressed = u.suppressed
    BY <1>3, RequireRecoveryGoes DEF Goes, SameDebts
  <2> HIDE DEF recovered
  <2>10. failed.session = recovered.session /\ failed.suppressed = recovered.suppressed
    BY <2>3, <2>9, SetDirectiveKeeps
  <2> HIDE DEF handed, begun, deferred, failed
  <2> QED
    BY <1>3, <2>1, <2>4, <2>5, <2>6, <2>7, <2>8, <2>9, <2>10 DEF HasSession
<1> DEFINE u == [s EXCEPT !.desired = {}]
           w == [u EXCEPT !.desiredSource = Nobody]
<1>4. /\ u \in Supervisor /\ u.session = s.session /\ u.desired = {}
      /\ u.suppressed = s.suppressed
  BY <1>0 DEF Supervisor
<1> HIDE DEF u
<1>5. /\ w \in Supervisor /\ w.session = s.session /\ w.desired = {}
      /\ w.suppressed = s.suppressed
  BY <1>4 DEF Supervisor
<1> HIDE DEF w
<1>6. Kept(u) /\ ~HasSession(u) /\ Kept(w) /\ ~HasSession(w)
  BY <1>4, <1>5, WithoutSessionKept
<1>7. AwaitRestore(u, o).session = u.session
      /\ (AwaitRestore(u, o).suppressed => u.suppressed)
  BY <1>4 DEF AwaitRestore, Supervisor
<1>8. /\ ~HasSession(ReturnFromOutage(u, o))
      /\ ReturnFromOutage(u, o).suppressed = u.suppressed
  BY <1>4, <1>6 DEF ReturnFromOutage, FinishSession, EndSession, HasSession, Supervisor
<1>9. LET v == BeginOutage(w, o, c)
      IN  /\ v.suppressed = w.suppressed
          /\ HasSession(v) => v.phase = "starting_generator"
  <2> DEFINE deferred == [w EXCEPT !.phase = "grid_failure_delay"]
  <2>1. deferred.session = w.session /\ deferred.suppressed = w.suppressed
    BY <1>5 DEF Supervisor
  <2>2. \/ /\ c.exercise # Nobody
           /\ BeginOutage(w, o, c) = TakeFromExercise(w, o, c, "grid_outage",
                                                      "handoff_to_outage", ~c.defer)
        \/ BeginOutage(w, o, c) \in {deferred, BeginSession(w, o, "grid_outage")}
    BY DEF BeginOutage
  <2> HIDE DEF deferred
  <2> QED
    BY <1>2, <1>3, <1>6, <2>1, <2>2 DEF HasSession
<1>10. LET v == AwaitOutage(w, o, c)
       IN  /\ v.suppressed => w.suppressed
           /\ HasSession(v) => v.phase = "starting_generator"
  <2> DEFINE waits(phase) == [w EXCEPT !.phase = phase]
             forgives == [w EXCEPT !.suppressed = FALSE, !.phase = "normal"]
             first == [w EXCEPT !.failedFor = IF @ = NoTimer THEN 0 ELSE @,
                                !.phase = "grid_failure_delay"]
  <2>1. /\ forgives.session = w.session /\ ~forgives.suppressed
        /\ first.session = w.session /\ first.suppressed = w.suppressed
        /\ \A phase : waits(phase).session = w.session
                      /\ waits(phase).suppressed = w.suppressed
    BY <1>5 DEF Supervisor
  <2>2. \/ AwaitOutage(w, o, c) \in {forgives, first, BeginOutage(w, o, c)}
        \/ \E phase : AwaitOutage(w, o, c) = waits(phase)
    BY DEF AwaitOutage
  <2> HIDE DEF waits, forgives, first
  <2> QED
    BY <1>6, <1>9, <2>1, <2>2 DEF HasSession
<1> DEFINE home == [u EXCEPT !.desiredSource = "grid", !.phase = "returning_to_grid"]
<1>11. home.session = u.session /\ home.suppressed = u.suppressed
  BY <1>4 DEF Supervisor
<1>12. WithoutSession(s, o, c) \in {AwaitRestore(u, o), home, ReturnFromOutage(u, o),
                                   AwaitOutage(w, o, c)}
  BY DEF WithoutSession, u, w
<1> HIDE DEF home
<1> QED
  BY <1>4, <1>5, <1>6, <1>7, <1>8, <1>10, <1>11, <1>12 DEF HasSession

\* A command of the user takes the session from the cycle; the cycle's own only
\* asks it to end.
LEMMA CommandedCycle ==
  ASSUME NEW s, Kept(s), NEW o \in Observation, NEW c \in Intents,
         Commanded(s, o, c).session.cycleOwned
  PROVE  /\ s.session.cycleOwned
         /\ \/ Commanded(s, o, c) = s
            \/ /\ c.cycleStop
               /\ Commanded(s, o, c) = CycleStop(s)
<1> DEFINE started == AfterStart(s, o, c)
           stopped == AfterStop(started, o)
<1>1. Kept(started)
  BY AfterStartObeys
<1>2. started.session.cycleOwned => started = s
  <2> SUFFICES ASSUME s.wantStart, started.session.cycleOwned PROVE FALSE
    BY DEF AfterStart
  <2> DEFINE taken == [s EXCEPT !.wantStart = FALSE]
  <2>1. Kept(taken)
    BY RequestTaken
  <2> HIDE DEF taken
  <2>2. started = ManualStart(taken, o, c)
    BY DEF AfterStart, taken
  <2>3. HasSession(started) /\ started.session.reason = "grid_outage"
    BY <1>1, CycleHasSession DEF Kept
  <2>4. CASE HasSession(taken)
    <3>1. started \in {TakeOver(taken), taken}
          /\ (started # TakeOver(taken) => taken.session.reason # "grid_outage")
      BY <2>2, <2>4 DEF ManualStart
    <3>2. ~TakeOver(taken).session.cycleOwned
      BY <2>1, <2>4, TakeOverKeeps
    <3> QED
      BY <2>3, <3>1, <3>2
  <2>5. CASE ~HasSession(taken)
    BY <2>1, <2>2, <2>3, <2>5, ManualStartObeys DEF Fresh
  <2> QED
    BY <2>4, <2>5
<1> HIDE DEF started
<1>3. stopped.session.cycleOwned => stopped = started
  <2> SUFFICES ASSUME started.wantStop, stopped.session.cycleOwned PROVE FALSE
    BY DEF AfterStop
  <2> DEFINE taken == [started EXCEPT !.wantStop = FALSE]
  <2>1. Kept(taken)
    BY <1>1, RequestTaken
  <2> HIDE DEF taken
  <2>2. stopped = ManualStop(taken, o)
    BY DEF AfterStop, taken
  <2>3. CASE HasSession(taken)
    <3> DEFINE session == [taken.session EXCEPT !.stopRequested = TRUE,
                                                !.cycleOwned = FALSE]
    <3>1. ~session.cycleOwned
      BY <2>1, <2>3, SessionTypes DEF GeneratorSession
    <3>2. stopped.session = session
      BY <2>1, <2>2, <2>3 DEF ManualStop, Kept, Supervisor
    <3> QED
      BY <3>1, <3>2
  <2>4. CASE ~HasSession(taken)
    BY <2>1, <2>2, <2>4, CycleHasSession DEF ManualStop
  <2> QED
    BY <2>3, <2>4
<1> HIDE DEF stopped
<1>4. CycleStop(stopped).session.cycleOwned => stopped.session.cycleOwned
  BY DEF CycleStop
<1>5. \/ Commanded(s, o, c) = stopped
      \/ c.cycleStop /\ Commanded(s, o, c) = CycleStop(stopped)
  BY DEF Commanded, stopped, started
<1> QED
  BY <1>2, <1>3, <1>4, <1>5

\* The commands begin no wait of the cycle.
LEMMA CommandedWaitsNot ==
  ASSUME NEW s, Kept(s), ~s.postCycleWait, NEW o \in Observation, NEW c \in Intents
  PROVE  ~Commanded(s, o, c).postCycleWait
<1>1. ASSUME NEW u, u \in Supervisor, ~u.postCycleWait, NEW directive
      PROVE  ~SetDirective(u, directive).postCycleWait
  BY <1>1 DEF SetDirective, Supervisor
<1>2. ASSUME NEW u, u \in Supervisor, ~u.postCycleWait, NEW reason, NEW slot
      PROVE  ~BeginSessionForSlot(u, o, reason, slot).postCycleWait
  BY <1>2 DEF BeginSessionForSlot, Supervisor
<1>3. ASSUME NEW u, Kept(u), ~HasSession(u), ~u.postCycleWait
      PROVE  ~ManualStart(u, o, c).postCycleWait
  <2> DEFINE reason == "manual_generator_start"
             adopted == BeginSessionForSlot(u, o, reason, c.exercise)
             w == SetDirective(u, "cancel_unstarted")
             recovered == RequireRecovery(u)
             v == IF c.exercise # Nobody
                  THEN TakeFromExercise(u, o, c, reason, "handoff_to_manual", TRUE)
                  ELSE BeginSession(u, o, reason)
  <2>1. u \in Supervisor
    BY <1>3 DEF Kept
  <2>2. w \in Supervisor /\ ~w.postCycleWait
    <3>1. ~w.postCycleWait
      BY <1>1, <1>3, <2>1
    <3>2. "cancel_unstarted" \in ExerciseDirective
      BY DEF ExerciseDirective
    <3> QED
      BY <1>3, <3>1, <3>2, SetDirectiveKeeps DEF Kept
  <2>3. recovered \in Supervisor /\ ~recovered.postCycleWait
    <3>1. ~recovered.postCycleWait
      BY <1>3, <2>1 DEF RequireRecovery, Supervisor
    <3>2. Kept(recovered)
      BY <1>3, RequireRecoveryGoes DEF Goes
    <3> QED
      BY <3>1, <3>2 DEF Kept
  <2>4. c.exercise # Nobody => adopted \in Supervisor /\ ~adopted.postCycleWait
    <3>1. c.exercise # Nobody => c.exercise \in GeneratorSlot
      BY DEF Intents
    <3>2. c.exercise # Nobody => Kept(adopted)
      BY <1>3, <3>1, BeginSessionForSlotBegins
    <3> QED
      BY <1>2, <1>3, <2>1, <3>2 DEF Kept
  <2>5. BeginSession(u, o, reason) \in {u, BeginSessionForSlot(u, o, reason, o.primary)}
        /\ BeginSession(w, o, reason) \in {w, BeginSessionForSlot(w, o, reason, o.primary)}
    BY DEF BeginSession
  <2> HIDE DEF w, recovered, adopted
  <2>6. v \in {SetDirective(adopted, "handoff_to_manual"), BeginSession(w, o, reason),
               SetDirective(recovered, "fail_active"), BeginSession(u, o, reason)}
        /\ (v = SetDirective(adopted, "handoff_to_manual") => c.exercise # Nobody
            \/ v = BeginSession(u, o, reason))
    BY DEF TakeFromExercise, w, recovered, adopted
  <2>7. ~v.postCycleWait
    BY <1>1, <1>2, <1>3, <2>1, <2>2, <2>3, <2>4, <2>5, <2>6
  <2>8. v \in Supervisor
    <3>1. c.exercise # Nobody =>
            Kept(TakeFromExercise(u, o, c, reason, "handoff_to_manual", TRUE))
      BY <1>3, TakeFromExerciseTakes DEF Takes
    <3>2. Kept(BeginSession(u, o, reason))
      BY <1>3, BeginSessionTakes DEF Takes
    <3> QED
      BY <3>1, <3>2 DEF Kept
  <2>9. ManualStart(u, o, c) \in {v, [v EXCEPT !.suppressed = FALSE]}
    BY <1>3 DEF ManualStart
  <2> HIDE DEF v
  <2> QED
    BY <2>7, <2>8, <2>9 DEF Supervisor
<1>4. ASSUME NEW u, Kept(u), HasSession(u), ~u.postCycleWait
      PROVE  ~ManualStart(u, o, c).postCycleWait
  BY <1>4 DEF ManualStart, TakeOver, Order, Kept, Supervisor
<1> DEFINE started == AfterStart(s, o, c)
           stopped == AfterStop(started, o)
<1>5. Kept(started) /\ ~started.postCycleWait
  <2> DEFINE taken == [s EXCEPT !.wantStart = FALSE]
  <2>1. Kept(taken) /\ ~taken.postCycleWait
    BY RequestTaken DEF Kept, Supervisor
  <2>2. started \in {s, ManualStart(taken, o, c)}
    BY DEF AfterStart
  <2>3. Kept(started)
    BY AfterStartObeys
  <2> HIDE DEF taken, started
  <2> QED
    BY <1>3, <1>4, <2>1, <2>2, <2>3
<1> HIDE DEF started
<1>6. Kept(stopped) /\ ~stopped.postCycleWait
  <2> DEFINE taken == [started EXCEPT !.wantStop = FALSE]
  <2>1. Kept(taken) /\ ~taken.postCycleWait
    BY <1>5, RequestTaken DEF Kept, Supervisor
  <2>2. stopped \in {started, ManualStop(taken, o)}
    BY DEF AfterStop
  <2>3. Kept(stopped)
    BY <1>5, AfterStopObeys
  <2> HIDE DEF taken
  <2>4. ~ManualStop(taken, o).postCycleWait
    BY <2>1 DEF ManualStop, Kept, Supervisor
  <2> QED
    BY <1>5, <2>2, <2>3, <2>4
<1> HIDE DEF stopped
<1>7. Commanded(s, o, c) \in {stopped, CycleStop(stopped)}
  BY DEF Commanded, stopped, started
<1>8. ~CycleStop(stopped).postCycleWait
  BY <1>6 DEF CycleStop, Kept, Supervisor
<1> QED
  BY <1>6, <1>7, <1>8

\* What is conducted after the commands: the wait begins with the end of the
\* cycle's own session, and nothing of the user's forbids the cycle.
LEMMA ConductCycle ==
  ASSUME NEW before, NEW u, Kept(u), CycleFits(u), NEW o \in Observation, NEW c \in Intents,
         HasSession(u) /\ ~HasSession(before) =>
           u.session.reason = "manual_generator_start"
  PROVE  LET w == Conduct(before, u, o, c)
         IN  /\ CycleFits(w)
             /\ w.postCycleWait => /\ u.session.cycleOwned /\ u.phase = "returning_to_ups"
                                   /\ o.path = "isolated" /\ ~w.suppressed
<1> DEFINE v == IF HasSession(u) THEN WithSession(u, o) ELSE WithoutSession(u, o, c)
           claimed == /\ c.claim /\ ~HasSession(before)
                      /\ v.session.reason = "grid_outage"
                      /\ v.directive # "handoff_to_outage"
           owned == v.session.cycleOwned \/ claimed
           wait == /\ u.session.cycleOwned /\ u.phase = "returning_to_ups"
                   /\ ~HasSession(v) /\ o.grid = "no"
           session == [v.session EXCEPT !.cycleOwned = owned]
           w == [v EXCEPT !.session = session, !.postCycleWait = wait]
<1>1. HasSession(u) => Conducts(u, v, o)
  BY WithSessionConducts
<1>2. ~HasSession(u) => Waits(u, v, o, c)
  BY WithoutSessionWaits
<1>3. Kept(v)
  BY <1>1, <1>2 DEF Conducts, Waits
<1>4. Conduct(before, u, o, c) =
        [v EXCEPT !.session.cycleOwned = @ \/ claimed, !.postCycleWait = wait]
  BY DEF Conduct
<1>5. HasSession(u) => /\ v.phase = "returning_to_ups" =>
                            u.phase = "returning_to_ups" /\ v.session = u.session
                       /\ u.phase = "returning_to_ups" /\ ~HasSession(v) =>
                            o.path = "isolated"
  BY WithSessionPhase
<1>6. ~HasSession(u) => /\ v.suppressed => u.suppressed
                        /\ HasSession(v) => v.phase = "starting_generator"
  BY WithoutSessionBegins
<1> HIDE DEF v
<1>7. v.session.cycleOwned => HasSession(v) /\ HasSession(u) /\ u.session.cycleOwned
  <2>1. v.session.cycleOwned => HasSession(v)
    BY <1>3, CycleHasSession
  <2> QED
    BY <1>1, <1>2, <2>1 DEF Conducts, Waits, SameOwner, Fresh
<1>8. claimed => HasSession(v) /\ ~HasSession(u)
  BY <1>1 DEF Conducts, SameOwner, HasSession, NoSession, NewSession, Nobody
<1>9. Conduct(before, u, o, c) = w
  <2>1. v \in Supervisor
    BY <1>3 DEF Kept
  <2> HIDE DEF claimed, wait
  <2> QED
    BY <1>4, <2>1 DEF Supervisor
<1>10. /\ w.phase = v.phase /\ w.suppressed = v.suppressed
       /\ w.postCycleWait = wait /\ w.session = session
  BY <1>3 DEF Kept, Supervisor
<1>11. /\ w.session.cycleOwned <=> owned
       /\ w.session.stopRequested = v.session.stopRequested
  <2>1. v.session \in GeneratorSession \/ v.session = NoSession
    BY <1>3 DEF Kept, Supervisor
  <2> HIDE DEF w, owned
  <2> QED
    BY <1>10, <2>1 DEF GeneratorSession, NoSession, NewSession
<1> HIDE DEF w, session
<1>12. CASE HasSession(u)
  <2>1. v.suppressed = u.suppressed
    BY <1>1, <1>12 DEF Conducts, SameDebts
  <2>2. ~claimed
    BY <1>8, <1>12
  <2>3. wait => ~w.suppressed /\ o.path = "isolated"
    BY <1>5, <1>10, <1>12, <2>1 DEF CycleFits
  <2> QED
    BY <1>5, <1>7, <1>9, <1>10, <1>11, <1>12, <2>1, <2>2, <2>3 DEF CycleFits
<1>13. CASE ~HasSession(u)
  <2>1. ~u.session.cycleOwned
    BY <1>13, CycleHasSession
  <2>2. HasSession(v) => ~u.suppressed
    BY <1>2, <1>13 DEF Waits
  <2>3. owned => HasSession(v)
    BY <1>7, <1>8
  <2> QED
    BY <1>6, <1>9, <1>10, <1>11, <1>13, <2>1, <2>2, <2>3 DEF CycleFits
<1> QED
  BY <1>12, <1>13

\* A session found after the commands, where there was none, is the user's.
LEMMA CommandedBegins ==
  ASSUME NEW s, Kept(s), NEW before, before.session = s.session,
         NEW o \in Observation, NEW c \in Intents
  PROVE  LET v == Commanded(s, o, c)
         IN  HasSession(v) /\ ~HasSession(before) =>
               v.session.reason = "manual_generator_start"
BY CommandedObeys DEF Obeys, HasSession

\* step: the wait of the cycle begins when its own session, which it has asked to
\* end, is over.
LEMMA StepCycle ==
  ASSUME NEW s, Kept(s), CycleFits(s), NEW o \in Observation, NEW c \in Intents
  PROVE  LET v == Step(s, o, c)
         IN  /\ CycleFits(v)
             /\ v.postCycleWait => /\ s.session.cycleOwned
                                   /\ \/ s.session.stopRequested
                                      \/ c.cycleStop /\ o.path = "isolated"
                                   /\ ~v.suppressed
<1> DEFINE u == Prelude(s, o)
           v == Commanded(u, o, c)
           w == IF v.phase = "recovery_required" THEN v ELSE Conduct(s, v, o, c)
           failed == FailExercise(w, c)
           quiet == DiscardRequests(u)
           recovered == RequireRecovery(quiet)
           told == FailExercise(recovered, c)
<1>1. \/ Attends(u, o) /\ Step(s, o, c) = w
      \/ Attends(u, o) /\ w.phase = "recovery_required" /\ Step(s, o, c) = failed
      \/ ~Attends(u, o) /\ Step(s, o, c) = told
      \/ ~Attends(u, o) /\ Step(s, o, c) = quiet
  <2> HIDE DEF u, v, w
  <2>1. Step(s, o, c) =
          CASE Attends(u, o) -> IF w.phase = "recovery_required" THEN failed ELSE w
            [] ~Attends(u, o) /\ RequiredStatesKnown(o) -> told
            [] OTHER -> quiet
    BY DEF Step, u, v, w
  <2> HIDE DEF failed, told, quiet, recovered
  <2>2. CASE Attends(u, o)
    BY <2>1, <2>2
  <2>3. CASE ~Attends(u, o)
    BY <2>1, <2>3
  <2> QED
    BY <2>2, <2>3
<1>2. /\ Kept(u) /\ u.session = s.session /\ u.suppressed = s.suppressed
      /\ ~u.postCycleWait /\ u.phase \in {s.phase, "normal", "recovery_required"}
  BY PreludeKeeps, PreludePhase DEF SameCharge
<1>3. CycleFits(u)
  BY <1>2 DEF CycleFits
<1> HIDE DEF u
<1>4. /\ Kept(v) /\ ~v.postCycleWait
      /\ HasSession(v) /\ ~HasSession(s) => v.session.reason = "manual_generator_start"
  BY <1>2, CommandedObeys, CommandedWaitsNot, CommandedBegins DEF Obeys
<1>5. /\ CycleFits(v)
      /\ v.session.cycleOwned =>
           s.session.cycleOwned /\ (s.session.stopRequested \/ c.cycleStop
                                    \/ v.phase # "returning_to_ups")
  <2> SUFFICES ASSUME v.session.cycleOwned
               PROVE  /\ ~v.suppressed /\ s.session.cycleOwned
                      /\ v.phase = "returning_to_ups" =>
                           /\ v.session.stopRequested
                           /\ s.session.stopRequested \/ c.cycleStop
    BY DEF CycleFits
  <2>1. /\ u.session.cycleOwned
        /\ v = u \/ (c.cycleStop /\ v = CycleStop(u))
    BY <1>2, CommandedCycle
  <2>2. CASE v = u
    BY <1>2, <1>3, <2>1, <2>2 DEF CycleFits
  <2>3. CASE c.cycleStop /\ v = CycleStop(u)
    <3>1. /\ HasSession(u) /\ u.session \in GeneratorSession
      BY <1>2, <2>1, CycleHasSession
    <3>2. CycleStop(u).suppressed = u.suppressed
      BY <1>2 DEF CycleStop, Kept, Supervisor
    <3>3. CycleStop(u) = u \/ CycleStop(u).session.stopRequested
      BY <1>2, CycleStopObeys
    <3> HIDE DEF v
    <3> QED
      BY <1>2, <1>3, <2>1, <2>3, <3>2, <3>3 DEF CycleFits
  <2> QED
    BY <2>1, <2>2, <2>3
<1> HIDE DEF v
<1>6. /\ Kept(w) /\ CycleFits(w)
      /\ w.postCycleWait => /\ s.session.cycleOwned
                            /\ \/ s.session.stopRequested
                               \/ c.cycleStop /\ o.path = "isolated"
                            /\ ~w.suppressed
  <2>1. CASE v.phase = "recovery_required"
    BY <1>4, <1>5, <2>1
  <2>2. CASE v.phase # "recovery_required"
    <3>1. Kept(Conduct(s, v, o, c))
      BY <1>4, ConductConducted DEF Conducted
    <3> QED
      BY <1>4, <1>5, <2>2, <3>1, ConductCycle
  <2> QED
    BY <2>1, <2>2
<1> HIDE DEF w
<1>7. ASSUME NEW r, Kept(r)
      PROVE  LET f == FailExercise(r, c)
             IN  /\ Kept(f) /\ f.session = r.session /\ f.suppressed = r.suppressed
                 /\ f.phase = r.phase /\ f.postCycleWait = r.postCycleWait
  <2>1. FailExercise(r, c).postCycleWait = r.postCycleWait
    BY <1>7 DEF FailExercise, SetDirective, Kept, Supervisor
  <2> QED
    BY <1>7, <2>1, FailExerciseKeeps
<1>8. /\ Kept(failed) /\ failed.session = w.session /\ failed.suppressed = w.suppressed
      /\ failed.phase = w.phase /\ failed.postCycleWait = w.postCycleWait
  BY <1>6, <1>7
<1>9. /\ Kept(quiet) /\ quiet.session = u.session /\ quiet.suppressed = u.suppressed
      /\ quiet.phase = u.phase /\ quiet.postCycleWait = u.postCycleWait
  <2>1. quiet.postCycleWait = u.postCycleWait
    BY <1>2 DEF DiscardRequests, Kept, Supervisor
  <2> QED
    BY <1>2, <2>1, DiscardRequestsKeeps
<1> HIDE DEF failed, quiet
<1>10. /\ Kept(recovered) /\ recovered.session = quiet.session
       /\ recovered.suppressed = quiet.suppressed
       /\ recovered.phase = "recovery_required"
       /\ recovered.postCycleWait = quiet.postCycleWait
  <2>1. recovered.postCycleWait = quiet.postCycleWait
    BY <1>9 DEF RequireRecovery, Kept, Supervisor
  <2> QED
    BY <1>9, <2>1, RequireRecoveryGoes DEF Goes, SameDebts
<1> HIDE DEF recovered
<1>11. /\ told.session = recovered.session /\ told.suppressed = recovered.suppressed
       /\ told.phase = recovered.phase /\ told.postCycleWait = recovered.postCycleWait
  BY <1>7, <1>10
<1> HIDE DEF told
<1> QED
  BY <1>1, <1>2, <1>3, <1>6, <1>8, <1>9, <1>10, <1>11 DEF CycleFits

-------------------------------------------------------------------------------
(***************************************************************************)
(* What a tick tells the exercise scheduler.                               *)
(***************************************************************************)

Handoffs == {"handoff_to_outage", "handoff_to_manual"}

\* What a directive means while a tick is under way: a failure is a case for
\* recovery, an engine that is handed over is that of the session, which it can
\* carry, and one whose exercise is cancelled stands still.
Tells(v, o, c) ==
  /\ v.directive = "fail_active" => v.phase = "recovery_required" /\ ~HasSession(v)
  /\ v.directive \in Handoffs =>
       /\ HasSession(v) /\ Slot(v) = c.exercise
       /\ InService(o, c.exercise) /\ ~Failed(o, c.exercise)
       /\ v.phase \in {"starting_generator", "returning_to_ups", "returning_to_grid"}
  /\ v.directive = "cancel_unstarted" => c.exercise # Nobody /\ Stopped(o, c.exercise)

\* A new session tells the exercise that is under way.
TellsOfBeginning(v, c) ==
  HasSession(v) /\ c.exercise # Nobody => v.directive # "none"

\* A directive is given.
LEMMA SetDirectiveGives ==
  ASSUME NEW s, Kept(s), NEW directive \in ExerciseDirective,
         s.directive # "fail_active" \/ directive = "fail_active"
  PROVE  SetDirective(s, directive).directive = directive
BY DEF SetDirective, Kept, Supervisor

\* A session begins with an engine that may start and has not failed.
LEMMA BeginSessionForSlotSucceeds ==
  ASSUME NEW s, Kept(s), NEW o \in Observation, NEW slot \in GeneratorSlot,
         NEW reason \in {"grid_outage", "manual_generator_start"},
         slot \in Enabled, ~Failed(o, slot)
  PROVE  LET v == BeginSessionForSlot(s, o, reason, slot)
         IN  /\ Kept(v) /\ v.directive = s.directive
             /\ HasSession(v) /\ Slot(v) = slot /\ v.phase = "starting_generator"
<1> DEFINE v == BeginSessionForSlot(s, o, reason, slot)
<1>1. /\ v.session = NewSession(reason, slot, o.grid = "no")
      /\ v.phase = "starting_generator" /\ v.directive = s.directive
  BY DEF BeginSessionForSlot, Kept, Supervisor
<1>2. Kept(v)
  BY BeginSessionForSlotBegins
<1> HIDE DEF v
<1>3. v.session.reason = reason /\ Slot(v) = slot
  BY <1>1 DEF NewSession, Slot
<1>4. NoSession.reason = Nobody /\ reason # Nobody
  BY DEF NoSession, NewSession, Nobody
<1>5. HasSession(v)
  BY <1>3, <1>4 DEF HasSession
<1> QED
  BY <1>1, <1>2, <1>3, <1>5 DEF v

\* _take_from_exercise
LEMMA TakeFromExerciseTells ==
  ASSUME NEW s, Kept(s), ~HasSession(s), s.directive \in {"none", "cancel_unstarted"},
         NEW o \in Observation, NEW c \in Intents, c.exercise # Nobody,
         NEW mayBegin \in BOOLEAN,
         NEW reason \in {"grid_outage", "manual_generator_start"},
         NEW handoff \in Handoffs
  PROVE  LET v == TakeFromExercise(s, o, c, reason, handoff, mayBegin)
         IN  Tells(v, o, c) /\ TellsOfBeginning(v, c) /\ v.directive # "none"
<1> DEFINE adopted == BeginSessionForSlot(s, o, reason, c.exercise)
           handed == SetDirective(adopted, handoff)
           u == SetDirective(s, "cancel_unstarted")
           begun == BeginSession(u, o, reason)
           deferred == [u EXCEPT !.phase = "grid_failure_delay"]
           recovered == RequireRecovery(s)
           failed == SetDirective(recovered, "fail_active")
           v == TakeFromExercise(s, o, c, reason, handoff, mayBegin)
<1>1. \/ CanAdopt(o, c) /\ v = handed
      \/ Stopped(o, c.exercise) /\ v \in {begun, deferred}
      \/ v = failed
  BY DEF TakeFromExercise
<1>2. c.exercise \in GeneratorSlot
  BY DEF Intents
<1>3. /\ handoff \in ExerciseDirective /\ "cancel_unstarted" \in ExerciseDirective
      /\ "fail_active" \in ExerciseDirective
      /\ handoff \notin {"none", "fail_active", "cancel_unstarted"}
  BY DEF ExerciseDirective, Handoffs
<1>4. CASE CanAdopt(o, c) /\ v = handed
  <2>1. /\ InService(o, c.exercise) /\ ~Failed(o, c.exercise)
        /\ c.exercise \in Enabled
    BY <1>4 DEF CanAdopt
  <2>2. /\ Kept(adopted) /\ adopted.directive = s.directive
        /\ HasSession(adopted) /\ Slot(adopted) = c.exercise
        /\ adopted.phase = "starting_generator"
    BY <1>2, <2>1, BeginSessionForSlotSucceeds
  <2> HIDE DEF adopted
  <2>3. /\ handed.session = adopted.session /\ handed.phase = adopted.phase
        /\ handed.directive = handoff
    BY <1>3, <2>2, SetDirectiveKeeps, SetDirectiveGives
  <2> HIDE DEF handed, v
  <2> QED
    BY <1>3, <1>4, <2>1, <2>2, <2>3
    DEF Tells, TellsOfBeginning, HasSession, Slot, v
<1>5. CASE Stopped(o, c.exercise) /\ v \in {begun, deferred}
  <2>1. /\ Kept(u) /\ u.session = s.session /\ u.directive = "cancel_unstarted"
    BY <1>3, SetDirectiveKeeps, SetDirectiveGives
  <2> HIDE DEF u
  <2>2. begun.directive = "cancel_unstarted"
    <3>1. begun = u \/ begun = BeginSessionForSlot(u, o, reason, o.primary)
      BY DEF BeginSession
    <3>2. o.primary \in GeneratorSlot
      BY DEF Observation
    <3> QED
      BY <2>1, <3>1, <3>2, BeginSessionForSlotBegins DEF SameDebts
  <2>3. deferred.directive = "cancel_unstarted"
    BY <2>1 DEF Kept, Supervisor
  <2> HIDE DEF begun, deferred, v
  <2>4. v.directive = "cancel_unstarted"
    BY <1>5, <2>2, <2>3
  <2> QED
    BY <1>5, <2>4 DEF Tells, TellsOfBeginning, Handoffs, v
<1>6. CASE v = failed
  <2>1. Kept(recovered) /\ recovered.phase = "recovery_required"
        /\ recovered.session = s.session
    BY RequireRecoveryGoes DEF Goes
  <2> HIDE DEF recovered
  <2>2. /\ failed.session = recovered.session /\ failed.phase = recovered.phase
        /\ failed.directive = "fail_active"
    BY <1>3, <2>1, SetDirectiveKeeps, SetDirectiveGives
  <2> HIDE DEF failed, v
  <2> QED
    BY <1>6, <2>1, <2>2 DEF Tells, TellsOfBeginning, Handoffs, HasSession, v
<1> HIDE DEF v
<1> QED
  BY <1>1, <1>4, <1>5, <1>6 DEF v

\* The start command.
LEMMA AfterStartTells ==
  ASSUME NEW s, Kept(s), s.directive = "none", NEW o \in Observation, NEW c \in Intents
  PROVE  LET v == AfterStart(s, o, c)
         IN  /\ Tells(v, o, c)
             /\ ~HasSession(s) => TellsOfBeginning(v, c)
<1> DEFINE taken == [s EXCEPT !.wantStart = FALSE]
           v == AfterStart(s, o, c)
           reason == "manual_generator_start"
<1>1. Kept(taken) /\ taken.session = s.session /\ taken.directive = "none"
  BY RequestTaken DEF SameDebts
<1> HIDE DEF taken
<1>2. v = s \/ v = ManualStart(taken, o, c)
  BY DEF AfterStart, taken
<1>3. CASE v = s
  BY <1>3 DEF Tells, TellsOfBeginning, Handoffs
<1>4. CASE v = ManualStart(taken, o, c) /\ HasSession(taken)
  <2>1. v = taken \/ v = TakeOver(taken)
    BY <1>4 DEF ManualStart
  <2>2. v.directive = "none"
    BY <1>1, <1>4, <2>1, TakeOverKeeps DEF SameDebts
  <2> HIDE DEF v
  <2> QED
    BY <1>1, <1>4, <2>2 DEF Tells, Handoffs, HasSession, v
<1>5. CASE v = ManualStart(taken, o, c) /\ ~HasSession(taken)
  <2> DEFINE w == IF c.exercise # Nobody
                  THEN TakeFromExercise(taken, o, c, reason, "handoff_to_manual", TRUE)
                  ELSE BeginSession(taken, o, reason)
  <2>1. v = IF HasSession(w) THEN [w EXCEPT !.suppressed = FALSE] ELSE w
    BY <1>5 DEF ManualStart
  <2>2. Kept(w) /\ Tells(w, o, c) /\ TellsOfBeginning(w, c)
    <3>1. CASE c.exercise # Nobody
      <4>1. "handoff_to_manual" \in Handoffs
        BY DEF Handoffs
      <4>2. Kept(TakeFromExercise(taken, o, c, reason, "handoff_to_manual", TRUE))
        BY <1>1, <1>5, <3>1, TakeFromExerciseTakes DEF Takes
      <4> QED
        BY <1>1, <1>5, <3>1, <4>1, <4>2, TakeFromExerciseTells
    <3>2. CASE c.exercise = Nobody
      <4>1. Kept(BeginSession(taken, o, reason))
        BY <1>1, <1>5, BeginSessionTakes DEF Takes
      <4>2. \/ BeginSession(taken, o, reason) = taken
            \/ BeginSession(taken, o, reason) =
                 BeginSessionForSlot(taken, o, reason, o.primary)
        BY DEF BeginSession
      <4>3. BeginSession(taken, o, reason).directive = "none"
        BY <1>1, <4>2, BeginSessionForSlotBegins DEF SameDebts, Observation
      <4> QED
        BY <3>2, <4>1, <4>3 DEF Tells, TellsOfBeginning, Handoffs
    <3> QED
      BY <3>1, <3>2
  <2> HIDE DEF w
  <2>3. /\ v.session = w.session /\ v.phase = w.phase /\ v.directive = w.directive
    BY <2>1, <2>2 DEF Kept, Supervisor
  <2> HIDE DEF v
  <2> QED
    BY <2>2, <2>3 DEF Tells, TellsOfBeginning, HasSession, Slot, v
<1> HIDE DEF v
<1> QED
  BY <1>2, <1>3, <1>4, <1>5 DEF v

\* The stop command and the stop of the cycle.
LEMMA CommandedTells ==
  ASSUME NEW s, Kept(s), s.directive = "none", NEW o \in Observation, NEW c \in Intents
  PROVE  LET v == Commanded(s, o, c)
         IN  /\ Tells(v, o, c)
             /\ ~HasSession(s) => TellsOfBeginning(v, c)
<1> DEFINE started == AfterStart(s, o, c)
           stopped == AfterStop(started, o)
           taken == [started EXCEPT !.wantStop = FALSE]
           v == Commanded(s, o, c)
<1>1. /\ Kept(started) /\ Tells(started, o, c)
      /\ ~HasSession(s) => TellsOfBeginning(started, c)
  BY AfterStartObeys, AfterStartTells
<1> HIDE DEF started
<1>2. /\ Kept(taken) /\ taken.session = started.session /\ taken.phase = started.phase
      /\ taken.directive = started.directive
  BY <1>1, RequestTaken DEF SameDebts
<1> HIDE DEF taken
<1>3. /\ Kept(stopped) /\ stopped.directive = started.directive
      /\ HasSession(started) => KeepsEngine(started, stopped)
      /\ ~HasSession(started) => ~HasSession(stopped) /\ stopped.phase = started.phase
  BY <1>1, AfterStopObeys
<1>4. stopped.phase \in {started.phase, "returning_to_ups", "returning_to_grid"}
  <2>1. stopped \in {started, ManualStop(taken, o)}
    BY DEF AfterStop, taken
  <2>2. ManualStop(taken, o).phase
          \in {taken.phase, "returning_to_ups", "returning_to_grid"}
    BY <1>2 DEF ManualStop, Kept, Supervisor
  <2> HIDE DEF stopped
  <2> QED
    BY <1>2, <2>1, <2>2
<1> HIDE DEF stopped
<1>5. /\ Tells(stopped, o, c)
      /\ ~HasSession(s) => TellsOfBeginning(stopped, c)
  <2>1. HasSession(stopped) <=> HasSession(started)
    BY <1>3 DEF KeepsEngine
  <2>2. HasSession(started) => Slot(stopped) = Slot(started)
    BY <1>3 DEF KeepsEngine
  <2> QED
    BY <1>1, <1>3, <1>4, <2>1, <2>2 DEF Tells, TellsOfBeginning
<1>6. v = stopped \/ v = CycleStop(stopped)
  BY DEF Commanded, stopped, started
<1>7. \/ CycleStop(stopped) = stopped
      \/ /\ CycleStop(stopped).directive = stopped.directive
         /\ HasSession(stopped) /\ KeepsEngine(stopped, CycleStop(stopped))
         /\ CycleStop(stopped).phase = "returning_to_ups"
  BY <1>3, CycleStopObeys DEF SameDebts
<1> HIDE DEF v
<1> QED
  BY <1>5, <1>6, <1>7 DEF Tells, TellsOfBeginning, KeepsEngine, v

\* An engine that is in service and has not failed stays that of the session that
\* has just got it.
LEMMA WithSessionServed ==
  ASSUME NEW s, Kept(s), HasSession(s), NEW o,
         InService(o, Slot(s)), ~Failed(o, Slot(s)),
         s.phase \in {"starting_generator", "returning_to_ups", "returning_to_grid"}
  PROVE  LET v == WithSession(s, o) IN HasSession(v) /\ Slot(v) = Slot(s)
<1>0. s \in Supervisor /\ s.session \in GeneratorSession
  BY SessionTypes DEF Kept
<1>1. ~Stopped(o, Slot(s))
  BY DEF InService, Running, Stopped
<1> DEFINE Holds(v) == v.session \in GeneratorSession /\ Slot(v) = Slot(s)
           home == [s EXCEPT !.phase = "returning_to_grid", !.desiredSource = "grid"]
           back == [home EXCEPT !.session.stopRequested = FALSE]
<1>2. SUFFICES Holds(WithSession(s, o))
  BY SessionTypes DEF HasSession
<1>3. ASSUME NEW u, u \in Supervisor, Holds(u), NEW run
      PROVE  /\ Holds(Order(u, run)) /\ Holds(RequireRecovery(u))
             /\ Holds(YieldTo(u, run))
  <2>1. /\ Order(u, run) \in Supervisor
        /\ Order(u, run).session = u.session
        /\ RequireRecovery(u).session = u.session
    BY <1>3 DEF Order, RequireRecovery, Slot, Supervisor, GeneratorSession
  <2> DEFINE session == [u.session EXCEPT !.externalTakeover = TRUE]
  <2>2. session \in GeneratorSession /\ session.generator = Slot(u)
    BY <1>3 DEF GeneratorSession, Slot
  <2>3. YieldTo(u, run).session = session
    BY <2>1 DEF YieldTo, Supervisor
  <2> HIDE DEF session
  <2> QED
    BY <1>3, <2>1, <2>2, <2>3 DEF Slot
<1>4. Holds(home) /\ Holds(back)
  <2>1. home \in Supervisor /\ home.session = s.session
    BY <1>0 DEF Supervisor, SupervisorPhase, PowerSource
  <2> DEFINE session == [home.session EXCEPT !.stopRequested = FALSE]
  <2>2. back.session = session
    BY <2>1 DEF Supervisor
  <2>3. session \in GeneratorSession /\ session.generator = s.session.generator
    BY <1>0, <2>1 DEF GeneratorSession
  <2> HIDE DEF session, home, back
  <2> QED
    BY <1>0, <2>1, <2>2, <2>3 DEF Slot
<1>5. Holds(Starting(s, o))
  <2> DEFINE first(source) == [Order(s, TRUE) EXCEPT !.desiredSource = source]
             v(source) == [first(source) EXCEPT !.desiredSource = "generator"]
             on(source) == [v(source) EXCEPT !.phase = "on_generator"]
             source0 == IF s.session.gridWasUnavailable \/ o.source # "grid"
                        THEN "ups_only" ELSE "grid"
  <2>1. Order(s, TRUE) \in Supervisor /\ Holds(Order(s, TRUE))
    <3>1. Order(s, TRUE) \in Supervisor
      BY <1>0 DEF Order, Slot, Supervisor, GeneratorSession
    <3> QED
      BY <1>0, <1>3, <3>1
  <2>2. \A source \in PowerSource :
          /\ first(source) \in Supervisor /\ Holds(first(source))
          /\ v(source) \in Supervisor /\ Holds(v(source))
          /\ on(source) \in Supervisor /\ Holds(on(source))
    BY <2>1 DEF Slot, Supervisor, PowerSource, SupervisorPhase
  <2>3. source0 \in PowerSource
    BY DEF PowerSource
  <2>4. Starting(s, o) \in {first(source0), v(source0), RequireRecovery(v(source0)),
                            on(source0), YieldTo(on(source0), Running(o, Slot(s)))}
    BY DEF Starting
  <2> HIDE DEF first, v, on, source0, Holds
  <2> QED
    BY <1>3, <2>2, <2>3, <2>4
<1>6. Holds(Returning(s, o))
  <2> DEFINE u == [s EXCEPT !.desiredSource = "grid"]
             v(slots) == [u EXCEPT !.desired = {}, !.stopOutage = slots]
             back1(run, source, phase) ==
               [Order(u, run) EXCEPT !.desiredSource = source, !.phase = phase]
             forOutage == s.session.gridWasUnavailable /\ ~s.session.stopRequested
             slots0 == IF forOutage THEN o.outage ELSE {}
  <2>1. u \in Supervisor /\ u.session = s.session
    BY <1>0 DEF Supervisor, PowerSource
  <2> HIDE DEF u
  <2>2. Holds(u)
    BY <1>0, <2>1 DEF Slot
  <2>3. \A run, source, phase : Holds(back1(run, source, phase))
    <3>1. \A run : Order(u, run).session = u.session /\ Order(u, run) \in Supervisor
      BY <1>0, <2>1 DEF Order, Slot, Supervisor, GeneratorSession
    <3>2. \A run, source, phase : back1(run, source, phase).session = u.session
      BY <3>1 DEF Supervisor
    <3> HIDE DEF back1
    <3> QED
      BY <2>2, <3>2 DEF Slot
  <2>4. \E run, source, phase : CancelReturn(u, o) = back1(run, source, phase)
    <3> DEFINE ready == o.generators[Slot(u)].ready
    <3>1. \/ CancelReturn(u, o) = back1(o.owner = Slot(u), "generator", "on_generator")
          \/ CancelReturn(u, o) = back1(TRUE, IF ready THEN "generator" ELSE "ups_only",
                                   IF ready THEN "on_generator" ELSE "starting_generator")
      BY DEF CancelReturn
    <3> HIDE DEF back1
    <3> QED
      BY <3>1
  <2>5. /\ v(slots0).session = u.session
        /\ RequireRecovery(v(slots0)).session = u.session
    BY <2>1 DEF RequireRecovery, Supervisor
  <2>6. Holds(v(slots0)) /\ Holds(RequireRecovery(v(slots0)))
    BY <2>2, <2>5 DEF Slot
  <2>7. Returning(s, o) \in {CancelReturn(u, o), u, v(slots0), RequireRecovery(v(slots0))}
    BY <1>1 DEF Returning, u
  <2> HIDE DEF back1, v, Holds
  <2> QED
    BY <2>2, <2>3, <2>4, <2>6, <2>7
<1>7. Holds(ReturningToUps(s, o))
  <2> DEFINE u == [s EXCEPT !.desiredSource = "ups_only"]
  <2>1. u \in Supervisor /\ u.session = s.session
    BY <1>0 DEF Supervisor, PowerSource
  <2>2. ReturningToUps(s, o) \in {RequireRecovery(u), Order(u, TRUE), Order(u, FALSE)}
    BY <1>1 DEF ReturningToUps
  <2> HIDE DEF u
  <2>3. Holds(u)
    BY <1>0, <2>1 DEF Slot
  <2> HIDE DEF Holds
  <2> QED
    BY <1>3, <2>1, <2>2, <2>3
<1>8. WithSession(s, o) \in {home, back, Starting(s, o), Returning(s, o),
                             ReturningToUps(s, o)}
  BY DEF WithSession
<1> HIDE DEF home, back, Holds
<1> QED
  BY <1>4, <1>5, <1>6, <1>7, <1>8

\* A tick without a session.
LEMMA WithoutSessionTells ==
  ASSUME NEW s, Kept(s), ~HasSession(s), s.phase # "recovery_required",
         NEW o \in Observation, NEW c \in Intents, Tells(s, o, c)
  PROVE  LET v == WithoutSession(s, o, c)
         IN  Tells(v, o, c) /\ TellsOfBeginning(v, c)
<1>0. s \in Supervisor /\ s.directive \in {"none", "cancel_unstarted"}
  BY DEF Tells, Kept, Supervisor, ExerciseDirective, Handoffs
<1>1. ASSUME NEW v, ~HasSession(v), v.directive = s.directive
      PROVE  Tells(v, o, c) /\ TellsOfBeginning(v, c)
  BY <1>0, <1>1 DEF Tells, TellsOfBeginning, Handoffs
<1> DEFINE u == [s EXCEPT !.desired = {}]
           w == [u EXCEPT !.desiredSource = Nobody]
<1>2. /\ u \in Supervisor /\ u.session = s.session /\ u.desired = {}
      /\ u.directive = s.directive
  BY <1>0 DEF Supervisor
<1> HIDE DEF u
<1>3. /\ w \in Supervisor /\ w.session = s.session /\ w.desired = {}
      /\ w.directive = s.directive
  BY <1>2 DEF Supervisor
<1> HIDE DEF w
<1>4. Kept(u) /\ ~HasSession(u) /\ Kept(w) /\ ~HasSession(w)
  BY <1>2, <1>3, WithoutSessionKept
<1>5. AwaitRestore(u, o).session = u.session /\ AwaitRestore(u, o).directive = u.directive
  BY <1>2 DEF AwaitRestore, Supervisor
<1>6. /\ ~HasSession(ReturnFromOutage(u, o))
      /\ ReturnFromOutage(u, o).directive = u.directive
  BY <1>2, <1>4 DEF ReturnFromOutage, FinishSession, EndSession, HasSession, Supervisor
<1>7. Tells(BeginOutage(w, o, c), o, c) /\ TellsOfBeginning(BeginOutage(w, o, c), c)
  <2>1. CASE c.exercise # Nobody
    <3>1. "handoff_to_outage" \in Handoffs
      BY DEF Handoffs
    <3>2. BeginOutage(w, o, c) =
            TakeFromExercise(w, o, c, "grid_outage", "handoff_to_outage", ~c.defer)
      BY <2>1 DEF BeginOutage
    <3> QED
      <4>1. (~c.defer) \in BOOLEAN
        BY DEF Intents
      <4> DEFINE mayBegin == ~c.defer
      <4> HIDE DEF mayBegin
      <4>2. mayBegin \in BOOLEAN
        BY <4>1 DEF mayBegin
      <4>3. w.directive \in {"none", "cancel_unstarted"}
        BY <1>0, <1>3
      <4>4. LET v == TakeFromExercise(w, o, c, "grid_outage", "handoff_to_outage", mayBegin)
            IN  Tells(v, o, c) /\ TellsOfBeginning(v, c) /\ v.directive # "none"
        BY <1>4, <2>1, <3>1, <4>2, <4>3, TakeFromExerciseTells
      <4> QED
        BY <3>2, <4>4 DEF mayBegin
  <2>2. CASE c.exercise = Nobody
    <3> DEFINE deferred == [w EXCEPT !.phase = "grid_failure_delay"]
               begun == BeginSession(w, o, "grid_outage")
    <3>1. deferred.directive = s.directive
      BY <1>3 DEF Supervisor
    <3>2. begun = w \/ begun = BeginSessionForSlot(w, o, "grid_outage", o.primary)
      BY DEF BeginSession
    <3>3. begun.directive = s.directive
      BY <1>3, <1>4, <3>2, BeginSessionForSlotBegins DEF SameDebts, Observation
    <3>4. BeginOutage(w, o, c) \in {deferred, begun}
      BY <2>2 DEF BeginOutage
    <3>5. s.directive = "none"
      BY <1>0, <2>2 DEF Tells
    <3> HIDE DEF deferred, begun
    <3> QED
      BY <2>2, <3>1, <3>3, <3>4, <3>5 DEF Tells, TellsOfBeginning, Handoffs
  <2> QED
    BY <2>1, <2>2
<1>8. Tells(AwaitOutage(w, o, c), o, c) /\ TellsOfBeginning(AwaitOutage(w, o, c), c)
  <2> DEFINE waits(phase) == [w EXCEPT !.phase = phase]
             forgives == [w EXCEPT !.suppressed = FALSE, !.phase = "normal"]
             first == [w EXCEPT !.failedFor = IF @ = NoTimer THEN 0 ELSE @,
                                !.phase = "grid_failure_delay"]
  <2>1. /\ forgives.session = w.session /\ forgives.directive = w.directive
        /\ first.session = w.session /\ first.directive = w.directive
        /\ \A phase : waits(phase).session = w.session
                      /\ waits(phase).directive = w.directive
    BY <1>3 DEF Supervisor
  <2>2. \/ AwaitOutage(w, o, c) \in {forgives, first, BeginOutage(w, o, c)}
        \/ \E phase : AwaitOutage(w, o, c) = waits(phase)
    BY DEF AwaitOutage
  <2> HIDE DEF waits, forgives, first
  <2> QED
    BY <1>1, <1>3, <1>4, <1>7, <2>1, <2>2 DEF HasSession
<1> DEFINE home == [u EXCEPT !.desiredSource = "grid", !.phase = "returning_to_grid"]
<1>9. home.session = u.session /\ home.directive = u.directive
  BY <1>2 DEF Supervisor
<1>10. WithoutSession(s, o, c) \in {AwaitRestore(u, o), home, ReturnFromOutage(u, o),
                                   AwaitOutage(w, o, c)}
  BY DEF WithoutSession, u, w
<1> HIDE DEF home
<1> QED
  BY <1>1, <1>2, <1>4, <1>5, <1>6, <1>8, <1>9, <1>10 DEF HasSession
\* Conduct changes nothing but what the charge cycle knows of.
LEMMA ConductTells ==
  ASSUME NEW before, NEW u, Kept(u), u.phase # "recovery_required",
         NEW o \in Observation, NEW c \in Intents, Tells(u, o, c),
         ~HasSession(before) => TellsOfBeginning(u, c)
  PROVE  LET w == Conduct(before, u, o, c)
         IN  /\ w.directive = "fail_active" => w.phase = "recovery_required"
             /\ w.directive \in Handoffs => HasSession(w) /\ Slot(w) = c.exercise
             /\ w.directive = "cancel_unstarted" =>
                  c.exercise # Nobody /\ Stopped(o, c.exercise)
             /\ ~HasSession(before) => TellsOfBeginning(w, c)
<1> DEFINE v == IF HasSession(u) THEN WithSession(u, o) ELSE WithoutSession(u, o, c)
           claimed == /\ c.claim /\ ~HasSession(before)
                      /\ v.session.reason = "grid_outage"
                      /\ v.directive # "handoff_to_outage"
           owned == v.session.cycleOwned \/ claimed
           wait == /\ u.session.cycleOwned /\ u.phase = "returning_to_ups"
                   /\ ~HasSession(v) /\ o.grid = "no"
           session == [v.session EXCEPT !.cycleOwned = owned]
           w == [v EXCEPT !.session = session, !.postCycleWait = wait]
<1>1. HasSession(u) => Conducts(u, v, o)
  BY WithSessionConducts
<1>2. ~HasSession(u) => Waits(u, v, o, c)
  BY WithoutSessionWaits
<1>3. Kept(v)
  BY <1>1, <1>2 DEF Conducts, Waits
<1>4. Conduct(before, u, o, c) =
        [v EXCEPT !.session.cycleOwned = @ \/ claimed, !.postCycleWait = wait]
  BY DEF Conduct
<1>5. ~HasSession(u) => Tells(v, o, c) /\ TellsOfBeginning(v, c)
  BY WithoutSessionTells
<1>6. HasSession(u) /\ u.directive \in Handoffs => HasSession(v) /\ Slot(v) = Slot(u)
  <2> SUFFICES ASSUME HasSession(u), u.directive \in Handoffs
               PROVE  HasSession(v) /\ Slot(v) = Slot(u)
    OBVIOUS
  <2>1. LET t == WithSession(u, o) IN HasSession(t) /\ Slot(t) = Slot(u)
    BY WithSessionServed DEF Tells
  <2> QED
    BY <2>1
<1>7. HasSession(u) => v.directive = u.directive
  BY <1>1 DEF Conducts, SameDebts
<1> HIDE DEF v
<1>8. v.session \in GeneratorSession \/ v.session = NoSession
  BY <1>3 DEF Kept, Supervisor
<1>9. owned => HasSession(v)
  BY <1>8 DEF HasSession, NoSession, NewSession, Nobody
<1>10. Conduct(before, u, o, c) = w
  <2>1. v \in Supervisor
    BY <1>3 DEF Kept
  <2> HIDE DEF claimed, wait
  <2> QED
    BY <1>4, <2>1 DEF Supervisor
<1>11. w.phase = v.phase /\ w.directive = v.directive /\ w.session = session
  BY <1>3 DEF Kept, Supervisor
<1>12. HasSession(w) => HasSession(v)
  <2>1. ~HasSession(v) => session = NoSession
    <3> SUFFICES ASSUME ~HasSession(v)
                 PROVE  session = NoSession
      OBVIOUS
    <3>1. owned = FALSE
      BY <1>9
    <3>2. v.session = NoSession
      BY DEF HasSession
    <3>3. [NoSession EXCEPT !.cycleOwned = FALSE] = NoSession
      BY NoSessionUnmarked
    <3> HIDE DEF owned
    <3> QED
      BY <3>1, <3>2, <3>3
  <2> QED
    BY <1>11, <2>1 DEF HasSession
<1>13. HasSession(v) => HasSession(w) /\ Slot(w) = Slot(v)
  BY <1>8, <1>11 DEF HasSession, Slot, GeneratorSession, NoSession, NewSession, Nobody
<1> HIDE DEF w
<1>14. CASE HasSession(u)
  BY <1>6, <1>7, <1>10, <1>11, <1>12, <1>13, <1>14 DEF Tells, TellsOfBeginning
<1>15. CASE ~HasSession(u)
  BY <1>5, <1>10, <1>11, <1>12, <1>13, <1>15 DEF Tells, TellsOfBeginning
<1> QED
  BY <1>14, <1>15

\* step: what it tells the exercise scheduler is so at the end of the tick.
LEMMA StepDirects ==
  ASSUME NEW s, Kept(s), NEW o \in Observation, NEW c \in Intents
  PROVE  LET v == Step(s, o, c)
         IN  /\ v.directive = "fail_active" => v.phase = "recovery_required"
             /\ v.directive \in Handoffs => HasSession(v) /\ Slot(v) = c.exercise
             /\ v.directive = "cancel_unstarted" =>
                  c.exercise # Nobody /\ Stopped(o, c.exercise)
             /\ ~HasSession(s) /\ HasSession(v) =>
                  \/ v.phase = "recovery_required"
                  \/ c.exercise = Nobody
                  \/ v.directive # "none"
             /\ ~RequiredStatesKnown(o) => v.session = s.session /\ v.directive = "none"
             /\ s.phase = "recovery_required" => v.phase = "recovery_required"
<1> DEFINE u == Prelude(s, o)
           v == Commanded(u, o, c)
           w == IF v.phase = "recovery_required" THEN v ELSE Conduct(s, v, o, c)
           failed == FailExercise(w, c)
           quiet == DiscardRequests(u)
           recovered == RequireRecovery(quiet)
           told == FailExercise(recovered, c)
<1>1. \/ Attends(u, o) /\ Step(s, o, c) = w
      \/ Attends(u, o) /\ w.phase = "recovery_required" /\ Step(s, o, c) = failed
      \/ ~Attends(u, o) /\ RequiredStatesKnown(o) /\ Step(s, o, c) = told
      \/ ~Attends(u, o) /\ ~RequiredStatesKnown(o) /\ Step(s, o, c) = quiet
  <2> HIDE DEF u, v, w
  <2>1. Step(s, o, c) =
          CASE Attends(u, o) -> IF w.phase = "recovery_required" THEN failed ELSE w
            [] ~Attends(u, o) /\ RequiredStatesKnown(o) -> told
            [] OTHER -> quiet
    BY DEF Step, u, v, w
  <2> HIDE DEF failed, told, quiet, recovered
  <2>2. CASE Attends(u, o)
    BY <2>1, <2>2
  <2>3. CASE ~Attends(u, o)
    BY <2>1, <2>3
  <2> QED
    BY <2>2, <2>3
<1>2. /\ Kept(u) /\ u.session = s.session /\ u.directive = "none"
      /\ s.phase = "recovery_required" => u.phase = "recovery_required"
  BY PreludeKeeps, PreludePhase DEF SameCharge
<1>3. Attends(u, o) => RequiredStatesKnown(o) /\ u.phase # "recovery_required"
  BY DEF Attends
<1> HIDE DEF u
<1>4. /\ Kept(v) /\ Tells(v, o, c)
      /\ ~HasSession(s) => TellsOfBeginning(v, c)
  BY <1>2, CommandedObeys, CommandedTells DEF Obeys, HasSession
<1>5. HasSession(v) /\ ~HasSession(s) => v.session.reason = "manual_generator_start"
  BY <1>2, CommandedBegins
<1> HIDE DEF v
<1>6. /\ Kept(w)
      /\ w.directive = "fail_active" => w.phase = "recovery_required"
      /\ w.directive \in Handoffs => HasSession(w) /\ Slot(w) = c.exercise
      /\ w.directive = "cancel_unstarted" =>
           c.exercise # Nobody /\ Stopped(o, c.exercise)
      /\ ~HasSession(s) => TellsOfBeginning(w, c)
  <2>1. CASE v.phase = "recovery_required"
    BY <1>4, <2>1 DEF Tells
  <2>2. CASE v.phase # "recovery_required"
    <3>1. Kept(Conduct(s, v, o, c))
      BY <1>4, <1>5, ConductConducted DEF Conducted
    <3> QED
      BY <1>4, <2>2, <3>1, ConductTells
  <2> QED
    BY <2>1, <2>2
<1> HIDE DEF w
<1>7. failed.phase = w.phase /\ failed.session = w.session
      /\ failed.directive \in {w.directive, "fail_active"}
  BY <1>6, FailExerciseKeeps
<1>8. Kept(quiet) /\ quiet.session = u.session /\ quiet.phase = u.phase
      /\ quiet.directive = u.directive
  <2>1. quiet.directive = u.directive
    BY <1>2 DEF DiscardRequests, Kept, Supervisor
  <2> QED
    BY <1>2, <2>1, DiscardRequestsKeeps
<1> HIDE DEF failed, quiet
<1>9. Kept(recovered) /\ recovered.session = quiet.session
      /\ recovered.directive = quiet.directive
      /\ recovered.phase = "recovery_required"
  BY <1>8, RequireRecoveryGoes DEF Goes, SameDebts
<1> HIDE DEF recovered
<1>10. told.session = recovered.session /\ told.phase = recovered.phase
       /\ told.directive \in {recovered.directive, "fail_active"}
  BY <1>9, FailExerciseKeeps
<1> HIDE DEF told
<1>11. CASE Attends(u, o) /\ Step(s, o, c) = w
  BY <1>2, <1>3, <1>6, <1>11 DEF TellsOfBeginning
<1>12. CASE Attends(u, o) /\ w.phase = "recovery_required" /\ Step(s, o, c) = failed
  BY <1>2, <1>3, <1>6, <1>7, <1>12 DEF TellsOfBeginning, HasSession, Slot, Handoffs
<1>13. CASE ~Attends(u, o) /\ RequiredStatesKnown(o) /\ Step(s, o, c) = told
  BY <1>2, <1>8, <1>9, <1>10, <1>13 DEF HasSession, Handoffs
<1>14. CASE ~Attends(u, o) /\ ~RequiredStatesKnown(o) /\ Step(s, o, c) = quiet
  BY <1>2, <1>8, <1>14 DEF HasSession, Handoffs
<1> QED
  BY <1>1, <1>11, <1>12, <1>13, <1>14

================================================================================
