------------------------------ MODULE LoadManager ------------------------------
(***************************************************************************)
(* The class LoadManager (load_manager.py) as operators on the record m of *)
(* its attributes: it takes two groups of non-critical loads off before    *)
(* the house moves to a generator, admits them again one by one as the     *)
(* measured power allows, takes them off when the generator is overloaded, *)
(* and gives back on the grid what it took, and only that.                 *)
(*                                                                         *)
(* Powers are ranked by the thresholds of the engine on the bus (Rank);    *)
(* NoReading is a power the manager cannot use: meter not ready, limits    *)
(* missing or absurd, no number, no sample id.  Of the id of the last      *)
(* accepted sample only its relation to the id on show is kept (seen).     *)
(* Times are ages and remaining times in ticks.  Messages, events and the  *)
(* memory of the last alert are left out; degraded stands for              *)
(* degraded_reason, whether it is set.                                     *)
(***************************************************************************)
EXTENDS EnergyDomain, Integers

CONSTANTS
  Stabilization,    \* measurement_stabilization_time
  ConfirmTime,      \* the deadline _queue gives a command
  NominalTime,      \* nominal_overload_time
  MaximumTime,      \* maximum_overload_confirmation_time
  RetryInterval,    \* restore_retry_interval
  StaleTime         \* the silence after which _samples_stale

ASSUME LoadManagerAssumption ==
  /\ {NominalTime, MaximumTime, RetryInterval, Stabilization} \subseteq Nat
  /\ ConfirmTime \in Nat /\ ConfirmTime >= Stabilization
  /\ StaleTime \in Nat /\ StaleTime > 2 * Stabilization

LoadGroup == {"g1", "g2"}

\* _RESTORE_ORDER and _SHED_ORDER
FirstToRestore(groups) == IF "g1" \in groups THEN "g1" ELSE "g2"
FirstToShed(groups) == IF "g2" \in groups THEN "g2" ELSE "g1"

NoTimer == -1

\* A power is below the restore threshold, below the nominal power, below
\* the maximum, or above it.
NoReading == 0
Threshold == 1
Nominal == 2
Maximum == 3
Rank == NoReading..4

LoadManagerPhase ==
  {"disabled", "idle", "load_shedding", "measuring", "stable", "degraded"}

\* Why a command was given; it tells the target, whether the transfer waits
\* for it, and the measurement that follows.
Reason == {"pretransfer", "grid_restore", "admission", "admission_revert", "overload"}

Nothing == [group |-> "none", reason |-> "none", left |-> NoTimer]

PendingAction ==
  [group : LoadGroup, reason : Reason, left : 0..ConfirmTime] \cup {Nothing}

TurnsOn(p) == p.reason \in {"grid_restore", "admission"}
BlocksTransfer(p) == p.reason = "pretransfer"
MeasuredAfter(p) == p.reason \in {"admission", "admission_revert", "overload"}

\* The measurement window: why it was opened, the group it tries, its age,
\* its samples (as far as two) and the highest of them.
NoWindow == [reason |-> "none", group |-> "none", age |-> NoTimer, count |-> 0, peak |-> NoReading]

Window ==
  [reason : {"base", "retry", "recovery", "after_shed", "admission"},
   group : LoadGroup \cup {"none"}, age : 0..Stabilization, count : 0..2, peak : Rank]
    \cup {NoWindow}

Manager ==
  [enabled : BOOLEAN, phase : LoadManagerPhase, shed : SUBSET LoadGroup,
   pending : PendingAction, degraded : BOOLEAN, retry : NoTimer..RetryInterval,
   window : Window, seen : {"none", "older", "current"},
   silent : NoTimer..StaleTime, staleStream : BOOLEAN,
   nominalFor : NoTimer..NominalTime, maximumFor : NoTimer..MaximumTime,
   lastOwner : GeneratorSlot \cup {"none"}, blocked : SUBSET LoadGroup]

NewManager(enabled) ==
  [enabled |-> enabled, phase |-> IF enabled THEN "idle" ELSE "disabled",
   shed |-> {}, pending |-> Nothing, degraded |-> FALSE, retry |-> NoTimer,
   window |-> NoWindow, seen |-> "none", silent |-> NoTimer,
   staleStream |-> FALSE, nominalFor |-> NoTimer, maximumFor |-> NoTimer,
   lastOwner |-> "none", blocked |-> {}]

\* LoadManagerObservation
Observation ==
  [houseOnGenerator : Tri, houseOnGrid : Tri, supplyDesired : BOOLEAN,
   generatorReady : BOOLEAN, inTransition : BOOLEAN,
   owner : GeneratorSlot \cup {"none"}, power : Rank,
   groups : [LoadGroup -> Tri], actionsEnabled : BOOLEAN]

-------------------------------------------------------------------------------
(***************************************************************************)
(* Time, and the samples that come with it.                                *)
(***************************************************************************)

Older(age, bound) == IF age = NoTimer \/ age = bound THEN age ELSE age + 1

\* Mutant: counts past zero.
LessPastZero(left) == IF left = NoTimer THEN left ELSE left - 1

Less(left) == IF left <= 0 THEN left ELSE left - 1

\* A tick later; newSample tells whether the meter shows another id.
Elapse(m, newSample) ==
  [m EXCEPT
     !.pending.left = Less(@), !.retry = Less(@),
     !.window.age = Older(@, Stabilization), !.silent = Older(@, StaleTime),
     !.nominalFor = Older(@, NominalTime), !.maximumFor = Older(@, MaximumTime),
     !.seen = IF newSample /\ @ = "current" THEN "older" ELSE @]

\* _sample_is_new
SampleIsNew(m, o) == o.power # NoReading /\ m.seen # "current"

\* _accept_sample(force=True)
TakeSample(m, o) ==
  LET w == m.window
  IN [m EXCEPT
        !.seen = "current", !.silent = 0,
        !.window = IF w = NoWindow THEN w
                   ELSE [w EXCEPT !.count = IF @ < 2 THEN @ + 1 ELSE @,
                                  !.peak = IF o.power > @ THEN o.power ELSE @]]

\* _accept_sample
AcceptSample(m, o) == IF SampleIsNew(m, o) THEN TakeSample(m, o) ELSE m

\* _start_measurement; the last sample stays known, and so does a degradation.
StartMeasurement(m, reason, group) ==
  [m EXCEPT !.phase = "measuring",
            !.window = [reason |-> reason, group |-> group,
                        age |-> 0, count |-> 0, peak |-> NoReading]]

\* Mutant: one sample is enough.
MeasurementReadyAtOnce(m) == m.window.age >= Stabilization /\ m.window.count >= 1

\* _measurement_ready
MeasurementReady(m) == m.window.age >= Stabilization /\ m.window.count >= 2

\* _samples_stale.  The stream is followed from the first sample of a
\* measurement on, so that the start of the measurement never stands in for it.
SamplesStale(m) == m.silent = StaleTime

-------------------------------------------------------------------------------
(***************************************************************************)
(* The small helpers.                                                      *)
(***************************************************************************)

ResetOverloadTimers(m) == [m EXCEPT !.nominalFor = NoTimer, !.maximumFor = NoTimer]

ResetStream(m) == [m EXCEPT !.seen = "none", !.silent = NoTimer, !.staleStream = FALSE]

ResetRuntime(m) ==
  [ResetOverloadTimers(ResetStream(m)) EXCEPT !.window = NoWindow, !.blocked = {}]

SetPhase(m, phase) == [m EXCEPT !.phase = phase, !.degraded = FALSE]

Degrade(m) == [m EXCEPT !.phase = "degraded", !.degraded = TRUE]

\* _recover_from_degraded
Recover(m) ==
  IF m.degraded /\ m.blocked = {}
  THEN [m EXCEPT !.degraded = FALSE, !.staleStream = FALSE]
  ELSE m

\* _dependency_error
DependencyError(o) ==
  \/ o.owner = "none"
  \/ o.power = NoReading
  \/ \E g \in LoadGroup : o.groups[g] = "unknown"

\* _pretransfer_required
PretransferRequired(o) ==
  /\ o.supplyDesired
  /\ o.generatorReady
  /\ o.houseOnGenerator = "no"
  /\ ~o.inTransition

\* What a step returns: the manager, whether it commands its pending action,
\* and transfer_permitted.
Decision(m, commands, permitted) ==
  [m |-> m, commands |-> commands, permitted |-> permitted]

Done(m) == Decision(m, FALSE, TRUE)

\* _queue
Queue(m, group, reason) ==
  LET pending == [group |-> group, reason |-> reason, left |-> ConfirmTime]
  IN Decision([m EXCEPT !.pending = pending], TRUE, ~BlocksTransfer(pending))

-------------------------------------------------------------------------------
(***************************************************************************)
(* Before the transfer, and back on the grid.                              *)
(***************************************************************************)

\* _pretransfer: off with G2, then G1, then go; what cannot be taken off
\* holds nothing up.
Pretransfer(m, o) ==
  LET sheddable == {g \in LoadGroup : o.groups[g] = "yes"} \ m.blocked
      failed == {g \in LoadGroup : o.groups[g] = "unknown"} \cup m.blocked
  IN IF sheddable # {}
     THEN Queue(SetPhase(Recover(m), "load_shedding"),
                FirstToShed(sheddable), "pretransfer")
     ELSE Done(IF failed # {} THEN Degrade(m)
               ELSE SetPhase(Recover(m), "load_shedding"))

\* Mutant: takes itself for done after the first group.
RestoreOnGridOnce(m, o) ==
  LET owed == {g \in m.shed : o.groups[g] # "yes"}
      u == [m EXCEPT !.retry = NoTimer, !.blocked = {}, !.shed = owed]
  IN IF "g1" \notin owed THEN Done(SetPhase(Recover(u), "idle"))
     ELSE IF o.groups["g1"] = "unknown" THEN Done(Degrade(u))
     ELSE Queue(SetPhase(u, "idle"), "g1", "grid_restore")

\* _restore_on_grid
RestoreOnGrid(m, o) ==
  LET owed == {g \in m.shed : o.groups[g] # "yes"}
      u == [m EXCEPT !.retry = NoTimer, !.blocked = {}, !.shed = owed]
      next == FirstToRestore(owed)
  IN IF owed = {} THEN Done(SetPhase(Recover(u), "idle"))
     ELSE IF o.groups[next] = "unknown" THEN Done(Degrade(u))
     ELSE Queue(SetPhase(u, "idle"), next, "grid_restore")

-------------------------------------------------------------------------------
(***************************************************************************)
(* On the generator.                                                       *)
(***************************************************************************)

\* Mutant: takes a time that is just over for one that still runs.
MaybeRestoreWaitsOn(m, o, power) ==
  LET owed == {g \in m.shed : o.groups[g] # "yes"}
      u == [m EXCEPT !.shed = owed]
      candidate == FirstToRestore(owed)
  IN IF owed = {} THEN Done(SetPhase([u EXCEPT !.retry = NoTimer], "stable"))
     ELSE IF o.groups[candidate] = "unknown" THEN Done(Degrade(u))
     ELSE IF u.retry >= 0 THEN Done(SetPhase(u, "stable"))
     ELSE IF power > Threshold
     THEN Done(SetPhase([u EXCEPT !.retry = RetryInterval], "stable"))
     ELSE Queue(u, candidate, "admission")

\* _maybe_restore
MaybeRestore(m, o, power) ==
  LET owed == {g \in m.shed : o.groups[g] # "yes"}
      u == [m EXCEPT !.shed = owed]
      candidate == FirstToRestore(owed)
  IN IF owed = {} THEN Done(SetPhase([u EXCEPT !.retry = NoTimer], "stable"))
     ELSE IF o.groups[candidate] = "unknown" THEN Done(Degrade(u))
     ELSE IF u.retry > 0 THEN Done(SetPhase(u, "stable"))
     ELSE IF power > Threshold
     THEN Done(SetPhase([u EXCEPT !.retry = RetryInterval], "stable"))
     ELSE Queue(u, candidate, "admission")

\* _finish_measurement
FinishMeasurement(m, o) ==
  LET w == m.window
      closed == [m EXCEPT !.window = NoWindow]
      u == IF w.reason = "recovery" THEN Recover(closed) ELSE closed
  IN IF w.peak > Nominal /\ w.reason = "admission" /\ o.groups[w.group] = "yes"
     THEN Queue([u EXCEPT !.retry = RetryInterval], w.group, "admission_revert")
     ELSE IF w.peak > Nominal
     THEN Done([SetPhase(u, "stable") EXCEPT
                  !.nominalFor = 0,
                  !.maximumFor = IF w.peak > Maximum THEN 0 ELSE NoTimer])
     ELSE MaybeRestore(u, o, w.peak)

\* Mutant: a power above the maximum ends the time above the nominal one.
WatchOverloadApart(m, o) ==
  IF o.power <= Nominal THEN ResetOverloadTimers(m)
  ELSE LET since(timer) == IF timer = NoTimer THEN 0 ELSE timer
       IN [m EXCEPT
             !.nominalFor = IF o.power > Maximum THEN NoTimer ELSE since(@),
             !.maximumFor = IF o.power > Maximum THEN since(@) ELSE NoTimer]

\* _overload, as far as it only keeps the time.
WatchOverload(m, o) ==
  IF o.power <= Nominal THEN ResetOverloadTimers(m)
  ELSE LET since(timer) == IF timer = NoTimer THEN 0 ELSE timer
       IN [m EXCEPT
             !.nominalFor = since(@),
             !.maximumFor = IF o.power > Maximum THEN since(@) ELSE NoTimer]

\* _overload: long enough above the nominal power, or above the maximum
OverloadConfirmed(m, o) ==
  \/ o.power > Maximum /\ m.maximumFor >= MaximumTime
  \/ o.power = Maximum /\ m.nominalFor >= NominalTime

\* _shed_one
ShedOne(m, o) ==
  LET sheddable == {g \in LoadGroup : o.groups[g] = "yes"} \ m.blocked
  IN IF sheddable = {} THEN Done(SetPhase(m, "stable"))
     ELSE Queue(ResetOverloadTimers([m EXCEPT !.retry = RetryInterval]),
                FirstToShed(sheddable), "overload")

\* _on_generator after the checks of owner and stream: the end of a
\* measurement, an overload, or the time to try again.
Control(m, o, isNew) ==
  IF m.phase = "measuring"
  THEN IF MeasurementReady(m) THEN FinishMeasurement(m, o) ELSE Done(m)
  ELSE LET u == IF isNew THEN WatchOverload(m, o) ELSE m
       IN IF isNew /\ OverloadConfirmed(u, o) THEN ShedOne(u, o)
          ELSE IF u.retry = 0 /\ u.shed # {}
          THEN Done(TakeSample(StartMeasurement(u, "retry", "none"), o))
          ELSE Done(SetPhase(u, "stable"))

\* A new measurement under the limits of the engine that is on the bus now.
MeasureAnew(m, o, reason) ==
  LET u == [m EXCEPT !.lastOwner = o.owner]
  IN Done(AcceptSample(ResetOverloadTimers(StartMeasurement(u, reason, "none")), o))

\* _on_generator.  A gap in the samples is judged before the sample that
\* ends it is accepted.
OnGenerator(m, o) ==
  IF DependencyError(o) THEN Done(Degrade(m))
  ELSE IF m.phase = "degraded"
  THEN IF m.staleStream /\ ~SampleIsNew(m, o) THEN Done(m)
       ELSE MeasureAnew(m, o, "recovery")
  ELSE IF o.owner # m.lastOwner THEN MeasureAnew(m, o, "base")
  ELSE IF SamplesStale(m)
  THEN Done(Degrade([ResetOverloadTimers(m) EXCEPT !.staleStream = TRUE]))
  ELSE Control(AcceptSample(m, o), o, SampleIsNew(m, o))

-------------------------------------------------------------------------------
(***************************************************************************)
(* The step.                                                               *)
(***************************************************************************)

\* Mutant: what the user turned on stays owed.
ReconcileNothing(m, o) == m

\* _reconcile_manual_on: a group seen on is not owed to anybody.
ReconcileManualOn(m, o) ==
  [m EXCEPT !.shed =
     {g \in @ : o.groups[g] # "yes" \/ g = m.pending.group}]

Confirmed(m, o) == o.groups[m.pending.group] = Reads(TurnsOn(m.pending))

\* _reconcile_pending: the reading is what was commanded.
ConfirmPending(m) ==
  LET p == m.pending
      u == [m EXCEPT
              !.shed = IF TurnsOn(p) THEN @ \ {p.group} ELSE @ \cup {p.group},
              !.pending = Nothing, !.blocked = @ \ {p.group}, !.degraded = FALSE]
  IN IF ~MeasuredAfter(p) THEN u
     ELSE IF p.reason = "admission" THEN StartMeasurement(u, "admission", p.group)
     ELSE StartMeasurement(u, "after_shed", "none")

\* Mutant: the group that does not obey is tried again.
GiveUpUnblocked(m) == Degrade([m EXCEPT !.pending = Nothing])

\* _reconcile_pending: its time is over.
GiveUpPending(m) ==
  Degrade([m EXCEPT !.pending = Nothing, !.blocked = @ \cup {m.pending.group}])

\* step without a command to wait for
StepFree(m, o) ==
  LET resting == [ResetRuntime(m) EXCEPT !.lastOwner = "none"]
  IN IF ~o.actionsEnabled
     THEN LET u == [ResetRuntime(m) EXCEPT !.pending = Nothing]
          IN Done(IF o.houseOnGenerator # "yes" THEN SetPhase(u, "idle")
                  ELSE IF DependencyError(o) THEN Degrade(u)
                  ELSE SetPhase(u, "stable"))
     ELSE IF PretransferRequired(o) THEN Pretransfer(m, o)
     ELSE IF o.houseOnGrid = "yes" /\ o.houseOnGenerator = "no"
     THEN RestoreOnGrid(resting, o)
     ELSE IF o.houseOnGenerator = "yes" THEN OnGenerator(m, o)
     ELSE IF "unknown" \in {o.houseOnGenerator, o.houseOnGrid}
     THEN Done(Degrade(resting))
     ELSE Done(SetPhase(resting, "idle"))

Step(m, o) ==
  LET u == ReconcileManualOn(m, o)
  IN IF ~m.enabled
     THEN Done(SetPhase(ResetRuntime([m EXCEPT !.pending = Nothing]), "disabled"))
     ELSE IF u.pending = Nothing THEN StepFree(u, o)
     ELSE IF Confirmed(u, o) THEN StepFree(ConfirmPending(u), o)
     ELSE IF u.pending.left > 0 THEN Decision(u, FALSE, ~BlocksTransfer(u.pending))
     ELSE StepFree(GiveUpPending(u), o)

\* report_execution_failure for a command on a group
ReportExecutionFailure(m, group) ==
  Degrade([m EXCEPT !.blocked = @ \cup {group},
                    !.pending = IF @.group = group THEN Nothing ELSE @])

\* Mutant: the debts are not saved.
RestoredWithoutDebts(m, enabled) ==
  [ResetRuntime(m) EXCEPT !.enabled = enabled, !.lastOwner = "none", !.shed = {}]

\* Mutant: the time of the next try is not saved.
RestoredWithoutRetry(m, enabled) ==
  [ResetRuntime(m) EXCEPT !.enabled = enabled, !.lastOwner = "none", !.retry = NoTimer]

\* from_dict(to_dict(m)), under the configuration of the new start
Restored(m, enabled) ==
  [ResetRuntime(m) EXCEPT !.enabled = enabled, !.lastOwner = "none"]
===============================================================================
