------------------------------ MODULE LoadsProofs ------------------------------
(***************************************************************************)
(* Proofs about the load manager: what each operator of LoadManager does   *)
(* to the debts, the command awaited and the time of the next try, and,    *)
(* from that, the invariant behind the safety properties of Loads.  Then   *)
(* what they do to a window of measurement, and an invariant that ties it  *)
(* to what the history has seen of the load.                               *)
(***************************************************************************)
EXTENDS Loads, TLAPS

\* "No timer" and zero are times whatever the limits are.
LEMMA TimesRange ==
  /\ 0 \in 0..ConfirmTime /\ 0 \in 0..Stabilization
  /\ \A limit \in {RetryInterval, StaleTime, NominalTime, MaximumTime} :
       limit \in Nat /\ {NoTimer, 0, limit} \subseteq NoTimer..limit
BY LoadManagerAssumption DEF LoadManagerAssumption, NoTimer

-------------------------------------------------------------------------------
(***************************************************************************)
(* The small helpers keep what is owed, awaited and waited for.            *)
(***************************************************************************)

\* A manager whose measurement tries a group exactly if it says so.
Fits(u) ==
  /\ u \in Manager
  /\ u.window.reason = "admission" => u.window.group \in LoadGroup

SameDebts(v, u) ==
  /\ u.enabled = v.enabled
  /\ u.shed = v.shed
  /\ u.pending = v.pending
  /\ u.retry = v.retry

\* The helpers' common contract.
Minds(v, u) == Fits(u) /\ SameDebts(v, u)

\* Contracts add up.
LEMMA MindsTransitive ==
  ASSUME NEW v, NEW u, NEW w, Minds(v, u), Minds(u, w)
  PROVE  Minds(v, w)
BY DEF Minds, SameDebts

\* SetPhase and Degrade change the phase and whether it is degraded.
LEMMA PhaseMinds ==
  ASSUME NEW v, Fits(v), NEW phase \in LoadManagerPhase
  PROVE  Minds(v, SetPhase(v, phase)) /\ Minds(v, Degrade(v))
<1>1. Minds(v, SetPhase(v, phase))
  BY DEF Minds, Fits, SameDebts, Manager, SetPhase
<1>2. Minds(v, Degrade(v))
  BY DEF Minds, Fits, SameDebts, Manager, Degrade, LoadManagerPhase
<1> QED
  BY <1>1, <1>2

\* Recover clears a degradation that nothing blocks.
LEMMA RecoverMinds ==
  ASSUME NEW v, Fits(v)
  PROVE  Minds(v, Recover(v))
<1>1. Minds(v, [v EXCEPT !.degraded = FALSE, !.staleStream = FALSE])
  BY DEF Minds, Fits, SameDebts, Manager
<1>2. Minds(v, v)
  BY DEF Minds, SameDebts
<1> QED
  BY <1>1, <1>2 DEF Recover

\* The timers of an overload are forgotten.
LEMMA TimersMind ==
  ASSUME NEW v, Fits(v)
  PROVE  Minds(v, ResetOverloadTimers(v))
BY TimesRange DEF Minds, Fits, SameDebts, Manager, ResetOverloadTimers

\* So is everything that is not saved.
LEMMA ResetMinds ==
  ASSUME NEW v, Fits(v)
  PROVE  Minds(v, ResetRuntime(v))
<1> DEFINE u == ResetStream(v)
           w == ResetOverloadTimers(u)
<1>1. Minds(v, u)
  BY TimesRange DEF Minds, Fits, SameDebts, Manager, ResetStream
<1>2. Minds(u, w)
  BY <1>1, TimersMind DEF Minds
<1>3. Minds(w, [w EXCEPT !.window = NoWindow, !.blocked = {}])
  <2> HIDE DEF w
  <2> QED
    BY <1>2 DEF Minds, Fits, SameDebts, Manager, Window, NoWindow
<1>4. Minds(v, w)
  BY <1>1, <1>2, MindsTransitive
<1> QED
  BY <1>3, <1>4, MindsTransitive DEF ResetRuntime

\* A measurement starts with an empty window.
LEMMA StartMinds ==
  ASSUME NEW v, Fits(v),
         NEW reason \in {"base", "retry", "recovery", "after_shed", "admission"},
         NEW group \in LoadGroup \cup {"none"},
         reason = "admission" => group \in LoadGroup
  PROVE  Minds(v, StartMeasurement(v, reason, group))
<1> DEFINE w == [reason |-> reason, group |-> group,
                 age |-> 0, count |-> 0, peak |-> NoReading]
<1>1. /\ w \in Window
      /\ w.reason = "admission" => w.group \in LoadGroup
  BY TimesRange DEF Window, Rank, NoReading
<1>2. StartMeasurement(v, reason, group) = [v EXCEPT !.phase = "measuring", !.window = w]
  BY DEF StartMeasurement
<1> HIDE DEF w
<1> QED
  BY <1>1, <1>2 DEF Minds, Fits, SameDebts, Manager, LoadManagerPhase

\* A sample is taken into the window, if one is open.
LEMMA SampleMinds ==
  ASSUME NEW v, Fits(v), NEW o \in Observation
  PROVE  Minds(v, TakeSample(v, o)) /\ Minds(v, AcceptSample(v, o))
<1> DEFINE w == v.window
           next == IF w = NoWindow THEN w
                   ELSE [w EXCEPT !.count = IF @ < 2 THEN @ + 1 ELSE @,
                                  !.peak = IF o.power > @ THEN o.power ELSE @]
<1>1. next \in Window /\ next.reason = w.reason /\ next.group = w.group
  <2>1. CASE w = NoWindow
    BY <2>1 DEF Fits, Manager
  <2>2. CASE w # NoWindow
    <3> DEFINE count == IF w.count < 2 THEN w.count + 1 ELSE w.count
               peak == IF o.power > w.peak THEN o.power ELSE w.peak
    <3>1. w \in Window
      BY DEF Fits, Manager
    <3>2. count \in 0..2 /\ peak \in Rank
      BY <2>2, <3>1 DEF Window, Observation
    <3>3. next = [w EXCEPT !.count = count, !.peak = peak]
      BY <2>2
    <3> HIDE DEF w, count, peak, next
    <3> QED
      BY <2>2, <3>1, <3>2, <3>3 DEF Window
  <2> QED
    BY <2>1, <2>2
<1>2. TakeSample(v, o) = [v EXCEPT !.seen = "current", !.silent = 0, !.window = next]
  BY DEF TakeSample
<1> HIDE DEF next
<1>3. Minds(v, TakeSample(v, o))
  BY <1>1, <1>2, TimesRange DEF Minds, Fits, SameDebts, Manager
<1>4. Minds(v, v)
  BY DEF Minds, SameDebts
<1> QED
  BY <1>3, <1>4 DEF AcceptSample

\* The time above the thresholds is kept.
LEMMA WatchMinds ==
  ASSUME NEW v, Fits(v), NEW o \in Observation
  PROVE  Minds(v, WatchOverload(v, o))
<1> DEFINE since(timer) == IF timer = NoTimer THEN 0 ELSE timer
           long == since(v.nominalFor)
           top == IF o.power > Maximum THEN since(v.maximumFor) ELSE NoTimer
<1>1. long \in NoTimer..NominalTime /\ top \in NoTimer..MaximumTime
  BY TimesRange DEF Fits, Manager
<1>2. WatchOverload(v, o) \in {ResetOverloadTimers(v),
        [v EXCEPT !.nominalFor = long, !.maximumFor = top]}
  BY DEF WatchOverload
<1> HIDE DEF long, top
<1>3. Minds(v, [v EXCEPT !.nominalFor = long, !.maximumFor = top])
  BY <1>1 DEF Minds, Fits, SameDebts, Manager
<1> QED
  BY <1>2, <1>3, TimersMind

-------------------------------------------------------------------------------
(***************************************************************************)
(* The decisions of a manager that waits for no command.                   *)
(***************************************************************************)

AtHome(o) == o.houseOnGrid = "yes" /\ o.houseOnGenerator = "no"

\* No command is awaited, and no group that is seen on is owed.
Free(v, o) ==
  /\ Fits(v)
  /\ v.pending = Nothing
  /\ \A g \in v.shed : o.groups[g] # "yes"

\* What is commanded: on only what is owed, off only what is seen on; on a
\* generator no admission before its time, and a time set for what is too much.
Commanded(v, o, u) ==
  LET p == u.pending
  IN /\ p.group \in LoadGroup /\ p.reason \in Reason
     /\ IF TurnsOn(p) THEN p.group \in u.shed ELSE o.groups[p.group] = "yes"
     /\ p.reason = "grid_restore" => o.houseOnGenerator = "no"
     /\ p.reason = "admission" => v.retry <= 0
     /\ TooMuch(p) => u.retry = RetryInterval

\* The next try is put off, never brought forward, but on the grid or when
\* nothing is owed.
PutOff(v, o, u) == u.retry >= v.retry \/ NothingOwed(u) \/ AtHome(o)

\* The contract of every branch of a step without a command to wait for.
Decides(v, o, d) ==
  /\ Fits(d.m) /\ d.commands \in BOOLEAN /\ d.permitted \in BOOLEAN
  /\ d.m.enabled = v.enabled /\ d.m.shed = v.shed
  /\ IF d.commands THEN Commanded(v, o, d.m) ELSE d.m.pending = Nothing
  /\ PutOff(v, o, d.m)

\* The helpers leave a free manager free.
LEMMA MindsFree ==
  ASSUME NEW v, NEW u, NEW o, Free(v, o), Minds(v, u)
  PROVE  Free(u, o)
BY DEF Free, Minds, SameDebts

\* What is decided after a helper is decided.
LEMMA DecidesAfter ==
  ASSUME NEW v, NEW u, NEW o, NEW d, Minds(v, u), Decides(u, o, d)
  PROVE  Decides(v, o, d)
BY DEF Minds, SameDebts, Decides, Commanded, PutOff

\* To do nothing more is a decision.
LEMMA DoneDecides ==
  ASSUME NEW v, NEW o, Free(v, o), NEW u, Minds(v, u)
  PROVE  Decides(v, o, Done(u))
<1>1. u.retry >= v.retry
  BY DEF Minds, Fits, Manager, SameDebts, NoTimer
<1> QED
  BY <1>1 DEF Free, Minds, SameDebts, Decides, PutOff, Done, Decision

\* A change of the next try keeps everything else.
LEMMA RetryFits ==
  ASSUME NEW v, Fits(v), NEW retry \in {NoTimer, RetryInterval}
  PROVE  LET u == [v EXCEPT !.retry = retry]
         IN /\ Fits(u) /\ u.enabled = v.enabled /\ u.shed = v.shed
            /\ u.pending = v.pending /\ u.retry = retry
BY TimesRange DEF Fits, Manager

\* The longest wait is at least as long as any.
LEMMA LongestWait ==
  ASSUME NEW v, Fits(v)
  PROVE  RetryInterval >= v.retry
BY LoadManagerAssumption DEF LoadManagerAssumption, Fits, Manager, NoTimer

\* _queue: a command for a good reason is a decision.
LEMMA QueueDecides ==
  ASSUME NEW v, NEW o, NEW u, Fits(u), u.enabled = v.enabled, u.shed = v.shed,
         NEW group \in LoadGroup, NEW reason \in Reason,
         IF reason \in {"grid_restore", "admission"}
           THEN group \in u.shed ELSE o.groups[group] = "yes",
         reason = "grid_restore" => AtHome(o),
         reason = "admission" => v.retry <= 0,
         reason \in {"admission_revert", "overload"} => u.retry = RetryInterval,
         u.retry >= v.retry \/ AtHome(o)
  PROVE  Decides(v, o, Queue(u, group, reason))
<1> DEFINE p == [group |-> group, reason |-> reason, left |-> ConfirmTime]
           w == [u EXCEPT !.pending = p]
<1>1. p \in PendingAction
  BY LoadManagerAssumption DEF LoadManagerAssumption, PendingAction
<1>2. Queue(u, group, reason) = Decision(w, TRUE, ~BlocksTransfer(p))
  BY DEF Queue
<1>3. p.group = group /\ p.reason = reason
  OBVIOUS
<1> HIDE DEF p
<1>4. /\ Fits(w) /\ w.pending = p
      /\ w.enabled = u.enabled /\ w.shed = u.shed /\ w.retry = u.retry
  BY <1>1 DEF Fits, Manager
<1> HIDE DEF w
<1>5. Commanded(v, o, w)
  BY <1>3, <1>4 DEF Commanded, TurnsOn, TooMuch, AtHome
<1>6. PutOff(v, o, w)
  BY <1>4 DEF PutOff
<1> QED
  BY <1>2, <1>4, <1>5, <1>6 DEF Decides, Decision, BlocksTransfer

\* FirstToShed and FirstToRestore choose from what there is.
LEMMA FirstIsOneOf ==
  ASSUME NEW groups \in SUBSET LoadGroup, groups # {}
  PROVE  FirstToShed(groups) \in groups /\ FirstToRestore(groups) \in groups
BY DEF FirstToShed, FirstToRestore, LoadGroup

\* _pretransfer: a group that is on is taken off, or the transfer goes on.
LEMMA PretransferDecides ==
  ASSUME NEW v, NEW o \in Observation, Free(v, o)
  PROVE  Decides(v, o, Pretransfer(v, o))
<1> DEFINE sheddable == {g \in LoadGroup : o.groups[g] = "yes"} \ v.blocked
           w == SetPhase(Recover(v), "load_shedding")
<1>1. Minds(v, w) /\ Minds(v, Degrade(v))
  <2>1. Minds(v, Recover(v))
    BY RecoverMinds DEF Free
  <2>2. Minds(Recover(v), w)
    BY <2>1, PhaseMinds DEF Minds, LoadManagerPhase
  <2>3. Minds(v, Degrade(v))
    BY PhaseMinds DEF Free, LoadManagerPhase
  <2> QED
    BY <2>1, <2>2, <2>3, MindsTransitive
<1> HIDE DEF w
<1>2. CASE sheddable # {}
  <2> DEFINE group == FirstToShed(sheddable)
  <2>1. group \in LoadGroup /\ o.groups[group] = "yes"
    BY <1>2, FirstIsOneOf
  <2> HIDE DEF group
  <2>2. w.retry >= v.retry
    BY <1>1 DEF Minds, SameDebts, Fits, Manager, NoTimer
  <2>3. Decides(v, o, Queue(w, group, "pretransfer"))
    BY <1>1, <2>1, <2>2, QueueDecides DEF Minds, SameDebts, Reason
  <2> QED
    BY <1>2, <2>3 DEF Pretransfer, w, group
<1>3. CASE sheddable = {}
  <2>1. Pretransfer(v, o) \in {Done(w), Done(Degrade(v))}
    BY <1>3 DEF Pretransfer, w
  <2> QED
    BY <1>1, <2>1, DoneDecides
<1> QED
  BY <1>2, <1>3

\* _restore_on_grid: what is owed is given back, and nobody has to wait.
LEMMA RestoreOnGridDecides ==
  ASSUME NEW v, NEW o \in Observation, Free(v, o), AtHome(o)
  PROVE  Decides(v, o, RestoreOnGrid(v, o))
<1> DEFINE owed == {g \in v.shed : o.groups[g] # "yes"}
           u == [v EXCEPT !.retry = NoTimer, !.blocked = {}, !.shed = owed]
           next == FirstToRestore(owed)
<1>1. owed = v.shed /\ owed \subseteq LoadGroup
  BY DEF Free, Fits, Manager
<1>2. /\ Fits(u) /\ u.enabled = v.enabled /\ u.shed = v.shed
      /\ u.pending = Nothing
  BY <1>1, TimesRange DEF Free, Fits, Manager
<1>3. owed # {} => next \in u.shed /\ next \in LoadGroup
  BY <1>1, <1>2, FirstIsOneOf
<1>4. RestoreOnGrid(v, o) \in
        {Done(SetPhase(Recover(u), "idle")), Done(Degrade(u))}
          \cup IF owed = {} THEN {}
               ELSE {Queue(SetPhase(u, "idle"), next, "grid_restore")}
  BY DEF RestoreOnGrid
<1> HIDE DEF owed, u, next
<1>5. Minds(u, SetPhase(Recover(u), "idle"))
  <2>1. Minds(u, Recover(u))
    BY <1>2, RecoverMinds
  <2>2. Minds(Recover(u), SetPhase(Recover(u), "idle"))
    BY <2>1, PhaseMinds DEF Minds, LoadManagerPhase
  <2> QED
    BY <2>1, <2>2, MindsTransitive
<1>6. Minds(u, SetPhase(u, "idle")) /\ Minds(u, Degrade(u))
  BY <1>2, PhaseMinds DEF LoadManagerPhase
<1>7. ASSUME NEW w, Minds(u, w) PROVE Decides(v, o, Done(w))
  BY <1>2, <1>7 DEF Minds, SameDebts, Decides, PutOff, Done, Decision
<1>8. ASSUME owed # {}
      PROVE  Decides(v, o, Queue(SetPhase(u, "idle"), next, "grid_restore"))
  <2> DEFINE w == SetPhase(u, "idle")
  <2>1. Fits(w) /\ w.enabled = v.enabled /\ w.shed = v.shed /\ next \in w.shed
    BY <1>2, <1>3, <1>6, <1>8 DEF Minds, SameDebts
  <2> HIDE DEF w
  <2>2. Decides(v, o, Queue(w, next, "grid_restore"))
    BY <1>3, <1>8, <2>1, QueueDecides DEF Reason
  <2> QED
    BY <2>2 DEF w
<1> QED
  BY <1>4, <1>5, <1>6, <1>7, <1>8

\* _maybe_restore: an admission is for a group that is owed, and in its time.
LEMMA MaybeRestoreDecides ==
  ASSUME NEW v, NEW o \in Observation, Free(v, o), NEW power \in Rank
  PROVE  Decides(v, o, MaybeRestore(v, o, power))
<1> DEFINE owed == {g \in v.shed : o.groups[g] # "yes"}
           u == [v EXCEPT !.shed = owed]
           candidate == FirstToRestore(owed)
           never == [u EXCEPT !.retry = NoTimer]
           later == [u EXCEPT !.retry = RetryInterval]
<1>1. owed = v.shed /\ owed \subseteq LoadGroup
  BY DEF Free, Fits, Manager
<1>2. Minds(v, u)
  BY <1>1 DEF Minds, SameDebts, Free, Fits, Manager
<1>3. owed # {} => candidate \in u.shed /\ candidate \in LoadGroup
  BY <1>1, <1>2, FirstIsOneOf DEF Minds, SameDebts
<1>4. CASE owed = {}
  <2>1. MaybeRestore(v, o, power) = Done(SetPhase(never, "stable"))
    BY <1>4 DEF MaybeRestore
  <2>2. /\ Fits(never) /\ never.enabled = v.enabled
        /\ never.shed = {} /\ never.pending = Nothing
    BY <1>1, <1>2, <1>4, RetryFits DEF Minds, SameDebts, Free
  <2> HIDE DEF never
  <2>3. Minds(never, SetPhase(never, "stable"))
    BY <2>2, PhaseMinds DEF LoadManagerPhase
  <2> QED
    BY <1>1, <1>4, <2>1, <2>2, <2>3
    DEF Minds, SameDebts, Decides, PutOff, NothingOwed, Done, Decision
<1>5. CASE owed # {}
  <2>1. MaybeRestore(v, o, power) \in
          {Done(Degrade(u)), Done(SetPhase(u, "stable")),
           Done(SetPhase(later, "stable"))}
            \cup IF u.retry > 0 THEN {} ELSE {Queue(u, candidate, "admission")}
    BY <1>5 DEF MaybeRestore
  <2>2. /\ Fits(later) /\ later.enabled = v.enabled /\ later.shed = v.shed
        /\ later.pending = Nothing /\ later.retry >= v.retry
    BY <1>2, RetryFits, LongestWait DEF Minds, SameDebts, Free
  <2>3. u.retry = v.retry /\ v.retry \in Int /\ v.retry >= v.retry
    BY <1>2, LoadManagerAssumption
    DEF Minds, SameDebts, Fits, Manager, LoadManagerAssumption, NoTimer
  <2> HIDE DEF u, candidate, later
  <2>4. Minds(v, Degrade(u)) /\ Minds(v, SetPhase(u, "stable"))
    BY <1>2, PhaseMinds, MindsTransitive DEF Minds, LoadManagerPhase
  <2>5. Decides(v, o, Done(SetPhase(later, "stable")))
    <3>1. Minds(later, SetPhase(later, "stable"))
      BY <2>2, PhaseMinds DEF LoadManagerPhase
    <3> QED
      BY <2>2, <3>1 DEF Minds, SameDebts, Decides, PutOff, Done, Decision
  <2>6. ~(u.retry > 0) => Decides(v, o, Queue(u, candidate, "admission"))
    BY <1>2, <1>3, <1>5, <2>3, QueueDecides DEF Minds, SameDebts, Reason
  <2> QED
    BY <2>1, <2>4, <2>5, <2>6, DoneDecides
<1> QED
  BY <1>4, <1>5

\* _finish_measurement: too much goes off again, a load that fits asks for more.
LEMMA FinishMeasurementDecides ==
  ASSUME NEW v, NEW o \in Observation, Free(v, o)
  PROVE  Decides(v, o, FinishMeasurement(v, o))
<1> DEFINE w == v.window
           closedWindow == [v EXCEPT !.window = NoWindow]
           u == IF w.reason = "recovery" THEN Recover(closedWindow) ELSE closedWindow
           later == [u EXCEPT !.retry = RetryInterval]
           rest == SetPhase(u, "stable")
           top == IF w.peak > Maximum THEN 0 ELSE NoTimer
           over == [rest EXCEPT !.nominalFor = 0, !.maximumFor = top]
<1>1. Minds(v, u)
  <2>1. Minds(v, closedWindow)
    BY DEF Minds, SameDebts, Free, Fits, Manager, Window, NoWindow
  <2>2. Minds(v, Recover(closedWindow))
    BY <2>1, RecoverMinds, MindsTransitive DEF Minds
  <2> QED
    BY <2>1, <2>2
<1>2. w.peak \in Rank /\ (w.reason = "admission" => w.group \in LoadGroup)
  BY DEF Free, Fits, Manager, Window, NoWindow, Rank, NoReading
<1>3. FinishMeasurement(v, o) \in
        {Done(over), MaybeRestore(u, o, w.peak)}
          \cup IF w.reason = "admission" /\ o.groups[w.group] = "yes"
               THEN {Queue(later, w.group, "admission_revert")} ELSE {}
  BY DEF FinishMeasurement
<1>4. Decides(v, o, MaybeRestore(u, o, w.peak))
  <2> HIDE DEF u
  <2> QED
    BY <1>1, <1>2, MindsFree, MaybeRestoreDecides, DecidesAfter
<1>5. Decides(v, o, Done(over))
  <2>1. Minds(v, rest)
    BY <1>1, PhaseMinds, MindsTransitive DEF Minds, LoadManagerPhase
  <2>2. top \in NoTimer..MaximumTime /\ 0 \in NoTimer..NominalTime
    BY TimesRange
  <2> HIDE DEF rest, top
  <2>3. Minds(rest, over)
    BY <2>1, <2>2 DEF Minds, SameDebts, Fits, Manager
  <2> HIDE DEF over
  <2> QED
    BY <2>1, <2>3, MindsTransitive, DoneDecides
<1>6. ASSUME w.reason = "admission", o.groups[w.group] = "yes"
      PROVE  Decides(v, o, Queue(later, w.group, "admission_revert"))
  <2> HIDE DEF u
  <2>1. /\ Fits(later) /\ later.enabled = v.enabled /\ later.shed = v.shed
        /\ later.retry = RetryInterval /\ later.retry >= v.retry
    BY <1>1, RetryFits, LongestWait DEF Minds, SameDebts, Free
  <2> DEFINE group == w.group
  <2>2. group \in LoadGroup /\ o.groups[group] = "yes"
    BY <1>2, <1>6
  <2> HIDE DEF later, group
  <2>3. Decides(v, o, Queue(later, group, "admission_revert"))
    BY <2>1, <2>2, QueueDecides DEF Reason
  <2> QED
    BY <2>3 DEF group
<1> QED
  BY <1>3, <1>4, <1>5, <1>6

\* _shed_one: one group that is on, and the next try is put off.
LEMMA ShedOneDecides ==
  ASSUME NEW v, NEW o \in Observation, Free(v, o)
  PROVE  Decides(v, o, ShedOne(v, o))
<1> DEFINE sheddable == {g \in LoadGroup : o.groups[g] = "yes"} \ v.blocked
           group == FirstToShed(sheddable)
           later == [v EXCEPT !.retry = RetryInterval]
           w == ResetOverloadTimers(later)
<1>1. CASE sheddable = {}
  BY <1>1, PhaseMinds, DoneDecides DEF ShedOne, Free, LoadManagerPhase
<1>2. CASE sheddable # {}
  <2>1. group \in LoadGroup /\ o.groups[group] = "yes"
    BY <1>2, FirstIsOneOf
  <2>2. /\ Fits(later) /\ later.enabled = v.enabled /\ later.shed = v.shed
        /\ later.retry = RetryInterval
    BY RetryFits DEF Free
  <2>3. Minds(later, w)
    BY <2>2, TimersMind
  <2>4. /\ Fits(w) /\ w.enabled = v.enabled /\ w.shed = v.shed
        /\ w.retry = RetryInterval /\ w.retry >= v.retry
    BY <2>2, <2>3, LongestWait DEF Minds, SameDebts, Free
  <2>5. ShedOne(v, o) = Queue(w, group, "overload")
    BY <1>2 DEF ShedOne
  <2> HIDE DEF group, w, later
  <2> QED
    BY <2>1, <2>4, <2>5, QueueDecides DEF Reason
<1> QED
  BY <1>1, <1>2

\* A measurement starts anew and decides nothing.
LEMMA MeasureAnewDecides ==
  ASSUME NEW v, NEW o \in Observation, Free(v, o), NEW reason \in {"base", "recovery"}
  PROVE  Decides(v, o, MeasureAnew(v, o, reason))
<1> DEFINE u == [v EXCEPT !.lastOwner = o.owner]
           started == StartMeasurement(u, reason, "none")
           w == ResetOverloadTimers(started)
<1>1. Minds(v, u)
  BY DEF Minds, SameDebts, Free, Fits, Manager, Observation
<1>2. Minds(u, started)
  BY <1>1, StartMinds DEF Minds
<1>3. Minds(started, w)
  BY <1>2, TimersMind DEF Minds
<1>4. Minds(w, AcceptSample(w, o))
  BY <1>3, SampleMinds DEF Minds
<1>5. MeasureAnew(v, o, reason) = Done(AcceptSample(w, o))
  BY DEF MeasureAnew
<1> HIDE DEF u, started, w
<1> QED
  BY <1>1, <1>2, <1>3, <1>4, <1>5, MindsTransitive, DoneDecides

\* _on_generator after its checks: a measurement ends, an overload is
\* answered, or it is time to try again.
LEMMA ControlDecides ==
  ASSUME NEW v, NEW o \in Observation, Free(v, o), NEW isNew \in BOOLEAN
  PROVE  Decides(v, o, Control(v, o, isNew))
<1> DEFINE u == IF isNew THEN WatchOverload(v, o) ELSE v
           again == StartMeasurement(u, "retry", "none")
<1>1. Minds(v, v)
  BY DEF Free, Minds, SameDebts
<1>2. Minds(v, u)
  BY <1>1, WatchMinds DEF Free
<1>3. Control(v, o, isNew) \in
        {FinishMeasurement(v, o), Done(v), ShedOne(u, o),
         Done(TakeSample(again, o)), Done(SetPhase(u, "stable"))}
  BY DEF Control
<1> HIDE DEF u
<1>4. Decides(v, o, FinishMeasurement(v, o)) /\ Decides(v, o, Done(v))
  BY <1>1, FinishMeasurementDecides, DoneDecides
<1>5. Decides(v, o, ShedOne(u, o))
  BY <1>2, MindsFree, ShedOneDecides, DecidesAfter
<1>6. Decides(v, o, Done(TakeSample(again, o)))
  <2>1. Minds(u, again)
    BY <1>2, StartMinds DEF Minds
  <2>2. Minds(again, TakeSample(again, o))
    BY <2>1, SampleMinds DEF Minds
  <2> QED
    BY <1>2, <2>1, <2>2, MindsTransitive, DoneDecides
<1>7. Decides(v, o, Done(SetPhase(u, "stable")))
  BY <1>2, PhaseMinds, MindsTransitive, DoneDecides DEF Minds, LoadManagerPhase
<1> QED
  BY <1>3, <1>4, <1>5, <1>6, <1>7

\* _on_generator
LEMMA OnGeneratorDecides ==
  ASSUME NEW v, NEW o \in Observation, Free(v, o)
  PROVE  Decides(v, o, OnGenerator(v, o))
<1> DEFINE timed == ResetOverloadTimers(v)
           stale == [timed EXCEPT !.staleStream = TRUE]
           accepted == AcceptSample(v, o)
<1>1. OnGenerator(v, o) \in
        {Done(Degrade(v)), Done(v), MeasureAnew(v, o, "recovery"),
         MeasureAnew(v, o, "base"), Done(Degrade(stale)),
         Control(accepted, o, SampleIsNew(v, o))}
  BY DEF OnGenerator
<1>2. Minds(v, v) /\ Minds(v, Degrade(v))
  BY PhaseMinds DEF Free, Minds, SameDebts, LoadManagerPhase
<1>3. /\ Decides(v, o, MeasureAnew(v, o, "recovery"))
      /\ Decides(v, o, MeasureAnew(v, o, "base"))
  BY MeasureAnewDecides
<1>4. Minds(v, Degrade(stale))
  <2>1. Minds(v, timed)
    BY TimersMind DEF Free
  <2> HIDE DEF timed
  <2>2. Minds(timed, stale)
    BY <2>1 DEF Minds, SameDebts, Fits, Manager
  <2> HIDE DEF stale
  <2>3. Minds(stale, Degrade(stale))
    BY <2>2, PhaseMinds DEF Minds, LoadManagerPhase
  <2> QED
    BY <2>1, <2>2, <2>3, MindsTransitive
<1>5. Decides(v, o, Control(accepted, o, SampleIsNew(v, o)))
  <2>1. Minds(v, accepted)
    BY SampleMinds DEF Free
  <2>2. SampleIsNew(v, o) \in BOOLEAN
    BY DEF SampleIsNew
  <2> HIDE DEF accepted
  <2> QED
    BY <2>1, <2>2, MindsFree, ControlDecides, DecidesAfter
<1> HIDE DEF stale, timed, accepted
<1> QED
  BY <1>1, <1>2, <1>3, <1>4, <1>5, DoneDecides

\* step without a command to wait for.
LEMMA StepFreeDecides ==
  ASSUME NEW v, NEW o \in Observation, Free(v, o)
  PROVE  Decides(v, o, StepFree(v, o))
<1> DEFINE reset == ResetRuntime(v)
           resting == [reset EXCEPT !.lastOwner = "none"]
           u == [reset EXCEPT !.pending = Nothing]
<1>1. Minds(v, reset)
  BY ResetMinds DEF Free
<1> HIDE DEF reset
<1>2. Minds(v, resting)
  BY <1>1 DEF Minds, SameDebts, Fits, Manager
<1>3. Minds(v, u)
  BY <1>1 DEF Minds, SameDebts, Free, Fits, Manager, PendingAction
<1>4. StepFree(v, o) \in
        {Done(SetPhase(u, "idle")), Done(Degrade(u)), Done(SetPhase(u, "stable")),
         Pretransfer(v, o), OnGenerator(v, o),
         Done(Degrade(resting)), Done(SetPhase(resting, "idle"))}
          \cup IF AtHome(o) THEN {RestoreOnGrid(resting, o)} ELSE {}
  BY DEF StepFree, AtHome, reset
<1> HIDE DEF resting, u
<1>5. /\ Minds(v, SetPhase(u, "idle")) /\ Minds(v, SetPhase(u, "stable"))
      /\ Minds(v, Degrade(u))
  BY <1>3, PhaseMinds, MindsTransitive DEF Minds, LoadManagerPhase
<1>6. Minds(v, Degrade(resting)) /\ Minds(v, SetPhase(resting, "idle"))
  BY <1>2, PhaseMinds, MindsTransitive DEF Minds, LoadManagerPhase
<1>7. AtHome(o) => Decides(v, o, RestoreOnGrid(resting, o))
  BY <1>2, MindsFree, RestoreOnGridDecides, DecidesAfter
<1> QED
  BY <1>4, <1>5, <1>6, <1>7, DoneDecides, PretransferDecides, OnGeneratorDecides

-------------------------------------------------------------------------------
(***************************************************************************)
(* The step.                                                               *)
(***************************************************************************)

\* A group that is to go off is not owed yet.
Orderly(v) ==
  /\ Fits(v)
  /\ ~TurnsOn(v.pending) => v.pending.group \notin v.shed

\* A debt is won by a confirmed command, and lost by the sight of the group on.
Accounts(v, o, u) ==
  /\ \A g \in u.shed :
       \/ g \in v.shed
       \/ g = v.pending.group /\ ~TurnsOn(v.pending) /\ o.groups[g] = "no"
  /\ \A g \in v.shed \ u.shed : o.groups[g] = "yes"
  /\ u.enabled => \A g \in u.shed : o.groups[g] # "yes"

\* The contract of a step.
Steps(v, o, d) ==
  /\ Orderly(d.m) /\ d.commands \in BOOLEAN /\ d.permitted \in BOOLEAN
  /\ d.m.enabled = v.enabled
  /\ Accounts(v, o, d.m)
  /\ IF d.commands THEN v.enabled /\ Commanded(v, o, d.m)
     ELSE d.m.pending \in {Nothing, v.pending}
  /\ PutOff(v, o, d.m)

\* A decision of a manager that has settled its accounts is a step.
LEMMA DecidesSteps ==
  ASSUME NEW v, NEW o, NEW u, NEW d, Orderly(v), v.enabled, Free(u, o),
         u.enabled = v.enabled, u.retry = v.retry, Accounts(v, o, u),
         Decides(u, o, d)
  PROVE  Steps(v, o, d)
<1>1. Accounts(v, o, d.m)
  BY DEF Accounts, Decides
<1>2. Orderly(d.m)
  <2>1. CASE d.commands
    BY <2>1 DEF Orderly, Decides, Commanded, Free
  <2>2. CASE ~d.commands
    BY <2>2 DEF Orderly, Decides, Fits, Manager, Nothing, LoadGroup
  <2> QED
    BY <2>1, <2>2
<1>3. PutOff(v, o, d.m)
  BY DEF Decides, PutOff
<1>4. d.commands => Commanded(v, o, d.m)
  BY DEF Decides, Commanded
<1> QED
  BY <1>1, <1>2, <1>3, <1>4 DEF Steps, Decides

\* _reconcile_manual_on: of the groups seen on only the awaited stays owed.
LEMMA ReconcileAccounts ==
  ASSUME NEW v, NEW o, Orderly(v)
  PROVE  LET u == ReconcileManualOn(v, o)
         IN /\ Orderly(u) /\ u.enabled = v.enabled /\ u.retry = v.retry
            /\ u.pending = v.pending /\ u.shed \subseteq v.shed
            /\ \A g \in v.shed \ u.shed : o.groups[g] = "yes"
            /\ \A g \in u.shed : o.groups[g] # "yes" \/ g = v.pending.group
<1> DEFINE shed == {g \in v.shed : o.groups[g] # "yes" \/ g = v.pending.group}
           u == [v EXCEPT !.shed = shed]
<1>1. shed \in SUBSET LoadGroup
  BY DEF Orderly, Fits, Manager
<1>2. shed \subseteq v.shed
  OBVIOUS
<1>3. ReconcileManualOn(v, o) = u
  BY DEF ReconcileManualOn
<1>4. \A g \in v.shed \ shed : o.groups[g] = "yes"
  OBVIOUS
<1>5. \A g \in shed : o.groups[g] # "yes" \/ g = v.pending.group
  OBVIOUS
<1> HIDE DEF shed
<1>6. /\ Fits(u) /\ u.shed = shed /\ u.enabled = v.enabled
      /\ u.retry = v.retry /\ u.pending = v.pending
  BY <1>1 DEF Orderly, Fits, Manager
<1> HIDE DEF u
<1> QED
  BY <1>2, <1>3, <1>4, <1>5, <1>6 DEF Orderly

\* _reconcile_pending: a confirmed command is entered in the accounts.
LEMMA ConfirmAccounts ==
  ASSUME NEW v, NEW o \in Observation, Orderly(v), v.pending # Nothing,
         o.groups[v.pending.group] = Reads(TurnsOn(v.pending)),
         \A g \in v.shed : o.groups[g] # "yes" \/ g = v.pending.group
  PROVE  LET u == ConfirmPending(v)
         IN /\ Free(u, o) /\ u.enabled = v.enabled /\ u.retry = v.retry
            /\ Accounts(v, o, u)
<1> DEFINE p == v.pending
           shed == IF TurnsOn(p) THEN v.shed \ {p.group} ELSE v.shed \cup {p.group}
           blocked == v.blocked \ {p.group}
           u == [v EXCEPT !.shed = shed, !.pending = Nothing,
                          !.blocked = blocked, !.degraded = FALSE]
<1>1. p.group \in LoadGroup
  BY DEF Orderly, Fits, Manager, PendingAction
<1>2. shed \in SUBSET LoadGroup /\ blocked \in SUBSET LoadGroup
  BY <1>1 DEF Orderly, Fits, Manager
<1>3. IF TurnsOn(p) THEN o.groups[p.group] = "yes" ELSE o.groups[p.group] = "no"
  BY DEF Reads
<1>4. /\ \A g \in shed :
           \/ g \in v.shed
           \/ g = p.group /\ ~TurnsOn(p) /\ o.groups[g] = "no"
      /\ \A g \in v.shed \ shed : o.groups[g] = "yes"
      /\ \A g \in shed : o.groups[g] # "yes"
  <2> HIDE DEF p
  <2>1. \A g \in v.shed : o.groups[g] # "yes" \/ g = p.group
    BY DEF p
  <2>2. CASE TurnsOn(p)
    BY <1>3, <2>1, <2>2 DEF TurnsOn
  <2>3. CASE ~TurnsOn(p)
    BY <1>3, <2>1, <2>3 DEF TurnsOn
  <2> QED
    BY <2>2, <2>3
<1> HIDE DEF shed, blocked
<1>5. /\ Fits(u) /\ u.shed = shed /\ u.enabled = v.enabled
      /\ u.retry = v.retry /\ u.pending = Nothing
  BY <1>2 DEF Orderly, Fits, Manager, PendingAction
<1>6. ConfirmPending(v) \in
        {u, StartMeasurement(u, "admission", p.group),
         StartMeasurement(u, "after_shed", "none")}
  BY DEF ConfirmPending, shed, blocked
<1> HIDE DEF u
<1>7. /\ Minds(u, u)
      /\ Minds(u, StartMeasurement(u, "admission", p.group))
      /\ Minds(u, StartMeasurement(u, "after_shed", "none"))
  BY <1>1, <1>5, StartMinds DEF Minds, SameDebts
<1>8. ASSUME NEW w, Minds(u, w)
      PROVE  /\ Free(w, o) /\ w.enabled = v.enabled /\ w.retry = v.retry
             /\ Accounts(v, o, w)
  BY <1>4, <1>5, <1>8 DEF Minds, SameDebts, Free, Accounts
<1> QED
  BY <1>6, <1>7, <1>8

\* _reconcile_pending: a command whose time is over changes no account.
LEMMA GiveUpAccounts ==
  ASSUME NEW v, NEW o \in Observation, Orderly(v), v.pending # Nothing,
         o.groups[v.pending.group] # Reads(TurnsOn(v.pending)),
         \A g \in v.shed : o.groups[g] # "yes" \/ g = v.pending.group
  PROVE  LET u == GiveUpPending(v)
         IN /\ Free(u, o) /\ u.enabled = v.enabled /\ u.retry = v.retry
            /\ u.shed = v.shed /\ \A g \in u.shed : o.groups[g] # "yes"
<1> DEFINE blocked == v.blocked \cup {v.pending.group}
           u == [v EXCEPT !.pending = Nothing, !.blocked = blocked]
<1>1. blocked \in SUBSET LoadGroup
  BY DEF Orderly, Fits, Manager, PendingAction
<1>2. \A g \in v.shed : o.groups[g] # "yes"
  BY DEF Orderly, Reads
<1>3. GiveUpPending(v) = Degrade(u)
  BY DEF GiveUpPending
<1> HIDE DEF blocked
<1>4. /\ Fits(u) /\ u.shed = v.shed /\ u.enabled = v.enabled
      /\ u.retry = v.retry /\ u.pending = Nothing
  BY <1>1 DEF Orderly, Fits, Manager, PendingAction
<1> HIDE DEF u
<1>5. Minds(u, Degrade(u))
  BY <1>4, PhaseMinds DEF LoadManagerPhase
<1> QED
  BY <1>2, <1>3, <1>4, <1>5 DEF Minds, SameDebts, Free

\* step: what a step may do to debts, command and time of the next try.
LEMMA StepSteps ==
  ASSUME NEW v, NEW o \in Observation, Orderly(v)
  PROVE  Steps(v, o, Step(v, o))
<1> DEFINE u == ReconcileManualOn(v, o)
<1>1. CASE ~v.enabled
  <2> DEFINE w == [v EXCEPT !.pending = Nothing]
  <2>1. /\ Fits(w) /\ w.pending = Nothing /\ w.shed = v.shed
        /\ w.retry = v.retry /\ w.enabled = v.enabled
    BY DEF Orderly, Fits, Manager, PendingAction
  <2>2. Step(v, o) = Done(SetPhase(ResetRuntime(w), "disabled"))
    BY <1>1 DEF Step
  <2> HIDE DEF w
  <2>3. Minds(w, ResetRuntime(w))
    BY <2>1, ResetMinds
  <2> DEFINE x == SetPhase(ResetRuntime(w), "disabled")
  <2>4. Minds(w, x)
    BY <2>3, PhaseMinds, MindsTransitive DEF Minds, LoadManagerPhase
  <2> HIDE DEF x
  <2>5. x.pending = Nothing /\ x.shed = v.shed /\ x.retry >= v.retry /\ Fits(x)
    BY <2>1, <2>4 DEF Minds, SameDebts, Fits, Manager, NoTimer
  <2>6. Orderly(x)
    BY <2>5 DEF Orderly, Fits, Manager, Nothing, LoadGroup
  <2>7. Accounts(v, o, x) /\ PutOff(v, o, x)
    BY <1>1, <2>1, <2>4, <2>5 DEF Accounts, PutOff, Minds, SameDebts
  <2>8. Step(v, o) = Done(x)
    BY <2>2 DEF x
  <2> QED
    BY <2>1, <2>4, <2>5, <2>6, <2>7, <2>8 DEF Steps, Minds, SameDebts, Done, Decision
<1>2. CASE v.enabled
  <2>1. /\ Orderly(u) /\ u.enabled = v.enabled /\ u.retry = v.retry
        /\ u.pending = v.pending /\ u.shed \subseteq v.shed
        /\ \A g \in v.shed \ u.shed : o.groups[g] = "yes"
        /\ \A g \in u.shed : o.groups[g] # "yes" \/ g = v.pending.group
    BY ReconcileAccounts
  <2>2. Step(v, o) =
          IF u.pending = Nothing THEN StepFree(u, o)
          ELSE IF Confirmed(u, o) THEN StepFree(ConfirmPending(u), o)
          ELSE IF u.pending.left > 0 THEN Decision(u, FALSE, ~BlocksTransfer(u.pending))
          ELSE StepFree(GiveUpPending(u), o)
    BY <1>2 DEF Step
  <2> HIDE DEF u
  <2>3. CASE u.pending = Nothing
    <3>1. \A g \in u.shed : o.groups[g] # "yes"
      BY <2>1, <2>3 DEF Orderly, Fits, Manager, Nothing, LoadGroup
    <3>2. Free(u, o) /\ Accounts(v, o, u)
      BY <2>1, <2>3, <3>1 DEF Free, Orderly, Accounts
    <3> QED
      BY <1>2, <2>1, <2>2, <2>3, <3>2, StepFreeDecides, DecidesSteps
  <2>4. CASE u.pending # Nothing /\ Confirmed(u, o)
    <3> DEFINE w == ConfirmPending(u)
    <3>1. /\ Free(w, o) /\ w.enabled = u.enabled /\ w.retry = u.retry
          /\ Accounts(u, o, w)
      BY <2>1, <2>4, ConfirmAccounts DEF Confirmed
    <3> HIDE DEF w
    <3>2. Accounts(v, o, w)
      BY <2>1, <3>1 DEF Accounts
    <3>3. Step(v, o) = StepFree(w, o)
      BY <2>2, <2>4 DEF w
    <3> QED
      BY <1>2, <2>1, <3>1, <3>2, <3>3, StepFreeDecides, DecidesSteps
  <2>5. CASE u.pending # Nothing /\ ~Confirmed(u, o) /\ u.pending.left > 0
    <3>1. \A g \in u.shed : o.groups[g] # "yes"
      BY <2>1, <2>5 DEF Orderly, Confirmed, Reads
    <3>2. Accounts(v, o, u)
      BY <2>1, <3>1 DEF Accounts
    <3>3. PutOff(v, o, u)
      BY <2>1 DEF PutOff, Orderly, Fits, Manager, NoTimer
    <3> DEFINE d == Decision(u, FALSE, ~BlocksTransfer(u.pending))
    <3>4. /\ d.m = u /\ d.commands = FALSE /\ d.permitted \in BOOLEAN
          /\ Step(v, o) = d
      BY <2>2, <2>5 DEF Decision, BlocksTransfer
    <3> HIDE DEF d
    <3> QED
      BY <2>1, <3>2, <3>3, <3>4 DEF Steps
  <2>6. CASE u.pending # Nothing /\ ~Confirmed(u, o) /\ ~(u.pending.left > 0)
    <3> DEFINE w == GiveUpPending(u)
    <3>1. /\ Free(w, o) /\ w.enabled = u.enabled /\ w.retry = u.retry
          /\ w.shed = u.shed /\ \A g \in w.shed : o.groups[g] # "yes"
      BY <2>1, <2>6, GiveUpAccounts DEF Confirmed
    <3> HIDE DEF w
    <3>2. Accounts(v, o, w)
      BY <2>1, <3>1 DEF Accounts
    <3>3. Step(v, o) = StepFree(w, o)
      BY <2>2, <2>6 DEF w
    <3> QED
      BY <1>2, <2>1, <3>1, <3>2, <3>3, StepFreeDecides, DecidesSteps
  <2> QED
    BY <2>3, <2>4, <2>5, <2>6
<1> QED
  BY <1>1, <1>2 DEF Orderly, Fits, Manager

-------------------------------------------------------------------------------
(***************************************************************************)
(* What else happens to the manager.                                       *)
(***************************************************************************)

SameCommand(p, q) == q.group = p.group /\ q.reason = p.reason

\* Time passes for every timer, and for nothing else.
LEMMA ElapseKeeps ==
  ASSUME NEW v, Orderly(v), NEW newSample \in BOOLEAN
  PROVE  LET u == Elapse(v, newSample)
         IN /\ Orderly(u) /\ u.enabled = v.enabled /\ u.shed = v.shed
            /\ SameCommand(v.pending, u.pending)
            /\ u.retry = Less(v.retry)
<1> DEFINE p == [v.pending EXCEPT !.left = Less(@)]
           w == [v.window EXCEPT !.age = Older(@, Stabilization)]
           retry == Less(v.retry)
           silent == Older(v.silent, StaleTime)
           nominalFor == Older(v.nominalFor, NominalTime)
           maximumFor == Older(v.maximumFor, MaximumTime)
           seen == IF newSample /\ v.seen = "current" THEN "older" ELSE v.seen
           u == [v EXCEPT !.pending = p, !.retry = retry, !.window = w,
                          !.silent = silent, !.nominalFor = nominalFor,
                          !.maximumFor = maximumFor, !.seen = seen]
<1>1. Elapse(v, newSample) = u
  BY DEF Elapse
<1>2. p \in PendingAction /\ SameCommand(v.pending, p)
  <2>1. v.pending \in PendingAction
    BY DEF Orderly, Fits, Manager
  <2>2. CASE v.pending = Nothing
    <3>1. \A q \in [group : {"none"}, reason : {"none"}, left : {NoTimer}] :
            [q EXCEPT !.left = NoTimer] = q
      OBVIOUS
    <3>2. p = [Nothing EXCEPT !.left = NoTimer]
      BY <2>2 DEF Less, NoTimer, Nothing
    <3>3. p = Nothing
      BY <3>1, <3>2 DEF Nothing
    <3> QED
      BY <2>2, <3>3 DEF PendingAction, SameCommand
  <2>3. CASE v.pending # Nothing
    <3>1. v.pending \in [group : LoadGroup, reason : Reason, left : 0..ConfirmTime]
      BY <2>1, <2>3 DEF PendingAction
    <3>2. Less(v.pending.left) \in 0..ConfirmTime
      BY <3>1, LoadManagerAssumption DEF Less, LoadManagerAssumption
    <3> QED
      BY <3>1, <3>2 DEF PendingAction, SameCommand
  <2> QED
    BY <2>2, <2>3
<1>3. w \in Window /\ w.reason = v.window.reason /\ w.group = v.window.group
  <2>1. v.window \in Window
    BY DEF Orderly, Fits, Manager
  <2>2. CASE v.window = NoWindow
    <3>1. \A q \in [reason : {"none"}, group : {"none"}, age : {NoTimer},
                    count : {0}, peak : {NoReading}] : [q EXCEPT !.age = NoTimer] = q
      OBVIOUS
    <3>2. w = [NoWindow EXCEPT !.age = NoTimer]
      BY <2>2 DEF Older, NoTimer, NoWindow
    <3>3. w = NoWindow
      BY <3>1, <3>2 DEF NoWindow
    <3> QED
      BY <2>2, <3>3 DEF Window
  <2>3. CASE v.window # NoWindow
    <3>1. v.window \in [reason : {"base", "retry", "recovery", "after_shed", "admission"},
                        group : LoadGroup \cup {"none"}, age : 0..Stabilization,
                        count : 0..2, peak : Rank]
      BY <2>1, <2>3 DEF Window
    <3>2. Older(v.window.age, Stabilization) \in 0..Stabilization
      BY <3>1, LoadManagerAssumption DEF Older, LoadManagerAssumption, NoTimer
    <3> QED
      BY <3>1, <3>2 DEF Window
  <2> QED
    BY <2>2, <2>3
<1>4. /\ retry \in NoTimer..RetryInterval /\ silent \in NoTimer..StaleTime
      /\ nominalFor \in NoTimer..NominalTime /\ maximumFor \in NoTimer..MaximumTime
      /\ seen \in {"none", "older", "current"}
  BY LoadManagerAssumption
  DEF LoadManagerAssumption, Orderly, Fits, Manager, Less, Older, NoTimer
<1> HIDE DEF p, w, retry, silent, nominalFor, maximumFor, seen
<1>5. /\ Fits(u) /\ u.enabled = v.enabled /\ u.shed = v.shed
      /\ u.pending = p /\ u.retry = retry
  BY <1>2, <1>3, <1>4 DEF Orderly, Fits, Manager
<1> HIDE DEF u
<1>6. Orderly(u)
  BY <1>2, <1>5 DEF Orderly, SameCommand, TurnsOn
<1> QED
  BY <1>1, <1>2, <1>5, <1>6 DEF retry

\* report_execution_failure: nobody waits for a failed command.
LEMMA FailureKeeps ==
  ASSUME NEW v, Orderly(v), NEW group \in LoadGroup
  PROVE  LET u == ReportExecutionFailure(v, group)
         IN /\ Orderly(u) /\ u.enabled = v.enabled /\ u.shed = v.shed
            /\ u.pending \in {Nothing, v.pending} /\ u.retry = v.retry
<1> DEFINE blocked == v.blocked \cup {group}
           p == IF v.pending.group = group THEN Nothing ELSE v.pending
           u == [v EXCEPT !.blocked = blocked, !.pending = p]
<1>1. ReportExecutionFailure(v, group) = Degrade(u)
  BY DEF ReportExecutionFailure
<1>2. p \in {Nothing, v.pending} /\ p \in PendingAction /\ blocked \in SUBSET LoadGroup
  BY DEF Orderly, Fits, Manager, PendingAction
<1> HIDE DEF p, blocked
<1>3. /\ Fits(u) /\ u.enabled = v.enabled /\ u.shed = v.shed
      /\ u.pending = p /\ u.retry = v.retry
  BY <1>2 DEF Orderly, Fits, Manager
<1> HIDE DEF u
<1>4. Minds(u, Degrade(u))
  BY <1>3, PhaseMinds DEF LoadManagerPhase
<1>5. "none" \notin v.shed
  BY DEF Orderly, Fits, Manager, LoadGroup
<1> QED
  BY <1>1, <1>2, <1>3, <1>4, <1>5 DEF Minds, SameDebts, Orderly, Nothing

\* from_dict: what is owed, awaited and waited for survives a restart.
LEMMA RestoredKeeps ==
  ASSUME NEW v, Orderly(v), NEW enabled \in BOOLEAN
  PROVE  LET u == Restored(v, enabled)
         IN /\ Orderly(u) /\ u.shed = v.shed /\ u.pending = v.pending
            /\ u.retry = v.retry
<1> DEFINE reset == ResetRuntime(v)
           u == [reset EXCEPT !.enabled = enabled, !.lastOwner = "none"]
<1>1. Minds(v, reset)
  BY ResetMinds DEF Orderly
<1> HIDE DEF reset
<1>2. Fits(u) /\ u.shed = v.shed /\ u.pending = v.pending /\ u.retry = v.retry
  BY <1>1 DEF Minds, SameDebts, Fits, Manager
<1> HIDE DEF u
<1>3. Orderly(u)
  BY <1>2 DEF Orderly
<1> QED
  BY <1>2, <1>3 DEF Restored, u, reset

-------------------------------------------------------------------------------
(***************************************************************************)
(* The system.  What is owed went off on an order of the program; what is  *)
(* ordered off is still on, or went off on that order; and the next try is *)
(* never nearer than the end of the time a group has to stay off.          *)
(***************************************************************************)

DebtInvariant ==
  /\ TypeOK
  /\ Orderly(m)
  /\ m.shed \subseteq own
  /\ m.pending # Nothing /\ ~TurnsOn(m.pending) => m.pending.group \in closed \cup own
  /\ coolFor > 0 => m.retry >= coolFor

\* What a tick finds.
LEMMA FindingsTypes ==
  ASSUME TypeOK, NEW h \in House, NEW f \in Findings(h)
  PROVE  /\ f.house = h /\ f.hidden \subseteq LoadGroup /\ f.closed \subseteq LoadGroup
         /\ f.power \in Rank /\ f.newSample \in BOOLEAN /\ f.enabled \in BOOLEAN
<1>1. Powers(h) \subseteq Rank
  BY LoadsAssumption
  DEF LoadsAssumption, Powers, Rank, NoReading, Threshold, Maximum
<1>2. CASE settled # "no"
  BY <1>1, <1>2 DEF Findings, TypeOK
<1>3. CASE settled = "no"
  <2> DEFINE thrown == {(closed \ Handled) \cup on : on \in SUBSET Handled}
             fresh == IF h \in OnGeneratorBus /\ Freezes THEN BOOLEAN ELSE {TRUE}
             allowed == IF Pauses THEN BOOLEAN ELSE {TRUE}
  <2>1. f \in [house : {h}, hidden : SUBSET Losable, closed : thrown,
               power : Powers(h), newSample : fresh, enabled : allowed]
    BY <1>3 DEF Findings
  <2>2. /\ SUBSET Losable \subseteq SUBSET LoadGroup
        /\ thrown \subseteq SUBSET LoadGroup
        /\ fresh \subseteq BOOLEAN /\ allowed \subseteq BOOLEAN
    BY LoadsAssumption DEF LoadsAssumption, TypeOK
  <2> HIDE DEF thrown, fresh, allowed
  <2> QED
    BY <1>1, <2>1, <2>2
<1> QED
  BY <1>2, <1>3

\* The manager observes the switches, and on which path the house is.
LEMMA ObservationTypes ==
  ASSUME NEW f, f.house \in House, f.power \in Rank, f.enabled \in BOOLEAN
  PROVE  /\ Observe(f) \in Observation
         /\ \A g \in LoadGroup : Observe(f).groups[g] = Reading(f, g)
         /\ AtHome(Observe(f)) => f.house = "grid"
         /\ f.house \in OnGeneratorBus => Observe(f).houseOnGenerator = "yes"
<1>1. \A g \in LoadGroup : Reading(f, g) \in Tri
  BY DEF Reading, Reads, Tri
<1>2. Observe(f) \in Observation
  BY <1>1 DEF Observe, Observation, Reads, Tri, GeneratorSlot
<1>3. \A g \in LoadGroup : Observe(f).groups[g] = Reading(f, g)
  BY DEF Observe
<1>4. AtHome(Observe(f)) => f.house = "grid"
  BY DEF AtHome, Observe, Reads
<1>5. f.house \in OnGeneratorBus => Observe(f).houseOnGenerator = "yes"
  BY DEF Observe, Reads, OnGeneratorBus
<1> QED
  BY <1>2, <1>3, <1>4, <1>5

\* A group that reads on is on, and one that reads off is off.
LEMMA ReadingTells ==
  ASSUME NEW f, NEW g
  PROVE  /\ Reading(f, g) = "yes" => g \in f.closed
         /\ Reading(f, g) = "no" => g \notin f.closed
BY DEF Reading, Reads

\* A load on an engine, as the history knows it.
History == [age : 0..Stabilization, count : 0..2, silent : 0..Freshness]

\* What a tick has to find to add to it.
FoundMeasured(f) ==
  /\ f.house \in {"A", "B"} /\ f.hidden = {} /\ f.enabled
  /\ f.power # NoReading /\ (f.newSample => f.power <= Threshold)

\* Whether it goes on.
GoesOn(f) ==
  /\ f.house = house /\ m.pending = Nothing
  /\ steady.count > 0 /\ steady.silent < Freshness

\* What a tick adds to the history of a load: nothing, one sample, or what there
\* was and this tick.
LEMMA WatchedAdds ==
  ASSUME TypeOK, NEW f, f.newSample \in BOOLEAN
  PROVE  LET st == Watched(f)
         IN /\ st \in History
            /\ ~FoundMeasured(f) => st.count = 0 /\ st.silent = 0
            /\ FoundMeasured(f) /\ ~GoesOn(f) => st.count = 1 /\ st.silent = 0
            /\ FoundMeasured(f) /\ GoesOn(f) =>
                 /\ st.age = Capped(steady.age, Stabilization)
                 /\ IF f.newSample THEN st.silent = 0 /\ st.count = Capped(steady.count, 2)
                    ELSE st.silent = steady.silent + 1 /\ st.count = steady.count
<1> DEFINE age == Capped(steady.age, Stabilization)
           count == IF f.newSample THEN Capped(steady.count, 2) ELSE steady.count
           silent == IF f.newSample THEN 0 ELSE steady.silent + 1
           longer == [age |-> age, count |-> count, silent |-> silent]
           first == [NotSteady EXCEPT !.count = 1]
<1>1. Watched(f) = IF ~FoundMeasured(f) THEN NotSteady
                   ELSE IF ~GoesOn(f) THEN first ELSE longer
  BY DEF Watched, FoundMeasured, GoesOn
<1>2. Freshness \in Nat /\ 0 \in 0..Freshness /\ 0 \in 0..Stabilization
  BY LoadManagerAssumption DEF LoadManagerAssumption, Freshness
<1>3. NotSteady \in History /\ NotSteady.count = 0 /\ NotSteady.silent = 0
      /\ first \in History /\ first.count = 1 /\ first.silent = 0
  BY <1>2 DEF NotSteady, History
<1>4. age \in 0..Stabilization /\ count \in 0..2
  BY LoadManagerAssumption DEF LoadManagerAssumption, TypeOK, Capped
<1>5. steady.silent < Freshness => silent \in 0..Freshness
  BY <1>2 DEF TypeOK
<1>6. GoesOn(f) => longer \in History
  BY <1>4, <1>5 DEF GoesOn, History
<1> HIDE DEF age, first
<1> QED
  BY <1>1, <1>3, <1>6 DEF age

\* A tick on the findings f: the manager steps, as old as v, on the observation
\* o to the decision d; its command goes out, and the histories follow.
Ticked(f, v, o, d) ==
  /\ v = Elapse(m, f.newSample) /\ o = Observe(f) /\ d = Step(v, o)
  /\ f.house \in House /\ f.hidden \subseteq LoadGroup /\ f.closed \subseteq LoadGroup
  /\ f.power \in Rank /\ f.newSample \in BOOLEAN /\ f.enabled \in BOOLEAN
  /\ Orderly(v) /\ v.enabled = m.enabled /\ v.shed = m.shed
  /\ SameCommand(m.pending, v.pending) /\ v.retry = Less(m.retry)
  /\ o \in Observation
  /\ \A g \in LoadGroup : o.groups[g] = Reading(f, g)
  /\ AtHome(o) => f.house = "grid"
  /\ f.house \in OnGeneratorBus => o.houseOnGenerator = "yes"
  /\ Steps(v, o, d)
  /\ m' = d.m /\ permitted' = d.permitted
  /\ house' = f.house /\ closed' = f.closed
  /\ call' = IF d.commands
             THEN [group |-> d.m.pending.group, on |-> TurnsOn(d.m.pending)]
             ELSE NoCall
  /\ own' = WentOff(f.closed, FALSE) \ SeenOn(f)
  /\ coolFor' = IF f.house = "grid" \/ NothingOwed(d.m) THEN 0
                ELSE IF d.commands /\ TooMuch(d.m.pending)
                THEN RetryInterval ELSE Less(coolFor)
  /\ steady' = Watched(f)
  /\ settled' = settled /\ call = NoCall

\* Every tick is one.
LEMMA TickSteps ==
  ASSUME DebtInvariant, Tick
  PROVE  \E f, v, o, d : Ticked(f, v, o, d)
<1>0. PICK h \in House : \E f \in Findings(h) : StepOn(f)
  BY LoadsAssumption DEF Tick, LoadsAssumption
<1>1. PICK f \in Findings(h) : StepOn(f)
  BY <1>0
<1> DEFINE v == Elapse(m, f.newSample)
           o == Observe(f)
           d == Step(v, o)
<1>2. /\ f.house = h /\ f.hidden \subseteq LoadGroup /\ f.closed \subseteq LoadGroup
      /\ f.power \in Rank /\ f.newSample \in BOOLEAN /\ f.enabled \in BOOLEAN
  BY FindingsTypes DEF DebtInvariant
<1>3. /\ Orderly(v) /\ v.enabled = m.enabled /\ v.shed = m.shed
      /\ SameCommand(m.pending, v.pending) /\ v.retry = Less(m.retry)
  BY <1>2, ElapseKeeps DEF DebtInvariant
<1>4. /\ o \in Observation
      /\ \A g \in LoadGroup : o.groups[g] = Reading(f, g)
      /\ AtHome(o) => f.house = "grid"
      /\ f.house \in OnGeneratorBus => o.houseOnGenerator = "yes"
  BY <1>2, ObservationTypes
<1>5. /\ m' = d.m /\ permitted' = d.permitted
      /\ house' = f.house /\ closed' = f.closed
      /\ call' = IF d.commands
                 THEN [group |-> d.m.pending.group, on |-> TurnsOn(d.m.pending)]
                 ELSE NoCall
      /\ own' = WentOff(f.closed, FALSE) \ SeenOn(f)
      /\ coolFor' = IF f.house = "grid" \/ NothingOwed(d.m) THEN 0
                    ELSE IF d.commands /\ TooMuch(d.m.pending)
                    THEN RetryInterval ELSE Less(coolFor)
      /\ steady' = Watched(f)
  BY <1>1 DEF StepOn
<1>6. settled' = settled /\ call = NoCall
  BY DEF Tick
<1>7. v = Elapse(m, f.newSample) /\ o = Observe(f) /\ d = Step(v, o)
  OBVIOUS
<1> HIDE DEF v, o
<1>8. Steps(v, o, d)
  BY <1>3, <1>4, StepSteps
<1> HIDE DEF d
<1> QED
  BY <1>2, <1>3, <1>4, <1>5, <1>6, <1>7, <1>8 DEF Ticked

\* At the start nothing is owed.
LEMMA InitInvariant ==
  Init => DebtInvariant
<1> SUFFICES ASSUME Init PROVE DebtInvariant
  OBVIOUS
<1> DEFINE new == NewManager(TRUE)
<1>1. new \in Manager
  BY TimesRange
  DEF NewManager, Manager, LoadManagerPhase, PendingAction, Window
<1>2. /\ new.shed = {} /\ new.pending = Nothing /\ new.window = NoWindow
  BY DEF NewManager
<1> HIDE DEF new
<1>3. m = new /\ own = {} /\ coolFor = 0
  BY DEF Init, new
<1>4. Orderly(m)
  BY <1>1, <1>2, <1>3 DEF Orderly, Fits, NoWindow
<1>5. NotSteady \in [age : 0..Stabilization, count : 0..2, silent : 0..Freshness]
  BY LoadManagerAssumption DEF LoadManagerAssumption, NotSteady, Freshness
<1>6. coolFor \in 0..RetryInterval
  BY <1>3, LoadManagerAssumption DEF LoadManagerAssumption
<1>7. TypeOK
  BY <1>1, <1>3, <1>5, <1>6, LoadsAssumption DEF TypeOK, Init, LoadsAssumption
<1> QED
  BY <1>2, <1>3, <1>4, <1>7 DEF DebtInvariant

\* A call that has ended leaves every group that the program ordered off its own.
LEMMA EndKeeps ==
  ASSUME TypeOK, NEW c \in Calls, End(c)
  PROVE  /\ closed' \subseteq LoadGroup /\ own' \subseteq LoadGroup
         /\ own \subseteq own' /\ closed \cup own \subseteq closed' \cup own'
<1>1. Obeyed(c) \subseteq LoadGroup
  BY DEF Obeyed, Calls, TypeOK
<1>2. PICK new \in (IF settled = "low" THEN {} ELSE {closed}) \cup {Obeyed(c)} :
        closed' = new /\ own' = WentOff(new, TRUE)
  BY DEF End
<1>3. own' = own \cup (closed \ new)
  BY <1>2 DEF WentOff
<1> QED
  BY <1>1, <1>2, <1>3 DEF TypeOK

\* Less never takes a time below where it can be.
LEMMA LessRange ==
  ASSUME NEW limit \in Nat, NEW left \in 0..limit
  PROVE  Less(left) \in 0..limit /\ (Less(left) > 0 => Less(left) = left - 1)
BY DEF Less

\* A tick keeps the invariant.
LEMMA TickInvariant ==
  ASSUME DebtInvariant, Tick
  PROVE  DebtInvariant'
<1>1. PICK f, v, o, d : Ticked(f, v, o, d)
  BY TickSteps
<1> USE DEF Ticked
<1>2. TypeOK /\ m.shed \subseteq own /\ m.shed \subseteq LoadGroup
  BY DEF DebtInvariant, Orderly, Fits, Manager
<1>3. Orderly(m') /\ m'.enabled = m.enabled /\ m'.shed \subseteq LoadGroup
  BY <1>1 DEF Steps, Orderly, Fits, Manager
<1>4. coolFor' \in 0..RetryInterval
  BY <1>1, <1>2, LessRange, LoadManagerAssumption
  DEF TypeOK, LoadManagerAssumption
<1>5. call' \in Calls \cup {NoCall}
  BY <1>1 DEF Steps, Commanded, Calls, TurnsOn
<1>6. own' \subseteq LoadGroup
  BY <1>1, <1>2 DEF WentOff, TypeOK
<1>7. TypeOK'
  <2>1. steady' \in [age : 0..Stabilization, count : 0..2, silent : 0..Freshness]
    BY <1>1, <1>2, WatchedAdds DEF History
  <2>2. permitted' \in BOOLEAN
    BY <1>1 DEF Steps
  <2> QED
    BY <1>1, <1>2, <1>3, <1>4, <1>5, <1>6, <2>1, <2>2 DEF TypeOK, Orderly, Fits
<1>8. ASSUME NEW g \in m'.shed PROVE g \in own'
  <2>1. \/ g \in m.shed
        \/ g = m.pending.group /\ ~TurnsOn(m.pending) /\ Reading(f, g) = "no"
    BY <1>1, <1>3, <1>8 DEF Steps, Accounts, SameCommand, TurnsOn
  <2>2. g \notin SeenOn(f)
    BY <1>1, <1>3, <1>8 DEF Steps, Accounts, SeenOn
  <2>3. CASE g \in m.shed
    BY <1>1, <1>2, <2>2, <2>3 DEF WentOff
  <2>4. CASE g = m.pending.group /\ ~TurnsOn(m.pending) /\ Reading(f, g) = "no"
    <3>1. g \notin f.closed
      BY <2>4, ReadingTells
    <3>2. g \in closed \cup own
      BY <1>3, <1>8, <2>4 DEF DebtInvariant, Nothing, LoadGroup
    <3> QED
      BY <1>1, <2>2, <2>4, <3>1, <3>2 DEF WentOff
  <2> QED
    BY <2>1, <2>3, <2>4
<1>9. ASSUME m'.pending # Nothing, ~TurnsOn(m'.pending)
      PROVE  m'.pending.group \in closed' \cup own'
  <2> DEFINE g == m'.pending.group
  <2>1. CASE d.commands
    BY <1>1, <1>9, <2>1, ReadingTells DEF Steps, Commanded
  <2>2. CASE ~d.commands
    <3>1. m'.pending = v.pending
      BY <1>1, <1>9, <2>2 DEF Steps
    <3>2. g = m.pending.group /\ ~TurnsOn(m.pending)
      BY <1>1, <1>9, <3>1 DEF SameCommand, TurnsOn
    <3>3. g \in LoadGroup
      BY <1>3, <1>9 DEF Orderly, Fits, Manager, PendingAction
    <3>4. g \in closed \cup own
      BY <3>2, <3>3 DEF DebtInvariant, Nothing, LoadGroup
    <3>5. g \in f.closed \/ g \in WentOff(f.closed, FALSE)
      BY <3>2, <3>4 DEF WentOff
    <3>6. g \in SeenOn(f) => g \in f.closed
      BY ReadingTells DEF SeenOn
    <3> HIDE DEF g
    <3>7. g \in closed' \cup own'
      BY <1>1, <3>5, <3>6
    <3> QED
      BY <3>7 DEF g
  <2> QED
    BY <2>1, <2>2
<1>10. ASSUME coolFor' > 0 PROVE m'.retry >= coolFor'
  <2>1. f.house # "grid" /\ ~NothingOwed(d.m)
    BY <1>1, <1>10
  <2>2. CASE d.commands /\ TooMuch(d.m.pending)
    BY <1>1, <2>1, <2>2, LoadManagerAssumption
    DEF Steps, Commanded, LoadManagerAssumption
  <2>3. CASE ~(d.commands /\ TooMuch(d.m.pending))
    <3>1. coolFor' = Less(coolFor)
      BY <1>1, <2>1, <2>3
    <3>2. coolFor > 0 /\ coolFor' = coolFor - 1
      BY <1>2, <1>10, <3>1 DEF TypeOK, Less
    <3>3. m.retry \in Int /\ m.retry >= coolFor /\ coolFor \in Int
      BY <1>2, <3>2, LoadManagerAssumption
      DEF DebtInvariant, TypeOK, Manager, LoadManagerAssumption, NoTimer
    <3>4. Less(m.retry) = m.retry - 1
      BY <3>2, <3>3 DEF Less
    <3>5. m'.retry >= v.retry
      BY <1>1, <2>1 DEF Steps, PutOff
    <3>6. m'.retry \in Int
      BY <1>3, LoadManagerAssumption
      DEF Orderly, Fits, Manager, LoadManagerAssumption, NoTimer
    <3> QED
      BY <1>1, <3>2, <3>3, <3>4, <3>5, <3>6
  <2> QED
    BY <2>2, <2>3
<1> QED
  BY <1>3, <1>7, <1>8, <1>9, <1>10 DEF DebtInvariant

\* Every step keeps the invariant.
LEMMA NextInvariant ==
  DebtInvariant /\ [Next]_vars => DebtInvariant'
<1> SUFFICES ASSUME DebtInvariant, [Next]_vars PROVE DebtInvariant'
  OBVIOUS
<1> USE DEF DebtInvariant
<1>1. CASE Tick
  BY <1>1, TickInvariant
<1>2. CASE TimePasses
  <2>1. PICK newSample \in BOOLEAN : m' = Elapse(m, newSample)
    BY <1>2 DEF TimePasses
  <2>2. /\ Orderly(m') /\ m'.shed = m.shed /\ SameCommand(m.pending, m'.pending)
        /\ m'.retry = Less(m.retry)
    BY <2>1, ElapseKeeps
  <2>3. m.retry \in Int /\ coolFor \in 0..RetryInterval /\ coolFor' = Less(coolFor)
    BY <1>2, LoadManagerAssumption
    DEF TimePasses, TypeOK, Manager, LoadManagerAssumption, NoTimer
  <2>4. coolFor' \in 0..RetryInterval /\ (coolFor' > 0 => m'.retry >= coolFor')
    BY <2>2, <2>3, LoadManagerAssumption DEF LoadManagerAssumption, Less
  <2>5. TypeOK'
    BY <1>2, <2>2, <2>4 DEF TimePasses, TypeOK, Orderly, Fits
  <2>6. m'.pending # Nothing => m.pending # Nothing
    BY <2>2 DEF SameCommand, Orderly, Fits, Manager, PendingAction, Nothing, LoadGroup
  <2> QED
    BY <1>2, <2>2, <2>4, <2>5, <2>6 DEF TimePasses, SameCommand, TurnsOn
<1>3. CASE CallReturns
  <2>1. call \in Calls /\ End(call)
    BY <1>3 DEF CallReturns, TypeOK
  <2>2. /\ closed' \subseteq LoadGroup /\ own' \subseteq LoadGroup
        /\ own \subseteq own' /\ closed \cup own \subseteq closed' \cup own'
    BY <2>1, EndKeeps
  <2> QED
    BY <1>3, <2>2 DEF CallReturns, TypeOK
<1>4. CASE CallFails
  <2>1. call \in Calls /\ End(call) /\ call.group \in LoadGroup
    BY <1>4 DEF CallFails, TypeOK, Calls
  <2>2. /\ closed' \subseteq LoadGroup /\ own' \subseteq LoadGroup
        /\ own \subseteq own' /\ closed \cup own \subseteq closed' \cup own'
    BY <2>1, EndKeeps
  <2>3. /\ Orderly(m') /\ m'.shed = m.shed
        /\ m'.pending \in {Nothing, m.pending} /\ m'.retry = m.retry
    BY <1>4, <2>1, FailureKeeps DEF CallFails
  <2>4. NotSteady \in [age : 0..Stabilization, count : 0..2, silent : 0..Freshness]
    BY LoadManagerAssumption DEF LoadManagerAssumption, NotSteady, Freshness
  <2>5. TypeOK'
    BY <1>4, <2>2, <2>3, <2>4 DEF CallFails, TypeOK, Orderly, Fits
  <2> QED
    BY <1>4, <2>2, <2>3, <2>5 DEF CallFails
<1>5. CASE Restart
  <2>1. PICK enabled \in BOOLEAN : m' = Restored(m, enabled)
    BY <1>5, LoadsAssumption DEF Restart, LoadsAssumption
  <2>2. /\ Orderly(m') /\ m'.shed = m.shed
        /\ m'.pending = m.pending /\ m'.retry = m.retry
    BY <2>1, RestoredKeeps
  <2>3. /\ closed' \subseteq LoadGroup /\ own' \subseteq LoadGroup
        /\ own \subseteq own' /\ closed \cup own \subseteq closed' \cup own'
    BY <1>5, EndKeeps DEF Restart, TypeOK
  <2>4. NotSteady \in [age : 0..Stabilization, count : 0..2, silent : 0..Freshness]
    BY LoadManagerAssumption DEF LoadManagerAssumption, NotSteady, Freshness
  <2>5. TypeOK'
    BY <1>5, <2>2, <2>3, <2>4 DEF Restart, TypeOK, Orderly, Fits
  <2> QED
    BY <1>5, <2>2, <2>3, <2>5 DEF Restart
<1>6. CASE SettleDown
  BY <1>6 DEF SettleDown, TypeOK
<1>7. CASE UNCHANGED vars
  BY <1>7 DEF vars, TypeOK
<1> QED
  BY <1>1, <1>2, <1>3, <1>4, <1>5, <1>6, <1>7 DEF Next

\* The debts, the switches and the time of the next try fit together always.
THEOREM DebtInvariantHolds ==
  Spec => []DebtInvariant
BY InitInvariant, NextInvariant, PTL DEF Spec

\* The types of the manager, of the switches and of the histories.
THEOREM SpecTypes ==
  Spec => []TypeOK
<1>1. DebtInvariant => TypeOK
  BY DEF DebtInvariant
<1> QED
  BY <1>1, DebtInvariantHolds, PTL

\* The program turns on only what went off on its own order: the command is for
\* a group that is owed, and what is owed went off so.
THEOREM SpecRestoresOnlyOwn ==
  Spec => RestoreOnlyOwn
<1> DEFINE A == call = NoCall /\ call'.on => call'.group \in own'
<1>1. DebtInvariant /\ [Next]_vars => A
  <2> SUFFICES ASSUME DebtInvariant, [Next]_vars, call = NoCall, call'.on
               PROVE  call'.group \in own'
    OBVIOUS
  <2>1. call' # NoCall
    BY DEF NoCall
  <2>2. Tick
    BY <2>1 DEF Next, TimePasses, CallReturns, CallFails, Restart, SettleDown, vars
  <2>3. PICK f, v, o, d : Ticked(f, v, o, d)
    BY <2>2, TickSteps
  <2>4. call'.group \in m'.shed
    BY <2>1, <2>3 DEF Ticked, Steps, Commanded
  <2> QED
    BY <2>4, NextInvariant DEF DebtInvariant
<1> HIDE DEF A
<1>2. Spec => [][A]_vars
  BY <1>1, DebtInvariantHolds, PTL DEF Spec
<1> QED
  BY <1>2 DEF A, RestoreOnlyOwn

\* No restart, failure, degradation or lost reading drops the debt of a group
\* that is off: a step drops it only on reading the group on.
THEOREM SpecRemembersSheds ==
  Spec => ShedIsRemembered
<1> DEFINE A == \A g \in m.shed \ m'.shed : g \in closed'
<1>1. DebtInvariant /\ [Next]_vars => A
  <2> SUFFICES ASSUME DebtInvariant, [Next]_vars, NEW g \in m.shed, g \notin m'.shed
               PROVE  g \in closed'
    OBVIOUS
  <2>1. CASE Tick
    <3>1. PICK f, v, o, d : Ticked(f, v, o, d)
      BY <2>1, TickSteps
    <3>2. g \in LoadGroup
      BY DEF DebtInvariant, Orderly, Fits, Manager
    <3>3. Reading(f, g) = "yes"
      BY <3>1, <3>2 DEF Ticked, Steps, Accounts
    <3> QED
      BY <3>1, <3>3, ReadingTells DEF Ticked
  <2>2. CASE TimePasses
    BY <2>2, ElapseKeeps DEF TimePasses, DebtInvariant
  <2>3. CASE CallFails
    <3>1. call.group \in LoadGroup
      BY <2>3 DEF CallFails, DebtInvariant, TypeOK, Calls
    <3> QED
      BY <2>3, <3>1, FailureKeeps DEF CallFails, DebtInvariant
  <2>4. CASE Restart
    BY <2>4, RestoredKeeps, LoadsAssumption DEF Restart, DebtInvariant, LoadsAssumption
  <2>5. CASE CallReturns \/ SettleDown \/ UNCHANGED vars
    BY <2>5 DEF CallReturns, SettleDown, vars
  <2> QED
    BY <2>1, <2>2, <2>3, <2>4, <2>5 DEF Next
<1> HIDE DEF A
<1>2. Spec => [][A]_vars
  BY <1>1, DebtInvariantHolds, PTL DEF Spec
<1> QED
  BY <1>2 DEF A, ShedIsRemembered

\* No admission before the retry interval is over: the time of the next try is
\* never earlier than the end of the time the group has to stay off.
THEOREM SpecWaitsForRetry ==
  Spec => NoHastyRestore
<1> DEFINE A == call = NoCall /\ call'.on /\ house' \in OnGeneratorBus => coolFor' = 0
<1>1. DebtInvariant /\ [Next]_vars => A
  <2> SUFFICES ASSUME DebtInvariant, [Next]_vars,
                      call = NoCall, call'.on, house' \in OnGeneratorBus
               PROVE  coolFor' = 0
    OBVIOUS
  <2>1. call' # NoCall
    BY DEF NoCall
  <2>2. Tick
    BY <2>1 DEF Next, TimePasses, CallReturns, CallFails, Restart, SettleDown, vars
  <2>3. PICK f, v, o, d : Ticked(f, v, o, d)
    BY <2>2, TickSteps
  <2>4. d.m.pending.reason = "admission" /\ Less(m.retry) <= 0
    BY <2>1, <2>3 DEF Ticked, Steps, Commanded, TurnsOn
  <2>5. coolFor' \in {0, Less(coolFor)}
    BY <2>3, <2>4 DEF Ticked, TooMuch
  <2>6. m.retry \in Int /\ coolFor \in Nat /\ (coolFor > 0 => m.retry >= coolFor)
    BY LoadManagerAssumption
    DEF DebtInvariant, TypeOK, Manager, LoadManagerAssumption, NoTimer
  <2>7. Less(coolFor) = 0
    BY <2>4, <2>6 DEF Less
  <2> QED
    BY <2>5, <2>7
<1> HIDE DEF A
<1>2. Spec => [][A]_vars
  BY <1>1, DebtInvariantHolds, PTL DEF Spec
<1> QED
  BY <1>2 DEF A, NoHastyRestore

-------------------------------------------------------------------------------
(***************************************************************************)
(* What a measurement has seen.                                            *)
(***************************************************************************)

\* The same samples, of the same engine, and the same command.
SameStream(v, u) ==
  u.seen = v.seen /\ u.silent = v.silent /\ u.lastOwner = v.lastOwner
  /\ u.pending = v.pending

\* A stream that is followed has a last sample.
Followed(u) == u.seen # "none" => u.silent >= 0

\* A measurement is under way.
Active(u) == u.phase = "measuring" /\ u.window # NoWindow

\* The helpers set the phase, the timers or the window, and take no sample.
LEMMA HelpersKeepStream ==
  ASSUME NEW v, v \in Manager, NEW o, NEW phase, NEW reason, NEW group
  PROVE  /\ SameStream(v, SetPhase(v, phase)) /\ SetPhase(v, phase).phase = phase
         /\ SetPhase(v, phase).window = v.window
         /\ SameStream(v, Degrade(v)) /\ Degrade(v).phase = "degraded"
         /\ SameStream(v, Recover(v)) /\ Recover(v).window = v.window
         /\ SameStream(v, ResetOverloadTimers(v))
         /\ SameStream(v, WatchOverload(v, o))
         /\ WatchOverload(v, o).phase = v.phase
         /\ SameStream(v, StartMeasurement(v, reason, group))
<1>1. SameStream(v, SetPhase(v, phase)) /\ SetPhase(v, phase).phase = phase
      /\ SetPhase(v, phase).window = v.window
  BY DEF SameStream, SetPhase, Manager
<1>2. SameStream(v, Degrade(v)) /\ Degrade(v).phase = "degraded"
  BY DEF SameStream, Degrade, Manager
<1>3. SameStream(v, Recover(v)) /\ Recover(v).window = v.window
  BY DEF SameStream, Recover, Manager
<1>4. SameStream(v, ResetOverloadTimers(v))
      /\ ResetOverloadTimers(v).phase = v.phase
  BY DEF SameStream, ResetOverloadTimers, Manager
<1>5. SameStream(v, WatchOverload(v, o)) /\ WatchOverload(v, o).phase = v.phase
  <2> DEFINE since(timer) == IF timer = NoTimer THEN 0 ELSE timer
             long == since(v.nominalFor)
             top == IF o.power > Maximum THEN since(v.maximumFor) ELSE NoTimer
             w == [v EXCEPT !.nominalFor = long, !.maximumFor = top]
  <2>1. WatchOverload(v, o) \in {ResetOverloadTimers(v), w}
    BY DEF WatchOverload
  <2> HIDE DEF long, top
  <2>2. SameStream(v, w) /\ w.phase = v.phase
    BY DEF SameStream, Manager
  <2> QED
    BY <1>4, <2>1, <2>2
<1>6. SameStream(v, StartMeasurement(v, reason, group))
  BY DEF SameStream, StartMeasurement, Manager
<1> QED
  BY <1>1, <1>2, <1>3, <1>4, <1>5, <1>6

\* A window that has just been opened.
Opens(u, reason) ==
  /\ u.phase = "measuring"
  /\ u.window # NoWindow /\ u.window.reason = reason
  /\ u.window.age = 0 /\ u.window.count = 0

\* _start_measurement opens an empty window, for the reason it is given.
LEMMA StartOpens ==
  ASSUME NEW v \in Manager, NEW reason, reason # "none", NEW group
  PROVE  Opens(StartMeasurement(v, reason, group), reason)
<1> DEFINE w == [reason |-> reason, group |-> group,
                 age |-> 0, count |-> 0, peak |-> NoReading]
<1>1. StartMeasurement(v, reason, group) = [v EXCEPT !.phase = "measuring", !.window = w]
  BY DEF StartMeasurement
<1>2. w # NoWindow /\ w.reason = reason /\ w.age = 0 /\ w.count = 0
  BY DEF NoWindow
<1> HIDE DEF w
<1> QED
  BY <1>1, <1>2 DEF Opens, Manager

\* A sample counts once, in the window that is open.
Counts(v, w) ==
  /\ w.phase = v.phase /\ w.lastOwner = v.lastOwner /\ w.pending = v.pending
  /\ w.window.reason = v.window.reason /\ w.window.age = v.window.age
  /\ v.window = NoWindow <=> w.window = NoWindow
  /\ v.window # NoWindow =>
       w.window.count = IF v.window.count < 2 THEN v.window.count + 1 ELSE v.window.count

\* _accept_sample with force counts the sample on show, new or not.
LEMMA TakeSampleCounts ==
  ASSUME NEW v \in Manager, NEW o \in Observation
  PROVE  LET w == TakeSample(v, o)
         IN w.seen = "current" /\ w.silent = 0 /\ Counts(v, w)
<1> DEFINE w == v.window
           next == IF w = NoWindow THEN w
                   ELSE [w EXCEPT !.count = IF @ < 2 THEN @ + 1 ELSE @,
                                  !.peak = IF o.power > @ THEN o.power ELSE @]
<1>1. /\ next.reason = w.reason /\ next.age = w.age
      /\ w = NoWindow <=> next = NoWindow
      /\ w # NoWindow => next.count = IF w.count < 2 THEN w.count + 1 ELSE w.count
  <2>1. CASE w = NoWindow
    BY <2>1
  <2>2. CASE w # NoWindow
    <3> DEFINE count == IF w.count < 2 THEN w.count + 1 ELSE w.count
               peak == IF o.power > w.peak THEN o.power ELSE w.peak
    <3>1. w \in Window /\ w # NoWindow
      BY <2>2 DEF Manager
    <3>2. next = [w EXCEPT !.count = count, !.peak = peak]
      BY <2>2
    <3>3. w.reason # "none"
      BY <3>1 DEF Window
    <3> HIDE DEF w, peak, next
    <3>4. next.reason = w.reason /\ next.age = w.age /\ next.count = count
      BY <3>1, <3>2 DEF Window, NoWindow
    <3>5. next # NoWindow
      BY <3>3, <3>4 DEF NoWindow
    <3> QED
      BY <3>1, <3>4, <3>5
  <2> QED
    BY <2>1, <2>2
<1>2. TakeSample(v, o) = [v EXCEPT !.seen = "current", !.silent = 0, !.window = next]
  BY DEF TakeSample
<1> HIDE DEF next
<1> QED
  BY <1>1, <1>2 DEF Counts, Manager

\* What is accepted shows in the window: it never has a lower peak.
LEMMA TakeSampleShows ==
  ASSUME NEW v \in Manager, NEW o \in Observation, v.window # NoWindow
  PROVE  LET w == TakeSample(v, o)
         IN w.window.peak >= o.power /\ w.window.peak >= v.window.peak
<1> DEFINE w == v.window
           count == IF w.count < 2 THEN w.count + 1 ELSE w.count
           peak == IF o.power > w.peak THEN o.power ELSE w.peak
<1>1. w \in Window /\ w # NoWindow
  BY DEF Manager
<1>2. TakeSample(v, o) = [v EXCEPT !.seen = "current", !.silent = 0,
                                  !.window = [w EXCEPT !.count = count, !.peak = peak]]
  BY <1>1 DEF TakeSample
<1>3. w.peak \in Int /\ o.power \in Int
  BY <1>1 DEF Window, Rank, NoReading, Observation
<1>4. peak >= o.power /\ peak >= w.peak
  BY <1>3
<1>5. TakeSample(v, o).window.peak = peak
  <2> DEFINE x == [w EXCEPT !.count = count, !.peak = peak]
  <2>1. x.peak = peak
    BY <1>1 DEF Window, NoWindow
  <2> HIDE DEF x
  <2>2. [v EXCEPT !.seen = "current", !.silent = 0, !.window = x].window = x
    BY DEF Manager
  <2> QED
    BY <1>2, <2>1, <2>2 DEF x
<1> QED
  BY <1>4, <1>5

\* _accept_sample: after it the sample on show is taken, and it counted only if it
\* was new.
LEMMA AcceptSampleCounts ==
  ASSUME NEW v \in Manager, NEW o \in Observation, o.power # NoReading
  PROVE  LET w == AcceptSample(v, o)
         IN  /\ w \in {v, TakeSample(v, o)}
             /\ w.seen = "current"
             /\ v.seen # "current" =>
                  /\ w.silent = 0 /\ Counts(v, w)
                  /\ v.window # NoWindow =>
                       w.window.peak >= o.power /\ w.window.peak >= v.window.peak
             /\ v.seen = "current" => w = v
BY TakeSampleCounts, TakeSampleShows DEF AcceptSample, SampleIsNew

\* A command on a generator: it ends a measurement, or comes from outside of one, and
\* it admits a group only where the measurement was below the threshold.
Commands(v, d) ==
  /\ d.commands /\ d.m.pending # Nothing /\ ~Active(d.m)
  /\ d.m.seen = v.seen /\ d.m.silent = v.silent
  /\ TurnsOn(d.m.pending) => v.phase = "measuring" /\ v.window.peak <= Threshold

\* _queue keeps everything but the command.
LEMMA QueueKeeps ==
  ASSUME NEW u \in Manager, NEW group \in LoadGroup, NEW reason \in Reason
  PROVE  LET d == Queue(u, group, reason)
         IN  /\ d.commands /\ d.m.pending # Nothing
             /\ TurnsOn(d.m.pending) => reason \in {"grid_restore", "admission"}
             /\ d.m.seen = u.seen /\ d.m.silent = u.silent
             /\ d.m.phase = u.phase /\ d.m.window = u.window
<1> DEFINE p == [group |-> group, reason |-> reason, left |-> ConfirmTime]
           w == [u EXCEPT !.pending = p]
<1>1. Queue(u, group, reason) = Decision(w, TRUE, ~BlocksTransfer(p))
  BY DEF Queue
<1>2. p # Nothing /\ (TurnsOn(p) => reason \in {"grid_restore", "admission"})
  BY DEF Nothing, TurnsOn, LoadGroup
<1> HIDE DEF p
<1>3. w.pending = p /\ w.seen = u.seen /\ w.silent = u.silent
      /\ w.phase = u.phase /\ w.window = u.window
  BY DEF Manager
<1> HIDE DEF w
<1> QED
  BY <1>1, <1>2, <1>3 DEF Decision

\* What is decided without a command.
Settles(v, d) == ~d.commands /\ SameStream(v, d.m) /\ d.m.phase = "stable"

\* _maybe_restore, at the end of a measurement: it admits a group below the
\* threshold, or settles.
LEMMA MaybeRestoreSettles ==
  ASSUME NEW v \in Manager, v.window = NoWindow, v.phase = "measuring",
         NEW o \in Observation, \A g \in LoadGroup : o.groups[g] # "unknown",
         NEW power \in Rank
  PROVE  LET d == MaybeRestore(v, o, power)
         IN  \/ Settles(v, d)
             \/ /\ d.commands /\ d.m.pending # Nothing /\ ~Active(d.m)
                /\ d.m.seen = v.seen /\ d.m.silent = v.silent
                /\ power <= Threshold
<1> DEFINE owed == {g \in v.shed : o.groups[g] # "yes"}
           u == [v EXCEPT !.shed = owed]
           candidate == FirstToRestore(owed)
           forget == [u EXCEPT !.retry = NoTimer]
           later == [u EXCEPT !.retry = RetryInterval]
           d == MaybeRestore(v, o, power)
<1>1. owed \subseteq LoadGroup
  BY DEF Manager
<1>2. candidate \in LoadGroup
  BY DEF FirstToRestore, LoadGroup
<1>3. \/ d \in {Done(SetPhase(forget, "stable")), Done(SetPhase(u, "stable")),
                Done(SetPhase(later, "stable"))}
      \/ ~(power > Threshold) /\ d = Queue(u, candidate, "admission")
  BY <1>2 DEF MaybeRestore
<1> HIDE DEF owed, candidate
<1>4. u \in Manager /\ SameStream(v, u) /\ u.window = NoWindow
  BY <1>1 DEF Manager, SameStream
<1> HIDE DEF u
<1>5. /\ forget \in Manager /\ SameStream(v, forget)
      /\ later \in Manager /\ SameStream(v, later)
  BY <1>4, TimesRange DEF Manager, SameStream
<1> HIDE DEF forget, later, d
<1>6. \A w \in {u, forget, later} : Settles(v, Done(SetPhase(w, "stable")))
  <2> TAKE w \in {u, forget, later}
  <2>1. w \in Manager /\ SameStream(v, w)
    BY <1>4, <1>5
  <2>2. SameStream(w, SetPhase(w, "stable")) /\ SetPhase(w, "stable").phase = "stable"
    BY <2>1, HelpersKeepStream
  <2> QED
    BY <2>1, <2>2 DEF Settles, Done, Decision, SameStream
<1>7. LET q == Queue(u, candidate, "admission")
      IN /\ q.commands /\ q.m.pending # Nothing /\ ~Active(q.m)
         /\ q.m.seen = u.seen /\ q.m.silent = u.silent
  BY <1>2, <1>4, QueueKeeps DEF Active, Reason
<1>8. ~(power > Threshold) => power <= Threshold
  BY DEF Rank, NoReading, Threshold
<1> QED
  BY <1>3, <1>4, <1>6, <1>7, <1>8 DEF SameStream, d

\* _finish_measurement closes the window, and commands or settles.
LEMMA FinishMeasurementSettles ==
  ASSUME NEW v, Fits(v), Active(v), NEW o \in Observation,
         \A g \in LoadGroup : o.groups[g] # "unknown"
  PROVE  LET d == FinishMeasurement(v, o)
         IN  Commands(v, d) \/ Settles(v, d)
<1> DEFINE w == v.window
           closed_ == [v EXCEPT !.window = NoWindow]
           u == IF w.reason = "recovery" THEN Recover(closed_) ELSE closed_
           reverted == [u EXCEPT !.retry = RetryInterval]
           watched(top) == [SetPhase(u, "stable") EXCEPT !.nominalFor = 0, !.maximumFor = top]
           d == FinishMeasurement(v, o)
<1>1. closed_ \in Manager /\ SameStream(v, closed_) /\ closed_.window = NoWindow
      /\ closed_.phase = "measuring"
  BY DEF Fits, Manager, SameStream, Window, Active
<1>0. w.peak \in Rank
  BY DEF Fits, Manager, Window, Active
<1> HIDE DEF closed_
<1>2. u \in Manager /\ SameStream(v, u) /\ u.window = NoWindow /\ u.phase = "measuring"
  <2>1. SameStream(closed_, Recover(closed_)) /\ Recover(closed_).window = NoWindow
    BY <1>1, HelpersKeepStream
  <2>2. Recover(closed_) \in Manager /\ Recover(closed_).phase = closed_.phase
    BY <1>1 DEF Recover, Manager
  <2> QED
    BY <1>1, <2>1, <2>2 DEF SameStream
<1>3. \/ d = MaybeRestore(u, o, w.peak)
      \/ d = Queue(reverted, w.group, "admission_revert") /\ w.reason = "admission"
      \/ \E top \in {0, NoTimer} : d = Done(watched(top))
  BY DEF FinishMeasurement, closed_
<1> HIDE DEF u, d
<1>4. ASSUME d = MaybeRestore(u, o, w.peak)
      PROVE  Commands(v, d) \/ Settles(v, d)
  <2>1. \/ Settles(u, d)
        \/ /\ d.commands /\ d.m.pending # Nothing /\ ~Active(d.m)
           /\ d.m.seen = u.seen /\ d.m.silent = u.silent
           /\ w.peak <= Threshold
    BY <1>0, <1>2, <1>4, MaybeRestoreSettles
  <2> QED
    BY <1>2, <2>1 DEF Settles, Commands, SameStream, Active
<1>5. ASSUME d = Queue(reverted, w.group, "admission_revert"), w.reason = "admission"
      PROVE  Commands(v, d)
  <2>1. reverted \in Manager /\ SameStream(u, reverted) /\ reverted.window = NoWindow
    BY <1>2, TimesRange DEF Manager, SameStream
  <2> HIDE DEF reverted
  <2>2. w.group \in LoadGroup
    BY <1>5 DEF Fits
  <2>3. /\ d.commands /\ d.m.pending # Nothing /\ ~TurnsOn(d.m.pending)
        /\ d.m.seen = u.seen /\ d.m.silent = u.silent /\ d.m.window = NoWindow
    BY <1>5, <2>1, <2>2, QueueKeeps DEF SameStream, Reason
  <2> QED
    BY <1>2, <2>3 DEF Commands, SameStream, Active
<1>6. ASSUME NEW top \in {0, NoTimer}
      PROVE  Settles(v, Done(watched(top)))
  <2>1. /\ SameStream(u, SetPhase(u, "stable"))
        /\ SetPhase(u, "stable").phase = "stable"
    BY <1>2, HelpersKeepStream
  <2>2. SetPhase(u, "stable") \in Manager
    BY <1>2 DEF SetPhase, Manager, LoadManagerPhase
  <2>3. SameStream(u, watched(top)) /\ watched(top).phase = "stable"
    BY <2>1, <2>2 DEF SameStream, Manager
  <2> QED
    BY <1>2, <2>3 DEF Settles, Done, Decision, SameStream
<1> QED
  BY <1>3, <1>4, <1>5, <1>6 DEF d

\* A window that has its first sample, or none yet.
Begins(u, reason) ==
  /\ u.phase = "measuring"
  /\ u.window # NoWindow /\ u.window.reason = reason
  /\ u.window.age = 0 /\ u.window.count \in 0..1

\* A sample does not end the beginning of a window.
LEMMA OpensBegins ==
  ASSUME NEW u, NEW reason, Opens(u, reason), NEW w, w = u \/ Counts(u, w)
  PROVE  Begins(w, reason)
BY DEF Opens, Begins, Counts

\* What a retry decides: a window with the sample on show, taken by force.
Retries(v, o, d) ==
  /\ ~d.commands /\ Begins(d.m, "retry") /\ d.m.seen = "current" /\ d.m.silent = 0
  /\ d.m.lastOwner = v.lastOwner /\ d.m.pending = v.pending
  /\ d.m.window.peak >= o.power

\* A retry of _on_generator begins a window with the sample on show.
LEMMA RetryRetries ==
  ASSUME NEW v \in Manager, NEW o \in Observation, NEW u, Minds(v, u), SameStream(v, u)
  PROVE  Retries(v, o, Done(TakeSample(StartMeasurement(u, "retry", "none"), o)))
<1> DEFINE again == StartMeasurement(u, "retry", "none")
           w == TakeSample(again, o)
<1>1. Fits(u) /\ u \in Manager
  BY DEF Minds, Fits
<1>2. SameStream(u, again) /\ Opens(again, "retry")
  BY <1>1, HelpersKeepStream, StartOpens
<1>3. again \in Manager
  BY <1>1, StartMinds DEF Minds, Fits
<1> HIDE DEF again
<1>4. w.seen = "current" /\ w.silent = 0 /\ Counts(again, w)
      /\ w.window.peak >= o.power
  BY <1>2, <1>3, TakeSampleCounts, TakeSampleShows DEF Opens
<1> HIDE DEF w
<1>5. Begins(w, "retry")
  BY <1>2, <1>4, OpensBegins
<1>6. Retries(v, o, Done(w))
  BY <1>2, <1>4, <1>5 DEF Retries, Done, Decision, Counts, SameStream
<1> QED
  BY <1>6 DEF w, again

\* _shed_one takes a group off, or settles where none obeys.
LEMMA ShedOneSettles ==
  ASSUME NEW v, Fits(v), v.phase # "measuring", NEW o \in Observation
  PROVE  LET d == ShedOne(v, o)
         IN  Commands(v, d) \/ Settles(v, d)
<1> DEFINE sheddable == {g \in LoadGroup : o.groups[g] = "yes"} \ v.blocked
           later == [v EXCEPT !.retry = RetryInterval]
           calm == ResetOverloadTimers(later)
           d == ShedOne(v, o)
<1>1. \/ d = Done(SetPhase(v, "stable"))
      \/ sheddable # {} /\ d = Queue(calm, FirstToShed(sheddable), "overload")
  BY DEF ShedOne
<1>2. sheddable # {} => FirstToShed(sheddable) \in LoadGroup
  BY DEF FirstToShed, LoadGroup
<1> HIDE DEF sheddable, d
<1>3. Settles(v, Done(SetPhase(v, "stable")))
  <2>1. /\ SameStream(v, SetPhase(v, "stable"))
        /\ SetPhase(v, "stable").phase = "stable"
    BY HelpersKeepStream DEF Fits
  <2> QED
    BY <2>1 DEF Settles, Done, Decision
<1>4. Fits(later) /\ SameStream(v, later) /\ later.phase = v.phase
  BY TimesRange DEF Fits, Manager, SameStream
<1> HIDE DEF later
<1>5. Fits(calm) /\ SameStream(later, calm) /\ calm.phase = v.phase
  <2>1. calm.phase = later.phase
    BY <1>4 DEF ResetOverloadTimers, Fits, Manager
  <2> QED
    BY <1>4, <2>1, TimersMind, HelpersKeepStream DEF Fits, Minds
<1> HIDE DEF calm
<1>6. sheddable # {} => Commands(v, Queue(calm, FirstToShed(sheddable), "overload"))
  BY <1>2, <1>4, <1>5, QueueKeeps DEF Fits, Reason, Commands, Active, SameStream
<1> QED
  BY <1>1, <1>3, <1>6 DEF d

\* _on_generator after its checks: a measurement goes on or is complete, and
\* outside of one the manager settles, begins a retry, or takes a group off.
LEMMA ControlMeasures ==
  ASSUME NEW v, Fits(v), NEW o \in Observation, NEW isNew \in BOOLEAN,
         \A g \in LoadGroup : o.groups[g] # "unknown"
  PROVE  LET d == Control(v, o, isNew)
         IN  \/ v.phase = "measuring" /\ d = Done(v)
             \/ /\ Commands(v, d) \/ Settles(v, d)
                /\ v.phase = "measuring" => MeasurementReady(v) /\ Active(v)
             \/ v.phase # "measuring" /\ Retries(v, o, d)
<1> DEFINE u == IF isNew THEN WatchOverload(v, o) ELSE v
           again == StartMeasurement(u, "retry", "none")
           d == Control(v, o, isNew)
<1>1. CASE v.phase = "measuring"
  <2>1. d = IF MeasurementReady(v) THEN FinishMeasurement(v, o) ELSE Done(v)
    BY <1>1 DEF Control
  <2>2. MeasurementReady(v) => Active(v)
    BY <1>1, LoadManagerAssumption
    DEF LoadManagerAssumption, MeasurementReady, Active, NoWindow, NoTimer
  <2>3. Active(v) => Commands(v, FinishMeasurement(v, o)) \/ Settles(v, FinishMeasurement(v, o))
    BY FinishMeasurementSettles
  <2> QED
    BY <1>1, <2>1, <2>2, <2>3
<1>2. CASE v.phase # "measuring"
  <2>1. d \in {ShedOne(u, o), Done(TakeSample(again, o)), Done(SetPhase(u, "stable"))}
    BY <1>2 DEF Control
  <2>2. Minds(v, u) /\ SameStream(v, u) /\ u.phase = v.phase
    <3>1. Minds(v, v) /\ SameStream(v, v)
      BY DEF Minds, SameDebts, SameStream
    <3> QED
      BY <3>1, WatchMinds, HelpersKeepStream DEF Fits
  <2> HIDE DEF u
  <2>3. Commands(v, ShedOne(u, o)) \/ Settles(v, ShedOne(u, o))
    <3>1. Commands(u, ShedOne(u, o)) \/ Settles(u, ShedOne(u, o))
      BY <1>2, <2>2, ShedOneSettles DEF Minds
    <3> QED
      BY <1>2, <2>2, <3>1 DEF Commands, Settles, SameStream
  <2>4. Retries(v, o, Done(TakeSample(again, o)))
    BY <2>2, RetryRetries DEF Fits
  <2>5. Settles(v, Done(SetPhase(u, "stable")))
    <3>1. /\ SameStream(u, SetPhase(u, "stable"))
          /\ SetPhase(u, "stable").phase = "stable"
      BY <2>2, HelpersKeepStream DEF Minds, Fits
    <3> QED
      BY <2>2, <3>1 DEF Settles, Done, Decision, SameStream
  <2> HIDE DEF d, again
  <2>6. Commands(v, d) \/ Settles(v, d) \/ Retries(v, o, d)
    BY <2>1, <2>3, <2>4, <2>5
  <2> QED
    BY <1>2, <2>6 DEF d
<1> QED
  BY <1>1, <1>2

\* A new measurement, under the limits of the engine on the bus.
LEMMA MeasureAnewBegins ==
  ASSUME NEW v, Fits(v), NEW o \in Observation, o.power # NoReading,
         NEW reason \in {"base", "recovery"}
  PROVE  LET d == MeasureAnew(v, o, reason)
         IN  /\ ~d.commands /\ Begins(d.m, reason)
             /\ d.m.lastOwner = o.owner /\ d.m.pending = v.pending
             /\ d.m.seen = "current"
             /\ IF v.seen = "current" THEN d.m.silent = v.silent
                ELSE d.m.silent = 0 /\ d.m.window.peak >= o.power
<1> DEFINE u == [v EXCEPT !.lastOwner = o.owner]
           started == StartMeasurement(u, reason, "none")
           w == ResetOverloadTimers(started)
           x == AcceptSample(w, o)
<1>1. Fits(u) /\ u.lastOwner = o.owner /\ u.pending = v.pending
      /\ u.seen = v.seen /\ u.silent = v.silent
  BY DEF Fits, Manager, Observation
<1> HIDE DEF u
<1>2. Fits(started) /\ SameStream(u, started) /\ Opens(started, reason)
  BY <1>1, StartMinds, HelpersKeepStream, StartOpens DEF Minds, Fits
<1> HIDE DEF started
<1>3. Fits(w) /\ SameStream(started, w) /\ Opens(w, reason)
  <2>1. Minds(started, w) /\ SameStream(started, w)
    BY <1>2, TimersMind, HelpersKeepStream DEF Fits
  <2>2. w.phase = started.phase /\ w.window = started.window
    BY <1>2 DEF ResetOverloadTimers, Fits, Manager
  <2> QED
    BY <1>2, <2>1, <2>2 DEF Minds, Opens
<1>4. MeasureAnew(v, o, reason) = Done(x)
  BY DEF MeasureAnew, u, started
<1> HIDE DEF w
<1>5. /\ x.seen = "current"
      /\ w.seen # "current" =>
           x.silent = 0 /\ Counts(w, x) /\ x.window.peak >= o.power
      /\ w.seen = "current" => x = w
  BY <1>3, AcceptSampleCounts DEF Fits, Opens
<1> HIDE DEF x
<1>6. Begins(x, reason)
  BY <1>3, <1>5, OpensBegins
<1>7. x.lastOwner = o.owner /\ x.pending = v.pending
      /\ IF v.seen = "current" THEN x.silent = v.silent
         ELSE x.silent = 0 /\ x.window.peak >= o.power
  BY <1>1, <1>2, <1>3, <1>5 DEF SameStream, Counts
<1> QED
  BY <1>4, <1>5, <1>6, <1>7 DEF Done, Decision

\* _on_generator: nothing on a dependency that fails, a new measurement, or
\* control of what is measured on samples without a gap.
LEMMA OnGeneratorMeasures ==
  ASSUME NEW v, Fits(v), NEW o \in Observation
  PROVE  LET d == OnGenerator(v, o)
         IN  \/ DependencyError(o) /\ d = Done(Degrade(v))
             \/ /\ ~DependencyError(o)
                /\ v.phase = "degraded" /\ v.staleStream /\ v.seen = "current"
                /\ d = Done(v)
             \/ /\ ~DependencyError(o)
                /\ IF v.phase = "degraded" THEN ~v.staleStream \/ v.seen # "current"
                   ELSE o.owner # v.lastOwner
                /\ d \in {MeasureAnew(v, o, "base"), MeasureAnew(v, o, "recovery")}
             \/ /\ ~DependencyError(o)
                /\ v.phase # "degraded" /\ o.owner = v.lastOwner
                /\ IF SamplesStale(v)
                   THEN /\ ~d.commands /\ SameStream(v, d.m)
                        /\ d.m.phase = "degraded" /\ d.m.staleStream
                   ELSE d = Control(AcceptSample(v, o), o, SampleIsNew(v, o))
<1> DEFINE timed == ResetOverloadTimers(v)
           stale == [timed EXCEPT !.staleStream = TRUE]
           d == OnGenerator(v, o)
<1>1. /\ SameStream(v, Degrade(stale)) /\ Degrade(stale).phase = "degraded"
      /\ Degrade(stale).staleStream
  <2>1. Fits(timed) /\ SameStream(v, timed)
    BY TimersMind, HelpersKeepStream DEF Fits, Minds
  <2> HIDE DEF timed
  <2>2. stale \in Manager /\ SameStream(timed, stale) /\ stale.staleStream
    BY <2>1 DEF Fits, Manager, SameStream
  <2> HIDE DEF stale
  <2>3. Degrade(stale).staleStream
    BY <2>2 DEF Degrade, Manager
  <2> QED
    BY <2>1, <2>2, <2>3, HelpersKeepStream DEF SameStream
<1>2. CASE DependencyError(o)
  BY <1>2 DEF OnGenerator
<1>3. CASE ~DependencyError(o) /\ v.phase = "degraded"
  BY <1>3 DEF OnGenerator, SampleIsNew, DependencyError
<1>4. CASE ~DependencyError(o) /\ v.phase # "degraded"
  <2>1. d = IF o.owner # v.lastOwner THEN MeasureAnew(v, o, "base")
            ELSE IF SamplesStale(v) THEN Done(Degrade(stale))
            ELSE Control(AcceptSample(v, o), o, SampleIsNew(v, o))
    BY <1>4 DEF OnGenerator
  <2>2. ~Done(Degrade(stale)).commands /\ Done(Degrade(stale)).m = Degrade(stale)
    BY DEF Done, Decision
  <2> HIDE DEF stale, d
  <2> QED
    BY <1>1, <1>4, <2>1, <2>2 DEF d
<1> QED
  BY <1>2, <1>3, <1>4

\* A manager that rests has no last sample, and measures nothing.
Rests(u) == u.seen = "none" /\ ~Active(u)

\* _restore_on_grid leaves a manager at rest.
LEMMA RestoreOnGridRests ==
  ASSUME NEW v \in Manager, v.seen = "none", NEW o \in Observation
  PROVE  Rests(RestoreOnGrid(v, o).m)
<1> DEFINE owed == {g \in v.shed : o.groups[g] # "yes"}
           u == [v EXCEPT !.retry = NoTimer, !.blocked = {}, !.shed = owed]
           next == FirstToRestore(owed)
<1>1. owed \subseteq LoadGroup
  BY DEF Manager
<1>2. RestoreOnGrid(v, o) \in
        {Done(SetPhase(Recover(u), "idle")), Done(Degrade(u)),
         Queue(SetPhase(u, "idle"), next, "grid_restore")}
  BY DEF RestoreOnGrid
<1> HIDE DEF owed
<1>3. u \in Manager /\ u.seen = "none"
  <2>1. NoTimer \in NoTimer..RetryInterval /\ owed \in SUBSET LoadGroup
    BY <1>1, TimesRange
  <2>2. u \in Manager
    BY <2>1 DEF Manager
  <2>3. u.seen = v.seen
    BY DEF Manager
  <2> HIDE DEF u
  <2> QED
    BY <2>2, <2>3
<1> HIDE DEF u, next
<1>4. Recover(u) \in Manager /\ SetPhase(u, "idle") \in Manager
  <2>1. Recover(u) \in Manager
    BY <1>3 DEF Recover, Manager
  <2>2. SetPhase(u, "idle") \in Manager
    BY <1>3 DEF SetPhase, Manager, LoadManagerPhase
  <2> QED
    BY <2>1, <2>2
<1>5. Rests(SetPhase(Recover(u), "idle")) /\ Rests(Degrade(u)) /\ Rests(SetPhase(u, "idle"))
  BY <1>3, <1>4, HelpersKeepStream DEF Rests, Active, SameStream
<1>6. Rests(Queue(SetPhase(u, "idle"), next, "grid_restore").m)
  <2> DEFINE w == SetPhase(u, "idle")
  <2> HIDE DEF w
  <2>1. \A p : Rests(w) /\ w \in Manager => Rests([w EXCEPT !.pending = p])
    BY DEF Rests, Active, Manager
  <2>2. Rests(w) /\ w \in Manager => Rests(Queue(w, next, "grid_restore").m)
    BY <2>1 DEF Queue, Decision
  <2> QED
    BY <1>4, <1>5, <2>2 DEF w
<1> QED
  BY <1>2, <1>5, <1>6 DEF Done, Decision

\* _pretransfer leaves the stream as it is, and measures nothing.
LEMMA PretransferMeasuresNothing ==
  ASSUME NEW v \in Manager, NEW o \in Observation
  PROVE  LET u == Pretransfer(v, o).m
         IN u.seen = v.seen /\ u.silent = v.silent /\ ~Active(u)
<1> DEFINE sheddable == {g \in LoadGroup : o.groups[g] = "yes"} \ v.blocked
           ready == SetPhase(Recover(v), "load_shedding")
           Same(u) == u.seen = v.seen /\ u.silent = v.silent /\ ~Active(u)
<1>1. Pretransfer(v, o) \in
        {Queue(ready, FirstToShed(sheddable), "pretransfer"), Done(Degrade(v)), Done(ready)}
  BY DEF Pretransfer
<1> HIDE DEF sheddable
<1>2. Recover(v) \in Manager
  BY DEF Recover, Manager
<1>3. Same(Degrade(v)) /\ Same(ready)
  BY <1>2, HelpersKeepStream DEF SameStream, Active
<1>4. ready \in Manager
  BY <1>2 DEF SetPhase, Manager, LoadManagerPhase
<1> HIDE DEF ready
<1>5. \A p : Same([ready EXCEPT !.pending = p])
  BY <1>3, <1>4 DEF Active, Manager
<1>6. Same(Queue(ready, FirstToShed(sheddable), "pretransfer").m)
  BY <1>5 DEF Queue, Decision
<1> QED
  BY <1>1, <1>3, <1>6 DEF Done, Decision

\* _reset_runtime forgets the stream and the window.
LEMMA ResetRests ==
  ASSUME NEW v, Fits(v)
  PROVE  LET u == ResetRuntime(v)
         IN u \in Manager /\ u.seen = "none" /\ u.window = NoWindow
<1> DEFINE stream == ResetStream(v)
           timed == ResetOverloadTimers(stream)
           reset == ResetRuntime(v)
<1>1. reset \in Manager
  BY ResetMinds DEF Minds, Fits
<1>2. stream \in Manager /\ stream.seen = "none"
  BY TimesRange DEF ResetStream, Fits, Manager
<1> HIDE DEF stream
<1>3. timed \in Manager /\ SameStream(stream, timed)
  BY <1>2, HelpersKeepStream, TimesRange DEF ResetOverloadTimers, Manager
<1>4. reset = [timed EXCEPT !.window = NoWindow, !.blocked = {}]
  BY DEF ResetRuntime, stream
<1> HIDE DEF timed, reset
<1>5. reset.seen = "none" /\ reset.window = NoWindow
  BY <1>2, <1>3, <1>4 DEF SameStream, Manager
<1> QED
  BY <1>1, <1>5 DEF reset

\* step without a command to wait for: it prepares a transfer, goes on measuring
\* where commands are allowed, or rests.
LEMMA StepFreeMeasures ==
  ASSUME NEW v, Fits(v), NEW o \in Observation
  PROVE  LET d == StepFree(v, o)
         IN  \/ o.actionsEnabled /\ PretransferRequired(o) /\ d = Pretransfer(v, o)
             \/ o.actionsEnabled /\ o.houseOnGenerator = "yes" /\ d = OnGenerator(v, o)
             \/ /\ ~o.actionsEnabled \/ o.houseOnGenerator # "yes"
                /\ d.commands => o.actionsEnabled
                /\ Rests(d.m)
<1> DEFINE paused == [ResetRuntime(v) EXCEPT !.pending = Nothing]
           resting == [ResetRuntime(v) EXCEPT !.lastOwner = "none"]
           stopped == Done(IF o.houseOnGenerator # "yes" THEN SetPhase(paused, "idle")
                           ELSE IF DependencyError(o) THEN Degrade(paused)
                           ELSE SetPhase(paused, "stable"))
<1>1. StepFree(v, o) =
        IF ~o.actionsEnabled THEN stopped
        ELSE IF PretransferRequired(o) THEN Pretransfer(v, o)
        ELSE IF o.houseOnGrid = "yes" /\ o.houseOnGenerator = "no"
        THEN RestoreOnGrid(resting, o)
        ELSE IF o.houseOnGenerator = "yes" THEN OnGenerator(v, o)
        ELSE IF "unknown" \in {o.houseOnGenerator, o.houseOnGrid}
        THEN Done(Degrade(resting))
        ELSE Done(SetPhase(resting, "idle"))
  BY DEF StepFree
<1>2. /\ paused \in Manager /\ paused.seen = "none"
      /\ resting \in Manager /\ resting.seen = "none"
  BY ResetRests DEF Manager, PendingAction
<1>3. \A u \in {paused, resting} :
        Rests(Degrade(u)) /\ Rests(SetPhase(u, "idle")) /\ Rests(SetPhase(u, "stable"))
  <2> TAKE u \in {paused, resting}
  <2>1. u \in Manager /\ u.seen = "none"
    BY <1>2
  <2> QED
    BY <2>1, HelpersKeepStream DEF Rests, Active, SameStream
<1> HIDE DEF paused, resting
<1>4. ~stopped.commands /\ Rests(stopped.m)
  BY <1>3 DEF Done, Decision
<1> HIDE DEF stopped
<1>5. /\ Rests(RestoreOnGrid(resting, o).m)
      /\ Rests(Done(Degrade(resting)).m)
      /\ Rests(Done(SetPhase(resting, "idle")).m)
  BY <1>2, <1>3, RestoreOnGridRests DEF Done, Decision
<1> QED
  BY <1>1, <1>4, <1>5

-------------------------------------------------------------------------------
(***************************************************************************)
(* What the manager measures and what the history has seen.                *)
(***************************************************************************)

\* A measurement to the end.
Ripe(st) == st.age >= Stabilization /\ st.count >= 2

\* What is under measurement, below the threshold, on the engine h the history st has
\* seen too, for at least as long and over as many samples.
Backed(u, st, h) ==
  Active(u) /\ u.window.peak <= Threshold =>
    /\ h = u.lastOwner /\ u.seen = "current" /\ st.count >= 1
    /\ u.window.age <= st.age /\ u.window.count <= st.count

\* By how much the silence of the history may exceed that of the manager: a gap is
\* judged before the sample that ends it is accepted, and a retry takes the sample on
\* show for a new one.
Grace(u) ==
  IF u.phase = "measuring" /\ u.window.reason = "retry" /\ u.window.count < 2
  THEN StaleTime ELSE 1

\* A gap that the history sees the manager sees too.
Unbroken(u, st, h) ==
  \/ st.count = 0
  \/ /\ u.phase = "degraded"
     /\ IF u.seen = "current" THEN u.staleStream ELSE st.silent = 0
  \/ /\ u.phase # "degraded" /\ u.seen = "current" /\ u.lastOwner = h
     /\ st.silent <= u.silent + Grace(u)

\* The contract of a step on a generator: it admits a group only after a measurement
\* to the end, and what it leaves is backed.
Measures(d, st, h) ==
  /\ Followed(d.m)
  /\ IF d.commands THEN ~Active(d.m) /\ (TurnsOn(d.m.pending) => Ripe(st))
     ELSE Unbroken(d.m, st, h) /\ Backed(d.m, st, h)

\* A sample that the history has not: it is above the threshold, and new to the
\* manager.
TooHigh(w, o) == w.seen # "current" /\ o.power > Threshold

\* A measurement that begins is backed by the sample that the history has.
LEMMA BeginsBacked ==
  ASSUME NEW u, NEW reason, Begins(u, reason), u.seen = "current",
         NEW st \in History, st.count >= 1 \/ u.window.peak > Threshold,
         u.window.peak \in Rank
  PROVE  Backed(u, st, u.lastOwner)
<1>1. st.count \in 0..2 /\ st.age >= 0
  BY LoadManagerAssumption DEF LoadManagerAssumption, History
<1>2. u.window.peak > Threshold => ~(u.window.peak <= Threshold)
  BY DEF Rank, NoReading, Threshold
<1> QED
  BY <1>1, <1>2 DEF Begins, Backed

\* What a tick on a generator brings the manager w: the samples of the history as far
\* as the manager has them, and what is under measurement backed with the new one.
Brings(w, o, st) ==
  /\ DependencyError(o) => st.count = 0
  /\ ~DependencyError(o) => st.count >= 1 \/ (TooHigh(w, o) /\ st.silent = 0)
  /\ \/ st.silent = 0
     \/ w.seen # "current" /\ w.phase = "degraded" /\ st.silent <= 1
     \/ w.seen = "current" /\ w.phase = "degraded" /\ w.staleStream
     \/ /\ w.seen = "current" /\ w.phase # "degraded" /\ w.lastOwner = o.owner
        /\ SamplesStale(w) \/ st.silent <= w.silent + Grace(w)
  /\ ~DependencyError(o) /\ w.phase # "degraded" /\ o.owner = w.lastOwner
       /\ ~SamplesStale(w) => Backed(AcceptSample(w, o), st, o.owner)

\* Where the manager is not degraded, and finds its samples not stale.
LEMMA ControlBacked ==
  ASSUME NEW w, NEW o \in Observation, Free(w, o), Followed(w),
         NEW st \in History, Brings(w, o, st), ~DependencyError(o),
         w.phase # "degraded", o.owner = w.lastOwner, ~SamplesStale(w)
  PROVE  Measures(Control(AcceptSample(w, o), o, SampleIsNew(w, o)), st, o.owner)
<1> DEFINE x == AcceptSample(w, o)
           d == Control(x, o, SampleIsNew(w, o))
<1>1. /\ o.power # NoReading /\ SampleIsNew(w, o) \in BOOLEAN
      /\ \A g \in LoadGroup : o.groups[g] # "unknown"
  BY DEF DependencyError, SampleIsNew
<1>2. Free(x, o) /\ Fits(x) /\ Fits(w)
  <2>1. Fits(w)
    BY DEF Free
  <2>2. Minds(w, x)
    BY <2>1, SampleMinds
  <2> QED
    BY <2>1, <2>2, MindsFree DEF Minds
<1>3. /\ x.seen = "current" /\ x.phase = w.phase /\ x.lastOwner = w.lastOwner
      /\ w.seen # "current" => x.silent = 0
      /\ w.seen = "current" => x = w
  BY <1>1, <1>2, AcceptSampleCounts DEF Fits, Counts
<1>4. Backed(x, st, o.owner)
  BY DEF Brings
<1>5. /\ st.age \in 0..Stabilization /\ st.count \in 0..2 /\ st.silent \in Nat
      /\ StaleTime \in Nat /\ StaleTime >= 1 /\ Stabilization \in Nat
  BY LoadManagerAssumption DEF LoadManagerAssumption, History, Freshness
<1>6. x.silent \in 0..StaleTime - 1
  <2>1. w.silent \in NoTimer..StaleTime /\ w.silent # StaleTime
    BY <1>2 DEF Fits, Manager, SamplesStale
  <2>2. CASE w.seen = "current"
    BY <1>3, <1>5, <2>1, <2>2 DEF Followed, NoTimer
  <2>3. CASE w.seen # "current"
    BY <1>3, <1>5, <2>3
  <2> QED
    BY <2>2, <2>3
<1> HIDE DEF x
<1>7. st.silent <= x.silent + Grace(x) /\ Grace(x) \in Nat /\ Grace(x) >= 1
  <2>1. Grace(x) \in Nat /\ Grace(x) >= 1
    BY <1>5 DEF Grace
  <2>2. st.silent = 0 \/ (x = w /\ st.silent <= w.silent + Grace(w))
    BY <1>3 DEF Brings
  <2>3. CASE st.silent = 0
    BY <1>6, <2>1, <2>3
  <2>4. CASE x = w /\ st.silent <= w.silent + Grace(w)
    BY <2>1, <2>4
  <2> QED
    BY <2>2, <2>3, <2>4
<1>8. TooHigh(w, o) \/ st.count >= 1
  BY DEF Brings
<1>9. \/ x.phase = "measuring" /\ d = Done(x)
      \/ /\ Commands(x, d) \/ Settles(x, d)
         /\ x.phase = "measuring" => MeasurementReady(x) /\ Active(x)
      \/ x.phase # "measuring" /\ Retries(x, o, d)
  BY <1>1, <1>2, ControlMeasures
<1>14. Fits(d.m)
  BY <1>1, <1>2, ControlDecides DEF Decides
<1> HIDE DEF d
<1>10. CASE x.phase = "measuring" /\ d = Done(x)
  <2>1. ~d.commands /\ d.m = x
    BY <1>10 DEF Done, Decision
  <2> QED
    BY <1>3, <1>4, <1>6, <1>7, <2>1, <1>10 DEF Measures, Followed, Unbroken, d, x
<1>11. ASSUME Commands(x, d), x.phase = "measuring" => MeasurementReady(x) /\ Active(x)
       PROVE  Measures(d, st, o.owner)
  <2>1. Followed(d.m)
    BY <1>6, <1>11 DEF Commands, Followed
  <2>2. TurnsOn(d.m.pending) => Ripe(st)
    <3> SUFFICES ASSUME TurnsOn(d.m.pending) PROVE Ripe(st)
      OBVIOUS
    <3>1. Active(x) /\ MeasurementReady(x) /\ x.window.peak <= Threshold
      BY <1>11 DEF Commands
    <3>2. x.window.age <= st.age /\ x.window.count <= st.count
      BY <1>4, <3>1 DEF Backed
    <3>3. x.window.age \in Int /\ x.window.count \in Int
      BY <1>2, <1>5, <3>1 DEF Active, Fits, Manager, Window
    <3> QED
      BY <1>5, <3>1, <3>2, <3>3 DEF MeasurementReady, Ripe
  <2> QED
    BY <1>11, <2>1, <2>2 DEF Commands, Measures
<1>12. ASSUME Settles(x, d), x.phase = "measuring" => MeasurementReady(x) /\ Active(x)
       PROVE  Measures(d, st, o.owner)
  <2>1. /\ ~d.commands /\ d.m.phase = "stable" /\ d.m.seen = "current"
        /\ d.m.silent = x.silent /\ d.m.lastOwner = o.owner
    BY <1>3, <1>12 DEF Settles, SameStream
  <2>2. Grace(x) = 1
    <3>1. CASE x.phase = "measuring"
      <4>1. x.window \in Window /\ x.window # NoWindow /\ x.window.count >= 2
        BY <1>2, <1>12, <3>1 DEF Active, MeasurementReady, Fits, Manager
      <4>2. ~(x.window.count < 2)
        BY <4>1 DEF Window
      <4> QED
        BY <4>2 DEF Grace
    <3>2. CASE x.phase # "measuring"
      BY <3>2 DEF Grace
    <3> QED
      BY <3>1, <3>2
  <2>3. Grace(d.m) = 1
    BY <2>1 DEF Grace
  <2>4. Unbroken(d.m, st, o.owner)
    BY <1>7, <2>1, <2>2, <2>3 DEF Unbroken
  <2> QED
    BY <1>6, <2>1, <2>4 DEF Measures, Followed, Backed, Active
<1>13. ASSUME x.phase # "measuring", Retries(x, o, d)
       PROVE  Measures(d, st, o.owner)
  <2>1. /\ ~d.commands /\ Begins(d.m, "retry") /\ d.m.seen = "current"
        /\ d.m.silent = 0 /\ d.m.lastOwner = o.owner /\ d.m.window.peak >= o.power
    BY <1>3, <1>13 DEF Retries
  <2>2. Grace(x) = 1 /\ Grace(d.m) = StaleTime
    BY <1>13, <2>1 DEF Grace, Begins
  <2>3. Unbroken(d.m, st, o.owner)
    BY <1>5, <1>6, <1>7, <2>1, <2>2 DEF Unbroken, Begins
  <2>4. d.m.window.peak \in Rank
    BY <1>14, <2>1 DEF Fits, Manager, Window, Begins
  <2>5. st.count >= 1 \/ d.m.window.peak > Threshold
    BY <1>8, <2>1, <2>4 DEF TooHigh, Rank, NoReading, Threshold, Observation
  <2>6. Backed(d.m, st, o.owner)
    BY <2>1, <2>4, <2>5, BeginsBacked
  <2> QED
    BY <2>1, <2>3, <2>6 DEF Measures, Followed
<1> QED
  BY <1>9, <1>10, <1>11, <1>12, <1>13 DEF d, x

\* _on_generator: the contract, on what the tick brings.
LEMMA OnGeneratorBacked ==
  ASSUME NEW w, NEW o \in Observation, Free(w, o), Followed(w),
         NEW st \in History, Brings(w, o, st)
  PROVE  Measures(OnGenerator(w, o), st, o.owner)
<1> SUFFICES ASSUME NEW d, d = OnGenerator(w, o) PROVE Measures(d, st, o.owner)
  OBVIOUS
<1>1. Fits(w) /\ Fits(d.m)
  BY OnGeneratorDecides DEF Free, Decides
<1>2. st.silent \in Nat /\ StaleTime >= 1 /\ StaleTime \in Nat
  BY LoadManagerAssumption DEF LoadManagerAssumption, History, Freshness
<1>3. CASE DependencyError(o)
  <2>1. d = Done(Degrade(w)) /\ st.count = 0
    BY <1>1, <1>3, OnGeneratorMeasures DEF Brings
  <2>2. SameStream(w, Degrade(w)) /\ Degrade(w).phase = "degraded"
    BY <1>1, HelpersKeepStream DEF Fits
  <2> QED
    BY <2>1, <2>2
    DEF Measures, Followed, SameStream, Done, Decision, Unbroken, Backed, Active
<1>4. CASE /\ w.phase = "degraded" /\ w.staleStream /\ w.seen = "current"
           /\ d = Done(w)
  BY <1>4 DEF Measures, Done, Decision, Unbroken, Backed, Active
<1>5. ASSUME ~DependencyError(o), NEW reason \in {"base", "recovery"},
             d = MeasureAnew(w, o, reason),
             IF w.phase = "degraded" THEN ~w.staleStream \/ w.seen # "current"
             ELSE o.owner # w.lastOwner
      PROVE  Measures(d, st, o.owner)
  <2>1. o.power # NoReading
    BY <1>5 DEF DependencyError
  <2>2. /\ ~d.commands /\ Begins(d.m, reason) /\ d.m.lastOwner = o.owner
        /\ d.m.seen = "current"
        /\ IF w.seen = "current" THEN d.m.silent = w.silent
           ELSE d.m.silent = 0 /\ d.m.window.peak >= o.power
    BY <1>1, <1>5, <2>1, MeasureAnewBegins
  <2>3. d.m.window.peak \in Rank
    BY <1>1, <2>2 DEF Fits, Manager, Window, Begins
  <2>4. Backed(d.m, st, o.owner)
    <3>1. st.count >= 1 \/ d.m.window.peak > Threshold
      BY <1>5, <2>2, <2>3
      DEF Brings, TooHigh, Rank, NoReading, Threshold, Observation
    <3> QED
      BY <2>2, <2>3, <3>1, BeginsBacked
  <2>5. \/ st.silent = 0
        \/ w.seen # "current" /\ st.silent <= 1
    BY <1>5 DEF Brings
  <2>6. Unbroken(d.m, st, o.owner)
    <3>1. CASE st.silent = 0
      <4>1. d.m.silent \in Nat
        BY <1>1, <1>2, <2>2 DEF Followed, Fits, Manager, NoTimer
      <4>2. Grace(d.m) = 1
        BY <1>5, <2>2 DEF Grace, Begins
      <4> QED
        BY <1>2, <2>2, <3>1, <4>1, <4>2 DEF Unbroken, Begins
    <3>2. CASE w.seen # "current" /\ st.silent <= 1
      <4>1. Grace(d.m) = 1
        BY <1>5, <2>2 DEF Grace, Begins
      <4> QED
        BY <1>2, <2>2, <3>2, <4>1 DEF Unbroken, Begins
    <3> QED
      BY <2>5, <3>1, <3>2
  <2>7. Followed(d.m)
    BY <2>2 DEF Followed
  <2> QED
    BY <2>2, <2>4, <2>6, <2>7 DEF Measures
<1>6. CASE /\ w.phase # "degraded" /\ ~d.commands /\ SameStream(w, d.m)
           /\ d.m.phase = "degraded" /\ d.m.staleStream
  <2>1. w.seen # "current" => st.silent = 0
    BY <1>6 DEF Brings
  <2> QED
    BY <1>6, <2>1 DEF Measures, Followed, SameStream, Unbroken, Backed, Active
<1>7. CASE /\ ~DependencyError(o) /\ w.phase # "degraded" /\ o.owner = w.lastOwner
           /\ ~SamplesStale(w)
           /\ d = Control(AcceptSample(w, o), o, SampleIsNew(w, o))
  BY <1>7, ControlBacked
<1> QED
  BY <1>1, <1>3, <1>4, <1>5, <1>6, <1>7, OnGeneratorMeasures

-------------------------------------------------------------------------------
(***************************************************************************)
(* The tick, up to the step without a command to wait for.                 *)
(***************************************************************************)

\* Time does not hide a sample, and ages the stream and the window.
LEMMA ElapseAges ==
  ASSUME NEW v, Orderly(v), Followed(v), NEW newSample \in BOOLEAN
  PROVE  LET u == Elapse(v, newSample)
         IN /\ Followed(u) /\ u.phase = v.phase /\ u.lastOwner = v.lastOwner
            /\ u.staleStream = v.staleStream
            /\ u.silent = Older(v.silent, StaleTime)
            /\ u.seen = IF newSample /\ v.seen = "current" THEN "older" ELSE v.seen
            /\ u.pending = Nothing <=> v.pending = Nothing
            /\ u.window.reason = v.window.reason
            /\ u.window = NoWindow <=> v.window = NoWindow
            /\ u.window.age = Older(v.window.age, Stabilization)
            /\ u.window.count = v.window.count /\ u.window.peak = v.window.peak
<1> DEFINE p == [v.pending EXCEPT !.left = Less(@)]
           w == [v.window EXCEPT !.age = Older(@, Stabilization)]
           retry == Less(v.retry)
           silent == Older(v.silent, StaleTime)
           nominalFor == Older(v.nominalFor, NominalTime)
           maximumFor == Older(v.maximumFor, MaximumTime)
           seen == IF newSample /\ v.seen = "current" THEN "older" ELSE v.seen
           u == [v EXCEPT !.pending = p, !.retry = retry, !.window = w,
                          !.silent = silent, !.nominalFor = nominalFor,
                          !.maximumFor = maximumFor, !.seen = seen]
<1>1. Elapse(v, newSample) = u
  BY DEF Elapse
<1>2. /\ Orderly(Elapse(v, newSample))
      /\ SameCommand(v.pending, Elapse(v, newSample).pending)
  BY ElapseKeeps
<1>3. u.pending = Nothing <=> v.pending = Nothing
  <2>1. u.pending \in PendingAction /\ v.pending \in PendingAction
        /\ u.pending.group = v.pending.group
    BY <1>1, <1>2 DEF Orderly, Fits, Manager, SameCommand
  <2> HIDE DEF u
  <2>2. \A q \in PendingAction : q = Nothing <=> q.group = "none"
    BY DEF PendingAction, Nothing, LoadGroup
  <2> QED
    BY <2>1, <2>2
<1>4. /\ w.reason = v.window.reason /\ w.count = v.window.count
      /\ w.peak = v.window.peak
      /\ w.age = Older(v.window.age, Stabilization)
      /\ w = NoWindow <=> v.window = NoWindow
  <2>1. v.window \in Window
    BY DEF Orderly, Fits, Manager
  <2>2. u.window \in Window
    BY <1>1, <1>2 DEF Orderly, Fits, Manager
  <2>3. u.window = w
    BY DEF Orderly, Fits, Manager
  <2>4. /\ w.reason = v.window.reason /\ w.count = v.window.count
        /\ w.peak = v.window.peak
        /\ w.age = Older(v.window.age, Stabilization)
    BY <2>1 DEF Window, NoWindow
  <2>5. \A q \in Window : q = NoWindow <=> q.reason = "none"
    BY DEF Window, NoWindow
  <2> HIDE DEF w, u
  <2> QED
    BY <2>1, <2>2, <2>3, <2>4, <2>5
<1> HIDE DEF p, w, retry, silent, nominalFor, maximumFor, seen
<1>5. /\ u.phase = v.phase /\ u.lastOwner = v.lastOwner /\ u.silent = silent
      /\ u.staleStream = v.staleStream /\ u.seen = seen /\ u.window = w
  BY DEF Orderly, Fits, Manager
<1>6. v.silent \in NoTimer..StaleTime
  BY DEF Orderly, Fits, Manager
<1> HIDE DEF u
<1>7. Followed(u)
  BY <1>5, <1>6, LoadManagerAssumption
  DEF LoadManagerAssumption, Followed, Older, NoTimer, silent, seen
<1> QED
  BY <1>1, <1>3, <1>4, <1>5, <1>7 DEF silent, seen

\* The manager w with which the step of v goes on when it waits for no command:
\* its command has been carried out or given up, or there was none.
Entered(v, o, w) ==
  /\ Free(w, o) /\ w.enabled
  /\ w.seen = v.seen /\ w.silent = v.silent /\ w.lastOwner = v.lastOwner
  /\ w.staleStream = v.staleStream
  /\ \/ w.phase = v.phase /\ w.window = v.window
     \/ v.pending # Nothing /\ w.phase = "degraded"
     \/ v.pending # Nothing /\ \E reason : Opens(w, reason)

\* _reconcile_pending, confirmed: what is measured after has a new window.
LEMMA ConfirmEnters ==
  ASSUME NEW u, Orderly(u), u.enabled, u.pending # Nothing,
         NEW o, Free(ConfirmPending(u), o), ConfirmPending(u).enabled
  PROVE  Entered(u, o, ConfirmPending(u))
<1> DEFINE p == u.pending
           shed == IF TurnsOn(p) THEN u.shed \ {p.group} ELSE u.shed \cup {p.group}
           blocked == u.blocked \ {p.group}
           w == [u EXCEPT !.shed = shed, !.pending = Nothing,
                          !.blocked = blocked, !.degraded = FALSE]
           x == ConfirmPending(u)
<1>1. x = IF ~MeasuredAfter(p) THEN w
          ELSE IF p.reason = "admission" THEN StartMeasurement(w, "admission", p.group)
          ELSE StartMeasurement(w, "after_shed", "none")
  BY DEF ConfirmPending
<1>2. p.group \in LoadGroup
  BY DEF Orderly, Fits, Manager, PendingAction
<1>3. shed \in SUBSET LoadGroup /\ blocked \in SUBSET LoadGroup
  BY <1>2 DEF Orderly, Fits, Manager
<1> HIDE DEF shed, blocked
<1>4. w \in Manager
  BY <1>3 DEF Orderly, Fits, Manager, PendingAction
<1>5. w.seen = u.seen /\ w.silent = u.silent /\ w.lastOwner = u.lastOwner
      /\ w.staleStream = u.staleStream /\ w.phase = u.phase /\ w.window = u.window
  BY DEF Orderly, Fits, Manager
<1> HIDE DEF w
<1>6. \A reason \in {"admission", "after_shed"} : \A group :
        LET s == StartMeasurement(w, reason, group)
        IN s.seen = u.seen /\ s.silent = u.silent /\ s.lastOwner = u.lastOwner
           /\ s.staleStream = u.staleStream /\ Opens(s, reason)
  <2> TAKE reason \in {"admission", "after_shed"}
  <2> TAKE group
  <2> DEFINE s == StartMeasurement(w, reason, group)
  <2>1. s.staleStream = w.staleStream
    BY <1>4 DEF StartMeasurement, Manager
  <2> QED
    BY <1>4, <1>5, <2>1, HelpersKeepStream, StartOpens DEF SameStream
<1> HIDE DEF p, x
<1>7. /\ x.seen = u.seen /\ x.silent = u.silent /\ x.lastOwner = u.lastOwner
      /\ x.staleStream = u.staleStream
      /\ IF MeasuredAfter(p) THEN \E reason : Opens(x, reason)
         ELSE x.phase = u.phase /\ x.window = u.window
  BY <1>1, <1>5, <1>6
<1> QED
  BY <1>7 DEF Entered, x, p

\* _reconcile_pending, given up: the manager is degraded, on the same stream.
LEMMA GiveUpEnters ==
  ASSUME NEW u, Orderly(u), u.enabled, u.pending # Nothing,
         NEW o, Free(GiveUpPending(u), o), GiveUpPending(u).enabled
  PROVE  Entered(u, o, GiveUpPending(u))
<1> DEFINE blocked == u.blocked \cup {u.pending.group}
           w == [u EXCEPT !.pending = Nothing, !.blocked = blocked]
<1>1. GiveUpPending(u) = Degrade(w)
  BY DEF GiveUpPending
<1>2. blocked \in SUBSET LoadGroup
  BY DEF Orderly, Fits, Manager, PendingAction
<1> HIDE DEF blocked
<1>3. w \in Manager /\ w.seen = u.seen /\ w.silent = u.silent
      /\ w.lastOwner = u.lastOwner /\ w.staleStream = u.staleStream
  BY <1>2 DEF Orderly, Fits, Manager, PendingAction
<1> HIDE DEF w
<1>4. SameStream(w, Degrade(w)) /\ Degrade(w).phase = "degraded"
      /\ Degrade(w).staleStream = w.staleStream
  <2>1. Degrade(w).staleStream = w.staleStream
    BY <1>3 DEF Degrade, Manager
  <2> QED
    BY <1>3, <2>1, HelpersKeepStream
<1> QED
  BY <1>1, <1>3, <1>4 DEF Entered, SameStream

\* step: a command is awaited, or the step goes on without one.
LEMMA StepEnters ==
  ASSUME NEW v, Orderly(v), v.enabled, NEW o \in Observation
  PROVE  LET d == Step(v, o)
         IN  \/ /\ v.pending # Nothing /\ ~d.commands /\ SameStream(v, d.m)
                /\ d.m.phase = v.phase /\ d.m.window = v.window
             \/ \E w : Entered(v, o, w) /\ d = StepFree(w, o)
<1> DEFINE u == ReconcileManualOn(v, o)
<1>1. /\ Orderly(u) /\ u.enabled = v.enabled /\ u.retry = v.retry
      /\ u.pending = v.pending /\ u.shed \subseteq v.shed
      /\ \A g \in v.shed \ u.shed : o.groups[g] = "yes"
      /\ \A g \in u.shed : o.groups[g] # "yes" \/ g = v.pending.group
  BY ReconcileAccounts
<1>2. /\ SameStream(v, u) /\ u.phase = v.phase /\ u.window = v.window
      /\ u.staleStream = v.staleStream
  <2> DEFINE owed == {g \in v.shed : o.groups[g] # "yes" \/ g = v.pending.group}
  <2>1. u = [v EXCEPT !.shed = owed]
    BY DEF ReconcileManualOn
  <2> HIDE DEF owed, u
  <2> QED
    BY <2>1 DEF SameStream, Orderly, Fits, Manager
<1>3. Step(v, o) =
        IF u.pending = Nothing THEN StepFree(u, o)
        ELSE IF Confirmed(u, o) THEN StepFree(ConfirmPending(u), o)
        ELSE IF u.pending.left > 0 THEN Decision(u, FALSE, ~BlocksTransfer(u.pending))
        ELSE StepFree(GiveUpPending(u), o)
  BY DEF Step
<1> HIDE DEF u
<1>4. CASE u.pending = Nothing
  <2>1. Free(u, o)
    BY <1>1, <1>4 DEF Free, Orderly, Fits, Manager, Nothing, LoadGroup
  <2>2. Entered(v, o, u)
    BY <1>1, <1>2, <1>4, <2>1 DEF Entered, SameStream
  <2> QED
    BY <1>3, <1>4, <2>2
<1>5. CASE u.pending # Nothing /\ Confirmed(u, o)
  <2> DEFINE w == ConfirmPending(u)
  <2>1. Free(w, o) /\ w.enabled = u.enabled
    BY <1>1, <1>5, ConfirmAccounts DEF Confirmed
  <2>2. Entered(u, o, w)
    BY <1>1, <1>5, <2>1, ConfirmEnters
  <2> HIDE DEF w
  <2>3. Entered(v, o, w)
    BY <1>1, <1>2, <1>5, <2>2 DEF Entered, SameStream
  <2> QED
    BY <1>3, <1>5, <2>3 DEF w
<1>6. CASE u.pending # Nothing /\ ~Confirmed(u, o) /\ u.pending.left > 0
  BY <1>1, <1>2, <1>3, <1>6 DEF Decision, SameStream
<1>7. CASE u.pending # Nothing /\ ~Confirmed(u, o) /\ ~(u.pending.left > 0)
  <2> DEFINE w == GiveUpPending(u)
  <2>1. Free(w, o) /\ w.enabled = u.enabled
    <3>1. o.groups[u.pending.group] # Reads(TurnsOn(u.pending))
      BY <1>7 DEF Confirmed
    <3>2. \A g \in u.shed : o.groups[g] # "yes" \/ g = u.pending.group
      BY <1>1
    <3> QED
      BY <1>1, <1>7, <3>1, <3>2, GiveUpAccounts
  <2>2. Entered(u, o, w)
    BY <1>1, <1>7, <2>1, GiveUpEnters
  <2> HIDE DEF w
  <2>3. Entered(v, o, w)
    BY <1>1, <1>2, <1>7, <2>2 DEF Entered, SameStream
  <2> QED
    BY <1>3, <1>7, <2>3 DEF w
<1> QED
  BY <1>4, <1>5, <1>6, <1>7

\* What the manager is told of the house, and when a dependency fails it.
LEMMA ObservationShows ==
  ASSUME NEW f, f.house \in House, f.power \in Rank, f.hidden \subseteq LoadGroup,
         f.newSample \in BOOLEAN, f.enabled \in BOOLEAN
  PROVE  LET o == Observe(f)
         IN /\ o.actionsEnabled = f.enabled /\ o.power = f.power
            /\ DependencyError(o) => ~FoundMeasured(f)
            /\ ~DependencyError(o) /\ f.enabled =>
                 FoundMeasured(f) \/ (f.newSample /\ f.power > Threshold)
            /\ ~DependencyError(o) => o.owner = f.house
            /\ PretransferRequired(o) => f.house = "prepare"
            /\ o.houseOnGenerator = "yes" <=> f.house \in OnGeneratorBus
            /\ f.house \notin OnGeneratorBus => ~FoundMeasured(f)
<1> DEFINE o == Observe(f)
<1>1. /\ o.actionsEnabled = f.enabled /\ o.power = f.power
      /\ o.owner = IF f.house \in {"A", "B"} THEN f.house ELSE "none"
      /\ o.groups = [g \in LoadGroup |-> Reading(f, g)]
      /\ o.houseOnGenerator = IF f.house = "unknown" THEN "unknown"
                              ELSE Reads(f.house \in OnGeneratorBus)
      /\ o.supplyDesired = (f.house \in {"prepare"} \cup OnGeneratorBus)
  BY DEF Observe
<1> HIDE DEF o
<1>2. \A g \in LoadGroup : o.groups[g] = "unknown" <=> g \in f.hidden
  BY <1>1 DEF Reading, Reads
<1>3. DependencyError(o) <=>
        f.house \notin {"A", "B"} \/ f.power = NoReading \/ f.hidden # {}
  BY <1>1, <1>2 DEF DependencyError
<1>4. f.power <= Threshold \/ f.power > Threshold
  BY DEF Rank, NoReading, Threshold
<1>5. PretransferRequired(o) => f.house = "prepare"
  BY <1>1 DEF PretransferRequired, Reads
<1>6. o.houseOnGenerator = "yes" <=> f.house \in OnGeneratorBus
  BY <1>1 DEF Reads, OnGeneratorBus
<1>7. FoundMeasured(f) => f.house \in OnGeneratorBus
  BY DEF FoundMeasured, OnGeneratorBus
<1> QED
  BY <1>1, <1>3, <1>4, <1>5, <1>6, <1>7 DEF FoundMeasured, o

-------------------------------------------------------------------------------
(***************************************************************************)
(* The system.  A manager that waits for no command has seen every gap of  *)
(* the history, and the history backs what is under measurement.           *)
(***************************************************************************)

MeasuredInvariant ==
  /\ DebtInvariant
  /\ Followed(m)
  /\ call # NoCall => m.pending # Nothing
  /\ m.pending # Nothing => ~Active(m)
  /\ m.enabled /\ m.pending = Nothing => Unbroken(m, steady, house)
  /\ Backed(m, steady, house)

\* What a tick on a generator finds, told by the manager w that goes on with it.
GeneratorTicked(f, v, o, w) ==
  /\ Orderly(v) /\ v = Elapse(m, f.newSample) /\ o \in Observation /\ o = Observe(f)
  /\ f.house \in House /\ f.hidden \subseteq LoadGroup /\ f.power \in Rank
  /\ f.newSample \in BOOLEAN /\ f.enabled
  /\ m.enabled /\ Entered(v, o, w)

\* Where the history goes on without a new sample, the manager is as it was.
LEMMA GapSeen ==
  ASSUME MeasuredInvariant, NEW f, NEW v, NEW o, NEW w, GeneratorTicked(f, v, o, w),
         ~DependencyError(o), FoundMeasured(f), GoesOn(f), ~f.newSample,
         NEW silent, silent = steady.silent + 1
  PROVE  \/ w.seen # "current" /\ w.phase = "degraded" /\ silent <= 1
         \/ w.seen = "current" /\ w.phase = "degraded" /\ w.staleStream
         \/ /\ w.seen = "current" /\ w.phase # "degraded" /\ w.lastOwner = o.owner
            /\ SamplesStale(w) \/ silent <= w.silent + Grace(w)
<1>1. TypeOK /\ Orderly(m) /\ Followed(m) /\ m.pending = Nothing
  BY DEF MeasuredInvariant, DebtInvariant, GoesOn
<1>2. /\ v.phase = m.phase /\ v.lastOwner = m.lastOwner /\ v.pending = Nothing
      /\ v.staleStream = m.staleStream /\ v.seen = m.seen
      /\ v.silent = Older(m.silent, StaleTime)
      /\ v.window.reason = m.window.reason /\ v.window.count = m.window.count
  BY <1>1, ElapseAges DEF GeneratorTicked
<1>3. /\ w.phase = m.phase /\ w.lastOwner = m.lastOwner
      /\ w.staleStream = m.staleStream /\ w.seen = m.seen
      /\ w.silent = Older(m.silent, StaleTime)
      /\ w.window.reason = m.window.reason /\ w.window.count = m.window.count
  BY <1>2 DEF GeneratorTicked, Entered
<1>4. Grace(w) = Grace(m) /\ Grace(m) \in Nat
  BY <1>3, LoadManagerAssumption DEF Grace, LoadManagerAssumption
<1>5. steady.count > 0 /\ steady.silent \in Nat /\ m.silent \in NoTimer..StaleTime
      /\ StaleTime \in Nat
  BY <1>1, LoadManagerAssumption
  DEF GoesOn, TypeOK, Orderly, Fits, Manager, Freshness, LoadManagerAssumption
<1>6. Unbroken(m, steady, house)
  BY <1>1 DEF MeasuredInvariant, GeneratorTicked
<1>7. o.owner = house
  BY ObservationShows DEF GeneratorTicked, GoesOn
<1>8. CASE /\ m.phase = "degraded"
           /\ IF m.seen = "current" THEN m.staleStream ELSE steady.silent = 0
  BY <1>3, <1>8
<1>9. CASE /\ m.phase # "degraded" /\ m.seen = "current" /\ m.lastOwner = house
           /\ steady.silent <= m.silent + Grace(m)
  <2>1. m.silent >= 0
    BY <1>1, <1>9 DEF Followed
  <2>2. m.silent = StaleTime => SamplesStale(w)
    BY <1>3 DEF SamplesStale, Older
  <2>3. m.silent # StaleTime => silent <= w.silent + Grace(w)
    BY <1>3, <1>4, <1>5, <1>9, <2>1 DEF Older, NoTimer
  <2> QED
    BY <1>3, <1>7, <1>9, <2>2, <2>3
<1> QED
  BY <1>5, <1>6, <1>8, <1>9 DEF Unbroken

\* What goes on measuring is backed with the sample of this tick.
LEMMA SampleBacked ==
  ASSUME MeasuredInvariant, NEW f, NEW v, NEW o, NEW w, GeneratorTicked(f, v, o, w),
         v.pending = Nothing, ~DependencyError(o), w.phase # "degraded",
         o.owner = w.lastOwner, ~SamplesStale(w)
  PROVE  Backed(AcceptSample(w, o), Watched(f), o.owner)
<1> SUFFICES ASSUME NEW x, x = AcceptSample(w, o), Active(x),
                    x.window.peak <= Threshold, NEW st, st = Watched(f)
             PROVE  Backed(x, st, o.owner)
  BY DEF Backed
<1> USE DEF GeneratorTicked
<1>1. TypeOK /\ Orderly(m) /\ Followed(m) /\ m.window \in Window
  BY DEF MeasuredInvariant, DebtInvariant, Orderly, Fits, Manager
<1>2. /\ m.pending = Nothing
      /\ v.phase = m.phase /\ v.lastOwner = m.lastOwner
      /\ v.silent = Older(m.silent, StaleTime)
      /\ v.seen = IF f.newSample /\ m.seen = "current" THEN "older" ELSE m.seen
      /\ v.window.reason = m.window.reason
      /\ v.window = NoWindow <=> m.window = NoWindow
      /\ v.window.age = Older(m.window.age, Stabilization)
      /\ v.window.count = m.window.count /\ v.window.peak = m.window.peak
  BY <1>1, ElapseAges
<1>3. /\ w.phase = v.phase /\ w.window = v.window /\ w.lastOwner = v.lastOwner
      /\ w.seen = v.seen /\ w.silent = v.silent /\ w \in Manager
  BY DEF Entered, Free, Fits
<1>4. o.power # NoReading /\ o.owner = f.house /\ o.power = f.power
  BY ObservationShows DEF DependencyError
<1>5. /\ x.seen = "current" /\ x.phase = w.phase /\ x.lastOwner = w.lastOwner
      /\ w.window = NoWindow <=> x.window = NoWindow
      /\ x.window.age = w.window.age
      /\ w.seen # "current" => Counts(w, x)
      /\ w.seen # "current" /\ w.window # NoWindow =>
           x.window.peak >= o.power /\ x.window.peak >= w.window.peak
      /\ w.seen = "current" => x = w
  BY <1>3, <1>4, AcceptSampleCounts DEF Counts
<1> HIDE DEF GeneratorTicked
<1>6. Active(m) /\ w.window # NoWindow
  BY <1>2, <1>3, <1>5 DEF Active
<1>7. m.window.peak \in Rank /\ x.window.peak \in Rank /\ o.power \in Rank
  <2>1. x \in Manager
    BY SampleMinds DEF Minds, Fits, GeneratorTicked, Entered, Free
  <2> QED
    BY <1>1, <1>6, <2>1 DEF Active, Manager, Window, Observation, GeneratorTicked
<1>8. m.window.peak <= Threshold
  BY <1>2, <1>3, <1>5, <1>6, <1>7 DEF Rank, NoReading, Threshold
<1>9. /\ house = m.lastOwner /\ m.seen = "current" /\ steady.count >= 1
      /\ m.window.age <= steady.age /\ m.window.count <= steady.count
  BY <1>6, <1>8 DEF MeasuredInvariant, Backed
<1>10. FoundMeasured(f)
  <2> SUFFICES ASSUME f.newSample, f.power > Threshold PROVE FALSE
    BY ObservationShows DEF GeneratorTicked
  <2>1. w.seen # "current"
    BY <1>2, <1>3, <1>9
  <2> QED
    BY <1>4, <1>5, <1>6, <1>7, <2>1 DEF Rank, NoReading, Threshold
<1>11. GoesOn(f)
  <2>1. steady.silent <= m.silent + Grace(m)
    BY <1>1, <1>2, <1>3, <1>9, LoadManagerAssumption
    DEF MeasuredInvariant, Unbroken, GeneratorTicked, TypeOK, LoadManagerAssumption
  <2>2. m.silent >= 0 /\ Older(m.silent, StaleTime) # StaleTime
    BY <1>1, <1>2, <1>3, <1>9 DEF Followed, SamplesStale
  <2>3. m.silent \in NoTimer..StaleTime /\ steady.silent \in Nat /\ steady.count \in 0..2
        /\ StaleTime \in Nat /\ StaleTime >= 1
    BY <1>1, LoadManagerAssumption
    DEF Orderly, Fits, Manager, TypeOK, LoadManagerAssumption, Freshness
  <2>4. Grace(m) <= StaleTime /\ Grace(m) \in Nat
    BY <2>3 DEF Grace
  <2>5. steady.silent < Freshness
    BY <2>1, <2>2, <2>3, <2>4 DEF Older, NoTimer, Freshness
  <2> QED
    BY <1>2, <1>3, <1>4, <1>9, <2>3, <2>5 DEF GoesOn
<1>12. /\ st \in History
       /\ st.age = Capped(steady.age, Stabilization)
       /\ IF f.newSample THEN st.count = Capped(steady.count, 2)
          ELSE st.count = steady.count
  BY <1>1, <1>10, <1>11, WatchedAdds DEF GeneratorTicked
<1>13. /\ m.window.age \in 0..Stabilization /\ m.window.count \in 0..2
       /\ steady.age \in 0..Stabilization /\ steady.count \in 0..2
       /\ Stabilization \in Nat
  BY <1>1, <1>6, LoadManagerAssumption
  DEF Active, Window, TypeOK, LoadManagerAssumption
<1>14. x.window.age <= st.age
  BY <1>2, <1>3, <1>5, <1>9, <1>12, <1>13 DEF Older, Capped, NoTimer
<1>15. x.window.count <= st.count
  <2>1. CASE f.newSample
    <3>1. Counts(w, x) /\ st.count = Capped(steady.count, 2)
      BY <1>2, <1>3, <1>5, <1>9, <1>12, <2>1
    <3> QED
      BY <1>2, <1>3, <1>6, <1>9, <1>13, <3>1 DEF Counts, Capped
  <2>2. CASE ~f.newSample
    BY <1>2, <1>3, <1>5, <1>9, <1>12, <1>13, <2>2
  <2> QED
    BY <2>1, <2>2
<1>16. st.count >= 1
  BY <1>9, <1>12, <1>13 DEF Capped
<1> QED
  BY <1>5, <1>14, <1>15, <1>16 DEF Backed

\* A tick on a generator keeps the contract of its step.
LEMMA GeneratorTick ==
  ASSUME MeasuredInvariant, NEW f, NEW v, NEW o, NEW w, GeneratorTicked(f, v, o, w)
  PROVE  Measures(OnGenerator(w, o), Watched(f), o.owner)
<1> SUFFICES ASSUME NEW st, st = Watched(f)
             PROVE  Measures(OnGenerator(w, o), st, o.owner)
  OBVIOUS
<1>1. TypeOK /\ Orderly(m) /\ Followed(m)
  BY DEF MeasuredInvariant, DebtInvariant
<1>2. /\ Followed(v) /\ v.phase = m.phase
      /\ v.seen = IF f.newSample /\ m.seen = "current" THEN "older" ELSE m.seen
      /\ v.pending = Nothing <=> m.pending = Nothing
      /\ v.window = NoWindow <=> m.window = NoWindow
  BY <1>1, ElapseAges DEF GeneratorTicked
<1>3. /\ Free(w, o) /\ Followed(w) /\ w.lastOwner = v.lastOwner
      /\ w.seen = v.seen /\ w.silent = v.silent
  BY <1>2 DEF GeneratorTicked, Entered, Followed
<1>4. /\ st \in History
      /\ ~FoundMeasured(f) => st.count = 0 /\ st.silent = 0
      /\ FoundMeasured(f) /\ ~GoesOn(f) => st.count = 1 /\ st.silent = 0
      /\ FoundMeasured(f) /\ GoesOn(f) =>
           /\ st.count >= 1
           /\ IF f.newSample THEN st.silent = 0 ELSE st.silent = steady.silent + 1
  <2>1. /\ st \in History
        /\ ~FoundMeasured(f) => st.count = 0 /\ st.silent = 0
        /\ FoundMeasured(f) /\ ~GoesOn(f) => st.count = 1 /\ st.silent = 0
        /\ FoundMeasured(f) /\ GoesOn(f) =>
             IF f.newSample THEN st.silent = 0 /\ st.count = Capped(steady.count, 2)
             ELSE st.silent = steady.silent + 1 /\ st.count = steady.count
    BY <1>1, WatchedAdds DEF GeneratorTicked
  <2>2. GoesOn(f) => steady.count \in 1..2
    BY <1>1 DEF GoesOn, TypeOK
  <2> QED
    BY <2>1, <2>2 DEF Capped
<1>5. /\ DependencyError(o) => ~FoundMeasured(f)
      /\ ~DependencyError(o) => FoundMeasured(f) \/ (f.newSample /\ f.power > Threshold)
      /\ o.power = f.power
  BY ObservationShows DEF GeneratorTicked
<1>6. DependencyError(o) => st.count = 0
  BY <1>4, <1>5
<1>7. ~DependencyError(o) => st.count >= 1 \/ (TooHigh(w, o) /\ st.silent = 0)
  <2>1. f.newSample => w.seen # "current"
    BY <1>2, <1>3
  <2>2. f.newSample /\ f.power > Threshold => TooHigh(w, o)
    BY <1>5, <2>1 DEF TooHigh
  <2>3. FoundMeasured(f) => st.count >= 1
    BY <1>4
  <2> QED
    BY <1>4, <1>5, <2>2, <2>3
<1>8. \/ st.silent = 0
      \/ w.seen # "current" /\ w.phase = "degraded" /\ st.silent <= 1
      \/ w.seen = "current" /\ w.phase = "degraded" /\ w.staleStream
      \/ /\ w.seen = "current" /\ w.phase # "degraded" /\ w.lastOwner = o.owner
         /\ SamplesStale(w) \/ st.silent <= w.silent + Grace(w)
  <2>1. CASE ~FoundMeasured(f) \/ ~GoesOn(f) \/ f.newSample
    BY <1>4, <2>1
  <2>2. CASE FoundMeasured(f) /\ GoesOn(f) /\ ~f.newSample
    BY <1>4, <1>5, <2>2, GapSeen
  <2> QED
    BY <2>1, <2>2
<1>9. ASSUME ~DependencyError(o), w.phase # "degraded", o.owner = w.lastOwner,
             ~SamplesStale(w)
      PROVE  Backed(AcceptSample(w, o), st, o.owner)
  <2>1. CASE v.pending = Nothing
    BY <1>9, <2>1, SampleBacked
  <2>2. CASE v.pending # Nothing
    <3> SUFFICES ASSUME NEW x, x = AcceptSample(w, o), Active(x),
                        x.window.peak <= Threshold
                 PROVE  Backed(x, st, o.owner)
      BY DEF Backed
    <3>1. o.power # NoReading /\ w \in Manager /\ o \in Observation
      BY <1>3, <1>9 DEF DependencyError, Free, Fits, GeneratorTicked
    <3>2. /\ x = w \/ Counts(w, x)
          /\ x.seen = "current" /\ x.phase = w.phase /\ x.lastOwner = w.lastOwner
          /\ w.window = NoWindow <=> x.window = NoWindow
          /\ w.seen # "current" /\ w.window # NoWindow => x.window.peak >= o.power
      BY <3>1, AcceptSampleCounts DEF Counts
    <3>3. ~Active(m)
      BY <1>2, <2>2 DEF MeasuredInvariant
    <3>4. ~(w.phase = v.phase /\ w.window = v.window)
      BY <1>2, <3>2, <3>3 DEF Active
    <3>5. PICK reason : Opens(w, reason)
      BY <1>9, <3>4 DEF GeneratorTicked, Entered
    <3>6. Begins(x, reason)
      BY <3>2, <3>5, OpensBegins
    <3>7. x.window.peak \in Rank /\ o.power \in Rank
      <4>1. x \in Manager
        BY <1>3, <3>1, SampleMinds DEF Minds, Fits, Free
      <4> QED
        BY <3>1, <4>1 DEF Active, Manager, Window, Observation
    <3>8. st.count >= 1
      <4>1. ~TooHigh(w, o)
        BY <3>2, <3>7 DEF TooHigh, Active, Rank, NoReading, Threshold
      <4> QED
        BY <1>7, <1>9, <4>1
    <3>9. Backed(x, st, x.lastOwner)
      BY <1>4, <3>2, <3>6, <3>7, <3>8, BeginsBacked
    <3> QED
      BY <1>9, <3>2, <3>9
  <2> QED
    BY <2>1, <2>2
<1>10. Brings(w, o, st)
  BY <1>6, <1>7, <1>8, <1>9 DEF Brings
<1> QED
  BY <1>3, <1>4, <1>10, OnGeneratorBacked DEF GeneratorTicked

\* What a step without a command to wait for leaves.
LEMMA FreeTick ==
  ASSUME MeasuredInvariant, m.enabled, NEW f, NEW v, NEW o, NEW d, Ticked(f, v, o, d),
         NEW w, Entered(v, o, w), d = StepFree(w, o)
  PROVE  /\ Followed(d.m)
         /\ d.commands =>
              /\ ~Active(d.m)
              /\ TurnsOn(d.m.pending) /\ f.house \in OnGeneratorBus => Ripe(steady')
         /\ ~d.commands =>
              Unbroken(d.m, steady', f.house) /\ Backed(d.m, steady', f.house)
<1>1. /\ v = Elapse(m, f.newSample) /\ o = Observe(f) /\ Orderly(v)
      /\ f.house \in House /\ f.hidden \subseteq LoadGroup /\ f.power \in Rank
      /\ f.newSample \in BOOLEAN /\ f.enabled \in BOOLEAN /\ steady' = Watched(f)
      /\ o \in Observation
  BY DEF Ticked
<1>2. /\ o.actionsEnabled = f.enabled
      /\ DependencyError(o) => ~FoundMeasured(f)
      /\ ~DependencyError(o) => o.owner = f.house
      /\ PretransferRequired(o) => f.house = "prepare"
      /\ o.houseOnGenerator = "yes" <=> f.house \in OnGeneratorBus
      /\ f.house \notin OnGeneratorBus => ~FoundMeasured(f)
  BY <1>1, ObservationShows
<1>3. TypeOK /\ Orderly(m) /\ Followed(m)
  BY DEF MeasuredInvariant, DebtInvariant
<1>4. Fits(w) /\ Followed(w)
  <2>1. Followed(v)
    BY <1>1, <1>3, ElapseAges
  <2> QED
    BY <2>1 DEF Entered, Free, Followed
<1>5. ~FoundMeasured(f) => steady'.count = 0
  BY <1>1, <1>3, WatchedAdds
<1>6. CASE PretransferRequired(o) /\ d = Pretransfer(w, o)
  <2>1. f.house \notin OnGeneratorBus /\ steady'.count = 0
    BY <1>2, <1>5, <1>6 DEF OnGeneratorBus
  <2>2. d.m.seen = w.seen /\ d.m.silent = w.silent /\ ~Active(d.m)
    BY <1>1, <1>4, <1>6, PretransferMeasuresNothing DEF Fits
  <2> QED
    BY <1>4, <2>1, <2>2 DEF Followed, Unbroken, Backed
<1>7. CASE o.actionsEnabled /\ o.houseOnGenerator = "yes" /\ d = OnGenerator(w, o)
  <2>1. GeneratorTicked(f, v, o, w)
    BY <1>1, <1>2, <1>7 DEF GeneratorTicked
  <2>2. Measures(d, steady', o.owner)
    BY <1>1, <1>7, <2>1, GeneratorTick
  <2>3. CASE ~DependencyError(o)
    BY <1>2, <2>2, <2>3 DEF Measures
  <2>4. CASE DependencyError(o)
    <3>1. d = Done(Degrade(w)) /\ steady'.count = 0
      BY <1>1, <1>2, <1>4, <1>5, <1>7, <2>4, OnGeneratorMeasures
    <3>2. SameStream(w, Degrade(w)) /\ Degrade(w).phase = "degraded"
      BY <1>4, HelpersKeepStream DEF Fits
    <3> QED
      BY <1>4, <3>1, <3>2
      DEF Followed, SameStream, Done, Decision, Unbroken, Backed, Active
  <2> QED
    BY <2>3, <2>4
<1>8. CASE /\ ~o.actionsEnabled \/ o.houseOnGenerator # "yes"
           /\ d.commands => o.actionsEnabled
           /\ Rests(d.m)
  <2>1. ~FoundMeasured(f)
    BY <1>2, <1>8 DEF FoundMeasured
  <2> QED
    BY <1>2, <1>5, <1>8, <2>1 DEF Rests, Followed, Unbroken, Backed
<1> QED
  BY <1>1, <1>4, <1>6, <1>7, <1>8, StepFreeMeasures

\* What the property asks of a step.
Admits == call = NoCall /\ call'.on /\ house' \in OnGeneratorBus

\* A tick keeps the invariant, and admits a group only after a measurement.
LEMMA TickMeasures ==
  ASSUME MeasuredInvariant, Tick
  PROVE  MeasuredInvariant' /\ (Admits => Ripe(steady'))
<1>1. DebtInvariant
  BY DEF MeasuredInvariant
<1>2. PICK f, v, o, d : Ticked(f, v, o, d)
  BY <1>1, TickSteps
<1>3. DebtInvariant'
  BY <1>1, TickInvariant
<1>4. /\ v = Elapse(m, f.newSample) /\ d = Step(v, o) /\ o \in Observation
      /\ m' = d.m /\ house' = f.house /\ f.newSample \in BOOLEAN
      /\ Orderly(v) /\ v.enabled = m.enabled /\ d.m.enabled = m.enabled
      /\ d.commands => d.m.pending # Nothing
      /\ call' # NoCall => d.commands
      /\ call'.on => d.commands /\ TurnsOn(d.m.pending)
  BY <1>2 DEF Ticked, Steps, Commanded, Nothing, LoadGroup, NoCall
<1>5. /\ Followed(v) /\ v.phase = m.phase
      /\ v.pending = Nothing <=> m.pending = Nothing
      /\ v.window = NoWindow <=> m.window = NoWindow
  BY <1>1, <1>4, ElapseAges DEF MeasuredInvariant, DebtInvariant
<1>6. CASE ~m.enabled
  <2> DEFINE u == [v EXCEPT !.pending = Nothing]
             x == SetPhase(ResetRuntime(u), "disabled")
  <2>1. d = Done(x)
    BY <1>4, <1>6 DEF Step
  <2>2. Fits(u) /\ u.pending = Nothing
    BY <1>4 DEF Orderly, Fits, Manager, PendingAction
  <2> HIDE DEF u
  <2>3. /\ ResetRuntime(u) \in Manager /\ ResetRuntime(u).pending = Nothing
        /\ ResetRuntime(u).seen = "none" /\ ResetRuntime(u).window = NoWindow
    BY <2>2, ResetMinds, ResetRests DEF Minds, SameDebts, Fits
  <2>4. SameStream(ResetRuntime(u), x) /\ x.phase = "disabled"
    BY <2>3, HelpersKeepStream
  <2> HIDE DEF x
  <2>5. /\ m'.seen = "none" /\ m'.phase = "disabled" /\ m'.pending = Nothing
        /\ ~m'.enabled /\ ~d.commands
    BY <1>4, <1>6, <2>1, <2>3, <2>4 DEF Done, Decision, SameStream
  <2> QED
    BY <1>3, <1>4, <2>5 DEF MeasuredInvariant, Followed, Active, Backed, Admits
<1>7. CASE /\ m.enabled /\ v.pending # Nothing /\ ~d.commands /\ SameStream(v, d.m)
           /\ d.m.phase = v.phase /\ d.m.window = v.window
  <2>1. ~Active(m)
    BY <1>5, <1>7 DEF MeasuredInvariant
  <2> QED
    BY <1>3, <1>4, <1>5, <1>7, <2>1
    DEF MeasuredInvariant, Followed, SameStream, Active, Backed, Admits
<1>8. ASSUME m.enabled, NEW w, Entered(v, o, w), d = StepFree(w, o)
      PROVE  MeasuredInvariant' /\ (Admits => Ripe(steady'))
  <2>1. /\ Followed(d.m)
        /\ d.commands =>
             /\ ~Active(d.m)
             /\ TurnsOn(d.m.pending) /\ f.house \in OnGeneratorBus => Ripe(steady')
        /\ ~d.commands =>
             Unbroken(d.m, steady', f.house) /\ Backed(d.m, steady', f.house)
    BY <1>2, <1>8, FreeTick
  <2>2. ~d.commands => d.m.pending = Nothing
    BY <1>4, <1>8, StepFreeDecides DEF Entered, Decides
  <2> QED
    BY <1>3, <1>4, <1>8, <2>1, <2>2 DEF MeasuredInvariant, Admits, Backed
<1> QED
  BY <1>4, <1>6, <1>7, <1>8, StepEnters

\* At the start nothing is measured.
LEMMA InitMeasured ==
  Init => MeasuredInvariant
BY InitInvariant
DEF Init, NewManager, MeasuredInvariant, Followed, NoCall, Unbroken, NotSteady,
    Backed, Active

\* Every step keeps the invariant, and admits a group only after a measurement.
LEMMA NextMeasures ==
  ASSUME MeasuredInvariant, [Next]_vars
  PROVE  MeasuredInvariant' /\ (Admits => Ripe(steady'))
<1>1. DebtInvariant /\ DebtInvariant' /\ TypeOK /\ Orderly(m)
  BY NextInvariant DEF MeasuredInvariant, DebtInvariant
<1>2. CASE Tick
  BY <1>2, TickMeasures
<1>3. CASE TimePasses
  <2>1. PICK newSample \in BOOLEAN : m' = Elapse(m, newSample)
    BY <1>3 DEF TimePasses
  <2>2. m.pending # Nothing /\ ~Active(m)
    BY <1>3 DEF MeasuredInvariant, TimePasses
  <2>3. Followed(m') /\ m'.pending # Nothing /\ ~Active(m')
    BY <1>1, <2>1, <2>2, ElapseAges DEF MeasuredInvariant, Active
  <2>4. ~Admits
    BY <1>3 DEF TimePasses, Admits
  <2> QED
    BY <1>1, <2>3, <2>4 DEF MeasuredInvariant, Backed
<1>4. CASE CallReturns
  <2>1. /\ m' = m /\ steady' = steady /\ house' = house /\ call' = NoCall
        /\ m.pending # Nothing
    BY <1>4 DEF CallReturns, MeasuredInvariant
  <2> QED
    BY <1>1, <2>1 DEF MeasuredInvariant, Admits, Backed, NoCall
<1>5. CASE CallFails
  <2> DEFINE group == call.group
             blocked == m.blocked \cup {group}
             p == IF m.pending.group = group THEN Nothing ELSE m.pending
             u == [m EXCEPT !.blocked = blocked, !.pending = p]
  <2>1. m' = Degrade(u) /\ steady' = NotSteady /\ call' = NoCall
    BY <1>5 DEF CallFails, ReportExecutionFailure
  <2>2. p \in PendingAction /\ blocked \in SUBSET LoadGroup
    BY <1>1, <1>5 DEF Orderly, Fits, Manager, PendingAction, TypeOK, Calls, CallFails
  <2> HIDE DEF p, blocked
  <2>3. u \in Manager /\ u.seen = m.seen /\ u.silent = m.silent
    BY <1>1, <2>2 DEF Orderly, Fits, Manager
  <2> HIDE DEF u
  <2>4. SameStream(u, Degrade(u)) /\ Degrade(u).phase = "degraded"
    BY <2>3, HelpersKeepStream
  <2>5. m'.seen = m.seen /\ m'.silent = m.silent /\ m'.phase = "degraded"
    BY <2>1, <2>3, <2>4 DEF SameStream
  <2> QED
    BY <1>1, <2>1, <2>5
    DEF MeasuredInvariant, Followed, Active, Unbroken, NotSteady, Backed, Admits, NoCall
<1>6. CASE Restart
  <2>1. PICK enabled \in EnabledNext : m' = Restored(m, enabled)
    BY <1>6 DEF Restart
  <2>2. m' = [ResetRuntime(m) EXCEPT !.enabled = enabled, !.lastOwner = "none"]
    BY <2>1 DEF Restored
  <2>3. /\ ResetRuntime(m) \in Manager /\ ResetRuntime(m).seen = "none"
        /\ ResetRuntime(m).window = NoWindow
    BY <1>1, ResetRests DEF Orderly
  <2>4. m'.seen = "none" /\ m'.window = NoWindow
    BY <2>2, <2>3 DEF Manager
  <2>5. steady' = NotSteady /\ call' = NoCall
    BY <1>6 DEF Restart
  <2> QED
    BY <1>1, <2>4, <2>5
    DEF MeasuredInvariant, Followed, Active, Unbroken, NotSteady, Backed, Admits, NoCall
<1>7. CASE SettleDown \/ UNCHANGED vars
  <2>1. m' = m /\ steady' = steady /\ house' = house /\ call' = call
    BY <1>7 DEF SettleDown, vars
  <2> QED
    BY <1>1, <2>1 DEF MeasuredInvariant, Admits, NoCall
<1> QED
  BY <1>2, <1>3, <1>4, <1>5, <1>6, <1>7 DEF Next

\* No admission to a generator without a measurement of that engine to the end, on
\* samples below the threshold, since the load was last changed, a reading was lost,
\* commands were forbidden or the program was restarted.
THEOREM SpecAdmitsMeasured ==
  Spec => AdmissionIsMeasured
<1> DEFINE A == Admits => Ripe(steady')
<1>1. MeasuredInvariant /\ [Next]_vars => MeasuredInvariant' /\ A
  BY NextMeasures
<1>2. A => [A]_vars
  OBVIOUS
<1> HIDE DEF A
<1>3. Spec => [][A]_vars
  BY <1>1, InitMeasured, PTL DEF Spec
<1> QED
  BY <1>3 DEF A, Admits, Ripe, AdmissionIsMeasured
===============================================================================
