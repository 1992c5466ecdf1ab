# EnergyATS: models, checks and proofs

TLA+ models of the control logic in `src/energy_ats/app`, the TLC runs that check
them on small instances, and theorems proved with TLAPS for every value of the
constants.  Line numbers below refer to files of that directory;
`PROJECT.json` maps every definition to its lines.

## 1. The system

EnergyATS is one asyncio process (`main.py`) that connects to Home Assistant over
a WebSocket and once a second runs a *tick*: it takes a snapshot of the entity
states, lets its components look at it, decides, and awaits the service calls
that throw switches.  Physical safety rests on contactor interlocks; the program
moves a house between the grid and a bus fed by two generators (A and B), behind
a UPS.

    snapshot -> bus tracker -> controllers observe -> [recovery reset, and end]
      -> exercise scheduler -> await warnings -> UPS run -> supervisor
      -> load manager -> await load commands -> generators plan -> transfer plan
      -> journal, await commands -> save, publish

| Component | State it keeps | Operations | Hard part | What makes it correct | Modules |
|---|---|---|---|---|---|
| Bus tracker `generator_bus.py` | FIFO owner of the bus, why each run started, last sample | `update`, `invalidate_observation_history`, `from_dict` | sampling, gaps, restarts | names the engine whose contactor is in, or admits not to know | `GeneratorBus` |
| Transfer controller `power_transfer.py` | phase, path, deadline, clock of lost feedback | `observe`, `plan`, `mark_interrupted`, recovery | one command at a time, each confirmed; ambiguity; interruption | break before make, bounded waiting, latched recovery | `PowerTransferController`, `PowerTransfer`, `Changeover` |
| Generator controller `generator_controller.py` | phase, deadline, choke used, start temperature | `observe`, `plan`, `step_authorized_shutdown`, `reset_if_safe` | commands lost after the phase moved on; cancelled starts | choke open under load, full cooldown, no wait without timeout | `GeneratorController`, `GeneratorEngine` |
| Energy supervisor `energy_supervisor.py` | phase, session, requests, grid timer, recovery | `step`, `recovery_step`, requests | arbitration of manual, outage, cycle and exercise requests | a session is entered and left in order, fallback once | `EnergySupervisor`, `Supervision` |
| UPS run `ups_run.py` | cycle of runs and waits on battery | `step`, `begin_post_cycle_wait` | stale battery readings, grid returning mid-cycle | the battery is never left without a decision | `UPSRun`, `Strategies` |
| Exercise scheduler `exercise_scheduler.py` | weekly exercise, warnings, attempt | `step`, `confirm_warning`, handoffs | awaits inside a tick | one owner of an engine at any time | `ExerciseScheduler`, `Strategies` |
| Load manager `load_manager.py` | what was shed, pending command, measurement, retries | `step`, `report_execution_failure` | partial failures, commands confirmed later | what was shed is restored, and only that | `LoadManager`, `Loads` |
| Run history, monitor `generator_run_*.py` | runs that were observed | `observe`, `step` | gaps | no run counted twice | not modelled |
| State store `state_store.py` | JSON file | `restore`, `save_app_state` | crash with commands pending | a restart does not continue blindly | the `Restart` actions |
| Adapter `ha_adapter.py` | snapshot, interlocks, publisher | `snapshot`, `execute_actions`, `execute_load_actions` | readings change between plan and command | refuses what is unsafe on the readings of the moment | `PowerTransfer`, `GeneratorEngine`, `Loads` |
| Client `ha_client.py` | socket, pending requests | `connect`, `call_service` | timeouts, disconnections | every call returns or fails | not modelled |

Interaction is by calls inside the tick; concurrency enters at the `await`s
(readings change, user commands arrive, the connection breaks, the process dies)
and through the plant.  A broken connection (`_record_interrupted_connection`)
and an exception of the tick are the same event: the loop reconnects and goes on
with the controllers as they stood.

## 2. The modules

Each class of the program is a module of operators on a record that holds its
fields; a second module puts it into its surroundings and has the variables, the
actions and the properties.

    EnergyDomain
      GeneratorBus ................................ GeneratorBusProofs
      PowerTransferController -> PowerTransfer ..... PowerTransferProofs
                Changeover <- implemented by it .... ChangeoverProofs
      GeneratorController -> GeneratorEngine ....... GeneratorEngineProofs
      EnergySupervisor ............................. EnergySupervisorProofs
        -> Supervision ............................. SupervisionProofs
      EnergySupervisor, House, UPSRun, ExerciseScheduler
        -> Strategies .............................. StrategiesProofs
      LoadManager -> Loads ......................... LoadsProofs

**`EnergyDomain`** (`domain.py`): sources, paths, grid states and readings.
Python's `None` is `"unknown"`.

**`GeneratorBus`** (`generator_bus.py`, `_apply_bus_model`): the plant is a set of
running engines and the one whose contactor is in (external, from the comments
and `docs/PHYSICAL_POWER_TOPOLOGY_RU.md`).  `Tick` is `update` on complete
readings, `UnknownTick` on incomplete ones, `Gap` the interrupted connection or
the restart (`from_dict` restores nothing of the owner).  The constant
`FlickerFree` says that an engine changes at most once between two ticks: an
owner that stops and starts again between two samples, while the other engine
takes the bus over, cannot be told from one that ran on.

**`PowerTransferController`** (`power_transfer.py`): the class as operators on a
record `t` and an observation `o`: `Observe`, `Planned`/`AfterPlan`,
`StepRecovery`, `BeginRecovery`, `RequestReset`, `MarkInterrupted`.
**`PowerTransfer`** composes it with the tick, the pending command, the adapter's
interlock, the readings and the recovery reset.  One tick is one of
`NormalTick`, `ResetRequestTick`, `ResetBlockedTick`, `ResetDriveTick`,
`ResetFinishTick`, each beginning with `Observe`, as `_tick` does.  Between the
plan and `Execute`/`Refuse` everything else may happen.

**`Changeover`** is what the transfer promises, without timers, readings and
contactors: throws are ordered one at a time, nothing is connected unless the
house is taken to be isolated, and a transfer that was given up is taken up again
by a reset and nothing else.  `PowerTransfer` implements it
(`ImplementsChangeover`): `position` is the path of the controller, `stage` and
`step` are read off its phase (`Stage`, `Step`), `throw` is the pending command,
`resetting` is a reset asked for or under way.

**`GeneratorController`** (`generator_controller.py`): the class as operators on a
record `g`, one `Plan...` operator per phase.  **`GeneratorEngine`** composes it
with the tick (`PlanTick`, `ShutdownTick`, `RecoveryTick`), the list of pending
commands, the adapter's interlock, the readings and the choke, which no sensor
shows.  History variables: `chokeForgotten`, `restFor`.

**`EnergySupervisor`** (`energy_supervisor.py`): the class as operators on a record
`s`, one per method or branch; `Step` and `RecoveryStep` are `step` and
`recovery_step`.  An observation `o` is a `SupervisorObservation`, the intents `c`
are the keyword arguments of `step`.  Times are the ticks that have passed since
`grid_failed_since` and `grid_ready_since`.  **`Supervision`** puts it into its
application: the requests of the user, `NormalTick` and `ResetTick` (the two ways
through `_tick`), `Disconnect`, `Restart`.  A tick observes any member of
`Observations`; `ShutdownMayFail` is an error of `step_authorized_shutdown`, which
main.py turns into recovery.  In a `ResetTick` driving the contactors, stopping
the engines and the last look may each fail.  `DiscardRequests` is a command that
arrives while a required state is unknown.  Left out: events and texts,
`_cycle_stop_requested` (set, used and cleared in one call) and a state file that
cannot be read.  History variables: `userWord`, the command in force; `owes`, an
isolation to undo; `acquired`, where the session's engine came from; `gap`,
whether the time since `grid_ready_since` holds an observation that was not
ready, or a lost connection.

**`UPSRun`** (`ups_run.py`): the class as operators on a record `u`.  The battery is
what the thresholds tell apart, or unknown; `config` is one of the configurations
the user can set, `valid` tells thresholds that contradict each other.
**`ExerciseScheduler`** (`exercise_scheduler.py`): the same with a record `x`: per
generator the start minute, whether an exercise is due, warnings and the last
handled day; one `attempt`.  The clock is a minute of a short day.
**`House`** is what these two and the supervisor have below them, as little as
their decisions tell apart: engines at rest, cranking, turning, coasting or
failed, the two main contactors, the owner of the bus.  Each of the three has a
detailed module of its own; here it is open how long anything takes.
**`Strategies`** composes all of them in the order of `_tick`: scheduler, warnings
(which may not be delivered), UPS run, supervisor, the directives back to the
strategies, the orders to engines and contactors.  Between ticks engines and
contactors move or fail, the grid comes and goes, minutes pass, exercises fall
due, the connection breaks, or the program starts anew from its file under
another configuration.  History variables: `maintained`, `notice`, `uninvited`,
`owed`, explained at the head of the module.

**`LoadManager`** (`load_manager.py`): the class as operators on a record `m`.  Powers
are ranked by the thresholds they are compared with.  **`Loads`** composes it with
the tick that awaits its one command, the two switches, the user who throws them
too, the meter with frozen samples, the moves of the house and restarts.  A call
that returns, fails, times out or dies with the program may have been obeyed or
not.  History variables: `own`, the groups that went off on an order of the program
and that it has not seen on since; `coolFor` and `steady`, explained there.

What a module does not contain it takes as any input: the transfer does not know
the supervisor, so it is wanted anywhere at any tick; the engine does not know
the bus, so its load reading changes at will; the supervisor of `Supervision` sees
a new house every tick.  Properties checked there hold for every behaviour of the
missing part, at the price of some behaviours the whole program does not have.
`Strategies` and `Loads` do have a house with a memory, because a strategy that is
fed arbitrary readings has no property worth stating.

## 3. The runs

| Run | Question | Result |
|---|---|---|
| `bus` | Is the reconstructed owner right over starts, stops, takeovers, gaps? | holds |
| `transfer` | Does the transfer implement `Changeover`, plan only what the interlock allows, step by step, with a clock for each step; do lost topologies and commanded steps end, but for a step that is forgotten? | holds |
| `transfer_steps_time_out` | TC-CORE-20: every step that is not confirmed times out | violated |
| `transfer_reset_ends` | REQ-RECOVERY-02: an accepted reset ends | violated |
| `engine` | Choke, cooldown and faults with lost commands; is every start, stop and shutdown decided? | holds |
| `supervision` | One engine at a time, none seized, one fallback, no hasty return, nothing forgotten of a user's stop, over failures, resets, disconnections and restarts | holds |
| `supervision_reset_gap` | REQ-GRID-05 when a tick serves a reset | violated |
| `charge_cycle` | Whose session is the cycle's, who begins the wait; is every outage answered and every isolation undone? | holds |
| `charge_cycle_gap` | Is a house without a session brought back to a grid that is there for good? | violated |
| `exercises` | Has a running engine always somebody who stops it; is a session's engine left alone; are warnings and presence respected; does an exercise end, with the grid there and in an outage? | holds |
| `loads` | Is only given back what was taken, all of it, not too soon, and on a generator only after a measurement; does the transfer wait only for a while; is an overload answered, a retry served? | holds |
| `loads_overload` | REQ-LOAD-30: group after group is taken off while the load is too high | violated |

Every property of a passing run has a defect (`PROJECT.json` "mutants", operators
commented `Mutant:`) that makes the run fail.

**Bounds.**  Time is counted in ticks of the control loop, and a timeout of two
ticks has all its cases: not elapsed, about to, elapsed.  Two engines and two load
groups are the installation.

- `transfer`: one reading may become unknown (`houseOnGenerator`), the one that
  takes part in every decision; `ConfirmTimeout` is 2.
- `engine`: two temperature bands, one that needs the choke, which is all
  `GeneratorProfile` tells apart; timeouts of two ticks and a cooldown of three, so
  that the cooldown can also be cut in the middle.
- `supervision`: the delays are one tick, begun and elapsed (two in
  `supervision_reset_gap`, where the loss has to fall between).  Observations are
  the combinations a sound house shows (`MCSound`: the owner runs, the engines run
  for the outage or not), with a transfer fault, an emergency stop and a lost grid
  reading added one each.  A is the primary engine, and the code treats the two
  alike; B stands still while A starts or the contactors move, and a foreign B
  does not run beside a ready A.  There are no intents: the real ones come in
  `Strategies`.
- `charge_cycle`, `exercises`: one engine enabled, A; the fallback belongs to
  `supervision`.  Delays of one tick.  `charge_cycle` varies the configuration
  (cycle only, Delayed Start only; none with contradicting thresholds, see 4) at
  every restart, has unknown grid readings, a disabled automatic and commands of
  the user.  `exercises` has a day of three
  minutes with a lead of one, so that a warning goes out before midnight for a
  start after it; the start minute changes at restarts between 0 and 2; engine A
  may fail; the supervisor has no delays and the user is silent, as both are part
  of `charge_cycle`.  In both the surroundings settle with the grid there and in an
  outage that stays, so that an exercise has to end by itself as well as under a
  session; `charge_cycle_gap` settles with the grid.
- `loads`: every limit but the retry interval is one tick, begun and elapsed; the
  interval is three, the stream is stale after three.  The house is on the grid,
  prepares, is on engine A, or nobody knows; the power is below the threshold or
  above the maximum; the meter freezes, commands are forbidden at any tick, the
  user throws G2, the reading of G1 gets lost, and restarts switch load management
  off and on.  A second engine, a house between two paths and the powers between
  the thresholds are left to the theorems of `LoadsProofs`, which hold for every
  choice of these constants.  `loads_overload` has a retry interval of six, so that
  a retry falls due inside a window.

Nothing else is bounded: the state spaces are finite.

**Fairness.**  `WF(Tick)`: `run` ticks once a second while the connection is up,
and reconnects for ever.  `WF(Execute \/ Refuse)`, `WF(CallReturns \/ CallFails)`: an
awaited call returns, fails or times out after 15 s (`ha_client.py:181`).  Nothing
is assumed of the plant, the user or the connection in `PowerTransfer` and
`GeneratorEngine`; `PlantSettles` and `Excused` name what a liveness property needs
of them.  In `Strategies` and `Loads` the surroundings may come to rest (`settled`),
with the grid there or gone for good, with a load that is low or high; only from
then on ticks are fair, and engines and contactors obey, and only from then on
something is asked.  `beat` turns with every tick of a settled house, so that a
tick never is a stutter step and fairness cannot wait for the reading that helps.

## 4. Disagreements

Shown by a run:

1. **A step can be under way for ever** (`power_transfer.py:315`, run
   `transfer_steps_time_out`).  A step confirmed with an unclear topology loses its
   deadline; if the confirmation then goes away, `observe` returns before the clock
   of lost feedback, on every tick.  The comment there and TC-CORE-20 promise the
   common timeout.  `CommandedStepEnds`, a part of `WaitsEnd`, excuses this step and
   no other (`Forgotten`); `StepIsTimed` says of the fields of the controller that
   one of the two clocks is set, not that it is looked at.
2. **A reset with a stuck contactor never ends** (`power_transfer.py:345`, run
   `transfer_reset_ends`).  `_tick` observes before it recovers; `observe` finds the
   deadline and moves the phase to `RECOVERY_REQUIRED`, so
   `step_recovery_to_grid_path` never sees a timed-out step and commands it again,
   without an error, once per confirmation timeout.  REQ-RECOVERY-02 and TC-CORE-26
   promise an error.
3. **A tick that serves a reset does not see the grid** (`main.py:277`, run
   `supervision_reset_gap`).  Only `step` restarts the stable time; a grid lost on a
   tick that answers or drives a reset, even a refused one, counts as ready
   throughout, against REQ-GRID-05.
4. **A house isolated by the charge cycle may stay isolated**
   (`energy_supervisor.py:560`, run `charge_cycle_gap`).  The wait that carries the
   obligation to give the grid back begins only if the grid is absent at the tick
   that sees the engine stopped.  If the grid is back by then but not yet stable,
   the session ends without that wait, and nothing asks for the grid any more.  The
   comment at `ups_run.py:158` says that the obligation is kept.  `OwedReturnEnds`
   shows that wherever it is taken on it is met.
5. **A retry in an overload stops the shedding** (`load_manager.py:515`, run
   `loads_overload`).  A retry that is due while the power is too high opens a
   window, which ends above the nominal power, restarts the overload timers and
   leaves the retry due, so the next tick opens another one; no further group is
   taken off, against REQ-LOAD-25 and REQ-LOAD-30.

Found while modelling, and reproduced by the modules, without a run of their own:

- **A lost press leaves an engine choked** (`generator_controller.py:266`).  The
  phase moves on before the press is carried out, and no reading shows the choke; a
  press that is refused, lost or cut off is not repeated.  `ReadyMeansChokeOpen`
  excuses exactly an engine whose choke was forgotten so (`chokeForgotten`): it says
  that every way through and out of a cold start orders the choke open, not that
  the order arrives.
- **A manual start may leave the automatic start suppressed**
  (`energy_supervisor.py:1020`).  Taking over a session that a manual stop was ending
  does not clear `automatic_start_suppressed_until_grid`; after a reset in the same
  outage nothing starts, against REQ-BEH-14.
- **Contradicting thresholds hide an obligation** (`ups_run.py:147`).  `step` returns
  on an invalid configuration before it looks at the isolation that a cycle has
  left, against REQ-CYCLE-03.  `Valid` is the premise of `OwedReturnEnds`.
- **An exercise may start late** (`exercise_scheduler.py:549`).  An attempt that has
  begun is not bound to its start time any more: after a long lost connection, or
  behind a choke that takes its time, only presence is looked at again
  (REQ-EXERCISE-03, REQ-EXERCISE-09).
- **Load manager.**  A first measurement with a peak above the nominal power sets no
  retry (REQ-LOAD-20, REQ-LOAD-34).  The retry counts the sample on show a second
  time and takes a gap before it for mended (REQ-LOAD-15, REQ-LOAD-18): samples of a
  measurement may lie almost twice the stale time apart, which is the `Freshness`
  that `AdmissionIsMeasured` allows them.  A manager that is switched off does not
  notice that the user has turned a group on (REQ-LOAD-08, REQ-LOAD-42).  An
  unconfirmed ON is repeated without a retry interval (REQ-LOAD-33).
- **A pause cuts a measurement short** (`load_manager.py:193`).  A tick on which
  commands are forbidden drops the window, the awaited command and the measurement
  due after it, keeps `_last_owner`, and sets STABLE; when commands are allowed
  again nothing is measured anew, and an overload of
  `maximum_overload_confirmation_time`, shorter than the stabilization, takes a
  group off, against REQ-LOAD-14 and REQ-LOAD-30.  No group is admitted so: the
  window is gone, and only a new one admits (`AdmissionIsMeasured`, with pauses).
- **A command that outlives a transfer leaves its engine behind**
  (`load_manager.py:188`).  While a command is awaited, `step` returns before it
  clears `_last_owner`, and so does a tick that prepares a transfer.  If the house
  goes to the grid with a command awaited, and this ends on a tick that prepares the
  way back to the same engine, that engine counts as the one already measured: the
  phase goes from `LOAD_SHEDDING` to `STABLE`, and an overload shorter than the
  stabilization takes a group off, against REQ-LOAD-14 and REQ-LOAD-30.  An admission
  needs a new window here too.
- **A measurement ends the retry interval** (`load_manager.py:586`).  A window that
  finds nothing owed, because the user has taken everything back or the only
  command has failed, clears `next_restore_retry`; a group that the next transfer
  takes off again is then tried at once.  `NoHastyRestore` ends the interval there
  too (`NothingOwed`); it did not before, and the proof attempt showed why it does
  not hold so for intervals longer than those the run had.

## 5. Proofs

`GeneratorBusProofs`, `PowerTransferProofs`, `ChangeoverProofs`,
`GeneratorEngineProofs`, `SupervisionProofs`, `LoadsProofs` and `StrategiesProofs`
prove, for every value of the constants, the type invariants and the safety
properties of the runs `bus`, `transfer`, `engine`, `supervision`, `loads`,
`charge_cycle` and `exercises`.  The only assumptions are those on the constants,
stated beside them; no theorem has a premise on the behaviour.

- *Bus.*  `OwnerSound` alone is not inductive: between ticks the contactor moves
  before the tracker can know.  The invariant says what the last sample and
  `changed` tell of the engines now: engines that did not change run as they did,
  the owner's contactor is in unless it stopped, and an engine that took over was
  the lone other one.  `OwnerRestsOnHistory`: a named owner implies a history.
- *Transfer.*  `ControllerConsistent` is inductive together with the
  initialisation and clock facts that `observe` establishes (`TransferInv`); the
  action properties follow from it and a lemma per operator of the controller.
  `RecoveryPlansNothing` and `RecoveryLatched` say that a controller in recovery
  commands nothing and leaves it by a reset or a restart only.  `OneStepAtATime`
  needs that a step under way belongs to an initialised controller (`Started`):
  then one that is neither confirmed nor out of time is left as it is, unless both
  branches read closed, which is recovery (`UnconfirmedWaits`).
- *Changeover.*  `TransferImplementsChangeover` is the refinement.  Its invariant adds to
  `TransferInv` that a controller has left its first phase exactly when it has looked
  at the house.  `Later` says what observing may make of a controller before it
  plans; with it every kind of tick is a `Look` or an `Order`, everything else a
  stutter.  The one subtle case is a connection planned right after another:
  observing ends a connection only when it is confirmed, and a house whose
  connection is confirmed is not isolated, so the next one is not the same.
- *Engine.*  The invariant adds where the choke can be in every phase and with
  every pending list, and that in a cooldown the remaining deadline and
  `restFor` together cover the cooldown.  `WaitingHasADeadline`: every phase that
  waits has one.

- *Supervisor.*  `EnergySupervisorProofs` says of every operator, for every
  observation and intent, what it may make of a session.  `Kept`: at most the engine
  of the session is desired, none without a session, and the cycle owns no session
  of the user.  `Goes` is what a step of a session may do: keep its engine or move
  to the other one, once, which was at rest; it is transitive, so the branches are
  put together from elementary updates.  `StopHeeded`, `StartHeeded` and
  `Conducted` say the same of the commands of the user, the debt of an isolation
  and the return.  They meet in `Steps` (an ordinary step) and `Carries` (reset, lost
  connection, restart), on which `SupervisionProofs` builds: its invariant ties the
  histories to the supervisor (`userWord` to the suppressed start and the stop of
  the session, `owes` to `grid_restore_pending`, `acquired` and `orders` to the
  session, `gap` to a timer that runs), and all six properties of the run follow.
- *Loads.*  Every branch of `step` ends in `Decides`: a command on only for a group
  that is owed, off only for one that is seen on, an admission only when its time
  has come, and the next try never brought forward but on the grid or when nothing
  is owed.  `Steps` adds the accounts: a debt is won by a confirmed command and lost
  by the sight of the group on.  `RestoreOnlyOwn` needs to know where a debt will
  come from before it is one, so `DebtInvariant` says that a group ordered off is
  not owed yet (`Orderly`) and is still on or went off on that order, besides that
  all that is owed is the program's, and that the next try is never nearer than
  the end of `coolFor`.  `AdmissionIsMeasured` relates what the manager takes for a
  measurement to what the meter has shown (`steady`).  `MeasuredInvariant`: a window under
  way whose peak is below the threshold is one of the engine on the bus, and is no
  older, and has counted no more, than the history (`Backed`); and a gap the history
  has is one the manager has seen or will see (`Unbroken`, up to the `Grace` that a
  gap judged before its sample, and a retry, leave it), without which the next
  sample would be counted here and not there.  A window whose peak is above the
  threshold admits nothing, so nothing is asked of it.  `OnGeneratorBacked` says
  that every branch of a step on a generator keeps this, given what the tick
  brings (`Brings`), and that a command on comes only from a complete window
  (`Ripe`); a tick anywhere else, or without leave to command, leaves no window and
  no history, and a command awaited leaves no window (`~Active`).
- *Strategies.*  The supervisor gives two lemmas more: `StepCycle`, a cycle that owns
  a session owns one of an outage, and ends it before its wait begins; `StepDirects`,
  what a tick tells the scheduler (`Tells`) holds at its end.  The other parts are
  proved like it, one lemma per method: `UPSStepDecides` (the wait never begins by
  itself), `Continues` and `StepsAttempt` (what is left of an attempt), `Advances` (the
  scheduler of a whole tick, with its warnings).  The invariant says what a tick
  relies on and no field shows: an attempt that is starting has not had its engine
  at work (`StartIsFresh`) and is that of an enabled exercise (`AttemptIsExercised`);
  a maintained engine is the attempt's and moves (`MaintainedMoves`), so that an
  attempt given up because its engine is at rest leaves none behind; an attempt
  beside a session, unless in recovery, is stopping, its engine does not move and is
  not told to run, and it only waits to see that (`AttemptIsOver`), from which
  `SessionEngineIsKept` follows; a warning on record is as old as its day and the
  time of day allow (`WarningsAreDated`), for midnight makes that of tomorrow one of
  today and drops that of today.

Model-checked only are the liveness properties (`WaitsEnd`, `OrdersSettle`, `PretransferEnds`,
`GridGivesBack`, `FirstOverloadIsAnswered`, `RetryIsServed`, `OwedReturnEnds`,
`OutageIsAnswered`, `ExerciseEnds`), which the provers cannot reach.  Every invariant
and every action property of a passing run is stated by a theorem.

## 6. Not modelled, and the plan

Not modelled, and why:

- `generator_run_history.py`, `generator_run_monitor.py`: an account for the operator.
  Its one effect on control, the date of the last long run from which an exercise
  counts, is the event `DueChanges` of `Strategies`.
- `ha_client.py`: network I/O; the modules have what it does to its callers.  A call
  to a contactor that Home Assistant obeys after it has timed out, a silent link
  that still looks alive, and jumps of the wall clock are not in them.
- `operator_status.py`, `physical_event_log.py`, `user_messages*.py`, the latest-wins
  publisher of the adapter: projections and wording.
- The state file itself: writing it, the journal of pending commands beyond its
  effect (a restart into recovery or not), and a file that cannot be read.
- A start of the program in recovery mode, and a change of the add-on's options
  while an engine is in use.

Order of the work to come:

1. An abstract session (idle, supplying, returning, recovery) that `Supervision`
   implements.
2. The journal with late executed calls, and the run history.
