--------------------------------- MODULE UPSRun ---------------------------------
(***************************************************************************)
(* The class UPSRun (ups_run.py) as operators on the record u of its       *)
(* attributes: how long the house may stay on the UPS in an outage instead *)
(* of starting a generator (Delayed Start), and when a session that it     *)
(* owns has charged the battery enough to be ended (Charge Cycling).  It   *)
(* commands nothing; what it intends goes to the supervisor of the same    *)
(* tick.                                                                   *)
(*                                                                         *)
(* The battery is what the thresholds tell apart: "bad" is a charge that   *)
(* is missing, out of range or stale, "low" is at or below start_soc,      *)
(* "full" at or above target_soc.  waitedFor counts the ticks since        *)
(* waiting_since.  state, last_reason and the events, which no decision    *)
(* reads, are left out.                                                    *)
(***************************************************************************)
EXTENDS EnergySupervisor

CONSTANT MaxDelay   \* max_start_delay, in ticks

ASSUME MaxDelayAssumption == MaxDelay \in Nat

Battery == {"bad", "low", "mid", "full"}

\* UPSRunConfig; valid is "no validation_error".
Config == [delayed : BOOLEAN, cycle : BOOLEAN, valid : BOOLEAN]

\* The attributes of a UPS run.
Strategy ==
  [config : Config, waitedFor : NoTimer..MaxDelay, postCycleWait : BOOLEAN]

NewStrategy(config) ==
  [config |-> config, waitedFor |-> NoTimer, postCycleWait |-> FALSE]

\* UPSRunObservation
UPSRunObservation ==
  [grid : Tri, automatic : BOOLEAN, coreDelayElapsed : BOOLEAN, soc : Battery,
   reason : {"grid_outage", "manual_generator_start", Nobody},
   onGenerator : BOOLEAN, cycleOwned : BOOLEAN, manualOverride : BOOLEAN,
   startPending : BOOLEAN, gridStable : BOOLEAN, supplyRestored : BOOLEAN]

SessionActive(o) == o.reason # Nobody

SwitchedOn(u) == u.config.delayed \/ u.config.cycle

\* A tick of time passes.
ElapseWait(u) ==
  [u EXCEPT !.waitedFor = IF @ \in 0..(MaxDelay - 1) THEN @ + 1 ELSE @]

ResetWait(u) == [u EXCEPT !.waitedFor = NoTimer]

\* begin_post_cycle_wait
BeginPostCycleWait(u) == [u EXCEPT !.postCycleWait = TRUE, !.waitedFor = 0]

\* from_dict of to_dict, under the configuration of the new start.
Reloaded(u, config) == [u EXCEPT !.config = config]

\* A UPSRunDecision, and the UPS run that has made it.
Decide(u, intents) == [u |-> u, intents |-> intents]

-------------------------------------------------------------------------------
(***************************************************************************)
(* No session: wait on the battery, or let the supervisor start.           *)
(***************************************************************************)

\* Mutant: a good battery makes the wait endless.
HoldsOutForever(u, o) == o.soc \notin {"bad", "low"}

\* The battery is known to be good for a longer wait.
HoldsOut(u, o) == o.soc \notin {"bad", "low"} /\ u.waitedFor < MaxDelay

\* _without_session: the own wait begins with the end of the failure delay, or
\* goes on from before a restart.
UPSWithoutSession(u, o) ==
  LET w == IF u.waitedFor = NoTimer THEN [u EXCEPT !.waitedFor = 0] ELSE u
      start == [NoIntents EXCEPT !.delaySatisfied = TRUE, !.claim = u.config.cycle]
      wait == [NoIntents EXCEPT !.delaySatisfied = TRUE, !.defer = TRUE]
      mayWait == u.config.delayed \/ u.postCycleWait
  IN CASE o.startPending -> Decide(u, NoIntents)
       [] ~o.startPending /\ u.waitedFor = NoTimer /\ ~o.coreDelayElapsed ->
            Decide(u, NoIntents)
       [] OTHER -> Decide(w, IF mayWait /\ HoldsOut(w, o) THEN wait ELSE start)

-------------------------------------------------------------------------------
(***************************************************************************)
(* A session, and the whole step.                                          *)
(***************************************************************************)

\* _with_session: the session is the cycle's own, supplies the house, and the
\* battery is known to be charged.
TargetReached(u, o) ==
  /\ ~o.startPending
  /\ o.reason = "grid_outage"
  /\ u.config.cycle /\ o.cycleOwned /\ ~o.manualOverride
  /\ o.onGenerator
  /\ o.soc = "full"

\* Mutant: the grid being there is taken for the house being on it.
UPSOnGridSatisfied(u, o) ==
  LET owed == u.postCycleWait /\ ~SessionActive(o)
  IN IF ~o.gridStable
     THEN Decide(u, [NoIntents EXCEPT !.restoreGrid = owed])
     ELSE Decide([ResetWait(u) EXCEPT !.postCycleWait = FALSE], NoIntents)

\* The grid is there: an isolation of the cycle's own is to be undone, and a
\* short return of the grid does not end the wait on the battery.
UPSOnGrid(u, o) ==
  LET owed == u.postCycleWait /\ ~SessionActive(o)
  IN IF ~o.gridStable \/ (owed /\ ~o.supplyRestored)
     THEN Decide(u, [NoIntents EXCEPT !.restoreGrid = owed])
     ELSE Decide([ResetWait(u) EXCEPT !.postCycleWait = FALSE], NoIntents)

\* step
UPSStep(u, o) ==
  LET misconfigured == SwitchedOn(u) /\ ~u.config.valid
      idle == ~SwitchedOn(u) \/ ~o.automatic
      served == [ResetWait(u) EXCEPT !.postCycleWait = FALSE]
  IN CASE misconfigured -> Decide(u, NoIntents)
       [] ~misconfigured /\ o.grid = "yes" -> UPSOnGrid(u, o)
       [] ~misconfigured /\ o.grid = "unknown" -> Decide(u, NoIntents)
       [] ~misconfigured /\ o.grid = "no" /\ idle -> Decide(ResetWait(u), NoIntents)
       [] ~misconfigured /\ o.grid = "no" /\ ~idle /\ SessionActive(o) ->
            Decide(served,
                   [NoIntents EXCEPT !.cycleStop = TargetReached(u, o)])
       [] OTHER -> UPSWithoutSession(u, o)
===============================================================================
