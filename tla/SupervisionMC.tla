----------------------------- MODULE SupervisionMC -----------------------------
(* TLC instances of Supervision: the observations and intents of the runs.   *)
EXTENDS Supervision

MCEngine(running, remote, failed, ready) ==
  [running |-> running, remote |-> remote, failed |-> failed, ready |-> ready]

MCEngines ==
  [stopped |-> MCEngine("no", "no", FALSE, FALSE),
   starting |-> MCEngine("no", "yes", FALSE, FALSE),
   ready |-> MCEngine("yes", "yes", FALSE, TRUE),
   external |-> MCEngine("yes", "no", FALSE, FALSE),
   failed |-> MCEngine("no", "no", TRUE, FALSE),
   lost |-> MCEngine("unknown", "no", FALSE, FALSE)]

MCPower(path, source, busy) == [path |-> path, source |-> source, busy |-> busy]

\* Where the house is while the transfer controller is sound.
MCPowers(grid) ==
  {MCPower("grid", IF grid = "no" THEN "ups_only" ELSE "grid", FALSE),
   MCPower("isolated", "ups_only", FALSE),
   MCPower("generator", "generator", TRUE),
   MCPower("generator", "generator", FALSE)}

MCObservation(grid, emergency, fault, power, a, b, owner, outage) ==
  [grid |-> grid, automatic |-> TRUE, emergency |-> emergency,
   inputsKnown |-> TRUE, path |-> power.path, source |-> power.source,
   busy |-> power.busy, transferFault |-> fault,
   generators |-> [A |-> MCEngines[a], B |-> MCEngines[b]],
   owner |-> owner, outage |-> outage, primary |-> "A"]

MCRuns(a, b) ==
  {g \in GeneratorSlot : MCEngines[IF g = "A" THEN a ELSE b].running = "yes"}

\* The owner is one of the running engines; with two it may be unknown.
MCOwners(a, b) ==
  IF MCRuns(a, b) = {} THEN {"none"}
  ELSE MCRuns(a, b) \cup (IF MCRuns(a, b) = GeneratorSlot THEN {"unknown"} ELSE {})

\* Runs for an outage matter when the grid is back: all that run, or none.
MCSound(grids, as, bs) ==
  {MCObservation(x.grid, "no", FALSE, x.power, x.a, x.b, x.owner, x.outage) :
     x \in {y \in [grid : grids, power : UNION {MCPowers(g) : g \in grids},
                   a : as, b : bs, owner : {"A", "B", "none", "unknown"},
                   outage : SUBSET GeneratorSlot] :
              /\ y.power \in MCPowers(y.grid)
              /\ y.owner \in MCOwners(y.a, y.b)
              /\ y.outage \in IF y.grid = "yes" THEN {{}, MCRuns(y.a, y.b)}
                              ELSE {MCRuns(y.a, y.b)}}}

MCTransferFault ==
  MCObservation("no", "no", TRUE, MCPower("unknown", "unknown", FALSE),
                "ready", "stopped", "A", {})

MCEmergency ==
  MCObservation("yes", "yes", FALSE, MCPower("grid", "grid", FALSE),
                "stopped", "stopped", "none", {})

MCGridLost ==
  MCObservation("unknown", "no", FALSE, MCPower("generator", "generator", FALSE),
                "ready", "stopped", "A", {"A"})

MCUnsound == {MCTransferFault, MCEmergency, MCGridLost}

\* Failures, fallbacks and engines that EnergyATS does not manage; only of a
\* foreign engine it is open why it runs, and it does not run beside A; B is at
\* rest while A starts or the contactors move.  The set of a run is a definition
\* of its own so that TLC evaluates it once.
MCCore ==
  {o \in MCSound({"yes", "no"}, {"stopped", "starting", "ready", "failed"},
                 {"stopped", "ready", "external"}) :
     LET a == o.generators["A"]
         b == o.generators["B"]
     IN /\ a = MCEngines.starting \/ o.busy => b = MCEngines.stopped
        /\ b = MCEngines.external => a # MCEngines.ready
        /\ b = MCEngines.external \/ o.outage = {g \in GeneratorSlot : Running(o, g)}}
    \cup MCUnsound

MCCoreObservations == MCCore

\* What leads into recovery and out of it; B never gets ready.
MCLatched ==
  {o \in MCSound({"yes", "no"}, {"stopped", "ready", "failed"}, {"stopped"}) :
     ~o.busy} \cup MCUnsound

MCLatchedObservations == MCLatched

MCNoIntents == {NoIntents}

MCEveryCommand == {"start_generator", "stop_generator", "reset"}
===============================================================================
