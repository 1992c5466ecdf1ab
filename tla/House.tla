---------------------------------- MODULE House ----------------------------------
(***************************************************************************)
(* What the strategies and the supervisor have below them, as little of it *)
(* as their decisions can tell apart: the engines with their controllers,  *)
(* the two main contactors with theirs, and the bus tracker.  Each of them *)
(* has a module of its own (GeneratorController, PowerTransferController,  *)
(* GeneratorBus); here an engine is at rest, starting, at work or coasting,*)
(* and how long it takes for that is open.                                 *)
(***************************************************************************)
EXTENDS EnergySupervisor, FiniteSets

Engine == [running : BOOLEAN, remote : BOOLEAN, failed : BOOLEAN]

Motor(running, remote) == [running |-> running, remote |-> remote, failed |-> FALSE]

AtRest == Motor(FALSE, FALSE)
Cranking == Motor(FALSE, TRUE)
Turning == Motor(TRUE, TRUE)
Coasting == Motor(TRUE, FALSE)

\* The controller has latched a fault and switched REMOTE off, if that worked.
FailedStill == [AtRest EXCEPT !.failed = TRUE]
FailedRunning == [Turning EXCEPT !.failed = TRUE]

\* What a tick tells a controller: plan with desired_running or without it,
\* step_authorized_shutdown, or plan while actions are not allowed.
EngineCommand == {"run", "rest", "shutdown", "leave"}

\* How an engine reacts when it does what it is told.
Obedient(command, e) ==
  CASE command = "run" /\ ~e.failed ->
         IF e = AtRest THEN Cranking ELSE Turning
    [] command \in {"rest", "shutdown"} /\ ~e.failed ->
         IF e = Turning THEN Coasting ELSE AtRest
    [] command = "shutdown" /\ e.failed ->
         IF e.running \/ e.remote THEN FailedStill ELSE AtRest
    [] OTHER -> e

\* How else it may behave: fail to start, stop by itself, fail to stop.
Disobedient(command, e) ==
  CASE command = "run" /\ e \in {Cranking, Turning} -> {FailedStill, FailedRunning}
    [] command = "rest" /\ e = Coasting -> {FailedRunning}
    [] command = "leave" /\ e = Turning -> {Cranking}
    [] OTHER -> {}

GeneratorStatusOf(e) ==
  [running |-> Reads(e.running), remote |-> Reads(e.remote), failed |-> e.failed,
   ready |-> e = Turning]

\* The next path on the way to a source; the path itself, if there is nothing
\* to do.
NextPath(path, source, mayConnect) ==
  CASE source = "generator" ->
         IF ~mayConnect THEN path
         ELSE IF path = "grid" THEN "isolated" ELSE "generator"
    [] source = "ups_only" -> "isolated"
    [] source = "grid" -> IF path = "generator" THEN "isolated" ELSE "grid"
    [] OTHER -> path

SourceOf(path, grid) ==
  CASE path = "grid" -> IF grid = "no" THEN "ups_only" ELSE "grid"
    [] path = "isolated" -> "ups_only"
    [] path = "generator" -> "generator"

\* The bus tracker: the owner stays while it runs.
NextOwner(owner, running) ==
  CASE running = {} -> "none"
    [] owner \in running -> owner
    [] owner \notin running /\ Cardinality(running) = 1 -> CHOOSE g \in running : TRUE
    [] OTHER -> "unknown"
===============================================================================
