------------------------------- MODULE Changeover -------------------------------
(***************************************************************************)
(* What the transfer of the house promises, whatever its contactors, its   *)
(* timers and its readings do: one throw of a contactor at a time, nothing *)
(* is connected unless the house is taken to be isolated, and a transfer   *)
(* that has been given up is taken up again by a reset and by nothing      *)
(* else.  PowerTransfer implements it.                                     *)
(***************************************************************************)
EXTENDS EnergyDomain

VARIABLES
  position,   \* where the house is taken to be
  stage,      \* how far the transfer is
  step,       \* the throw that a moving transfer is about
  throw,      \* the throw that has been ordered and not yet answered
  resetting   \* a reset is under way

vars == <<position, stage, step, throw, resetting>>

Makes == {"select_generator", "connect_grid"}
Breaks == {"disconnect_grid", "deselect_generator"}

Init ==
  /\ position = "unknown"
  /\ stage = "waiting"
  /\ step = "nothing" /\ throw = "nothing"
  /\ resetting = FALSE

Becomes(nextStage) ==
  /\ stage' = nextStage
  /\ step' = IF nextStage = "moving" THEN step ELSE "nothing"

AskReset ==
  /\ ~resetting
  /\ resetting' = TRUE
  /\ UNCHANGED <<position, stage, step, throw>>

\* The house is looked at: a transfer that waits may begin, one that moves may
\* come to rest, any may be given up.  One that was given up stays so, unless a
\* reset has brought the house to the grid.
Look ==
  /\ throw = "nothing"
  /\ position' \in PowerPath
  /\ \/ Becomes(stage)
     \/ Becomes("recovery")
     \/ stage \in {"waiting", "moving"} /\ Becomes("still")
     \/ resetting /\ position' = "grid" /\ Becomes("still")
  /\ resetting' \in {resetting, FALSE}
  /\ UNCHANGED throw

\* A throw is ordered, from rest or straight after another one.  Nothing is
\* connected unless the house is isolated, nor twice in a row; only a reset may
\* give up a connection and repeat it at once.
Order(c) ==
  /\ throw = "nothing"
  /\ stage = "recovery" => resetting
  /\ position' \in PowerPath
  /\ c \in Makes => position' = "isolated" /\ (step # c \/ resetting)
  /\ stage' = "moving" /\ step' = c /\ throw' = c
  /\ UNCHANGED resetting

Answer ==
  /\ throw # "nothing"
  /\ throw' = "nothing"
  /\ UNCHANGED <<position, stage, step, resetting>>

\* The connection breaks, or the interlock refuses: a moving transfer is given up.
BreakOff ==
  /\ stage = "moving"
  /\ position' = "unknown"
  /\ Becomes("recovery")
  /\ throw' = "nothing"
  /\ UNCHANGED resetting

Restart ==
  /\ position' = "unknown"
  /\ Becomes("waiting")
  /\ throw' = "nothing" /\ resetting' = FALSE

Next ==
  \/ AskReset
  \/ Look
  \/ \E c \in Makes \cup Breaks : Order(c)
  \/ Answer
  \/ BreakOff
  \/ Restart

Spec == Init /\ [][Next]_vars
===============================================================================
