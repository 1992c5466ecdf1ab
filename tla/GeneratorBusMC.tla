---------------------------- MODULE GeneratorBusMC ----------------------------
(* TLC instance of GeneratorBus: the two generators of the installation.     *)
EXTENDS GeneratorBus

CONSTANTS A, B

MCSlots == {A, B}
===============================================================================
