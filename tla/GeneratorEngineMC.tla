--------------------------- MODULE GeneratorEngineMC ---------------------------
(* TLC instance of GeneratorEngine: a band that starts without the choke and *)
(* one, the unknown temperature, that needs it and the longest warm-up.      *)
EXTENDS GeneratorEngine

MCTemperatures == {"warm", "unknown"}
MCClosesChoke == {"unknown"}
MCWarmup == [warm |-> 1, unknown |-> 2]
===============================================================================
