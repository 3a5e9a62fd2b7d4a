--------------------------- MODULE MCInitProgram ---------------------------
(* The deployments of the LocalStack init program, for TLC.                *)
EXTENDS InitProgram
AllConfs   == [onDemand : BOOLEAN, hotReload : BOOLEAN]
ReloadConf == {[onDemand |-> TRUE, hotReload |-> TRUE]}
=============================================================================
