-------------------------- MODULE MCModemToHostRing --------------------------
(* Values for ModemToHostRing: task priorities as created in main.c, where   *)
(* vVSPALoop (and vMibLoop) run above vRxLoop.                               *)
EXTENDS ModemToHostRing

CONSTANTS RxLoop, VSPALoop

MCPrio == [t \in Task |-> IF t = RxLoop THEN 1 ELSE 2]
==============================================================================
