------------------------------ MODULE MCRficCore ------------------------------
(* Values for RficCore: the tasks that command the radio, with the priorities *)
(* of main.c (vVSPALoop above vRxLoop) and the console at that of vRxLoop.    *)
EXTENDS RficCore

CONSTANTS RxLoop, VSPALoop, Console

MCPrio == [t \in Task |-> IF t = VSPALoop THEN 2 ELSE 1]
===============================================================================
