------------------------------ MODULE VspaReplies ------------------------------
(***************************************************************************)
(* Mailbox 0 from the VSPA to the CM4: one queue, VspaToCm4QMbox0, filled  *)
(* by the interrupt handler, and three tasks that receive from it.         *)
(*   vRficCoreTask (priority idle + 4, the highest) waits for the VSPA's   *)
(*     answer to an IQ dump or a single tone, retried for two seconds;     *)
(*   vSchedularLoop (priority idle + 3) waits for ever, for the start of a *)
(*     followed cell's time and its millisecond indications, and counts    *)
(*     these;                                                              *)
(*   vRxLoop (priority idle + 1) waits in prvSendVspaCmd for the ACK of the*)
(*     command it has sent, for VSPA_ACK_TIMEOUT_MS.  This VSPA sends none.*)
(* The kernel runs a task only while every task of a higher priority is    *)
(* blocked, and a message wakes the waiting task of the highest priority.  *)
(* All three also take the mutex of iLa9310AviHostSendMboxToVspa.          *)
(***************************************************************************)
EXTENDS Naturals, Sequences, FiniteSets, SequencesExt

CONSTANTS
    QLen,       \* VSPA_CM4_Q_LEN
    MaxInd      \* bound: indications in a behaviour

ASSUME QLenAssumption == QLen \in Nat \ {0}
ASSUME MaxIndAssumption == MaxInd \in Nat

VARIABLES
    VspaToCm4QMbox0,    \* the queue
    core, sched, rx,    \* what the three tasks do
    ind_sent, ind_lost, \* history: indications sent, and dropped on a full queue
    tti,                \* history: indications vSchedularLoop has counted
    ind_taken           \* history: those vRficCoreTask took for its answer

vars == <<VspaToCm4QMbox0, core, sched, rx, ind_sent, ind_lost, tti, ind_taken>>

TypeOK ==
    /\ VspaToCm4QMbox0 \in Seq({"MS_START", "MS_IND"}) /\ Len(VspaToCm4QMbox0) <= QLen
    /\ core \in {"idle", "receive", "blocked"}
    /\ sched \in {"blocked", "ready", "send", "mutex"}
    /\ rx \in {"idle", "sending", "receive", "blocked"}
    /\ {ind_sent, ind_lost, tti, ind_taken} \subseteq 0 .. MaxInd
    /\ sched = "mutex" => rx = "sending"

Init ==
    /\ VspaToCm4QMbox0 = <<>>
    /\ core = "idle" /\ sched = "blocked" /\ rx = "idle"
    /\ ind_sent = 0 /\ ind_lost = 0 /\ tti = 0 /\ ind_taken = 0

-------------------------------------------------------------------------------
(* The VSPA and the handler: AviHndleMboxInterrupt for VSPA_MBOX0_STATUS. *)

\* A message comes in and is put at the end of the queue; a full queue loses it.
Arrive(msg) ==
    IF Len(VspaToCm4QMbox0) < QLen
    THEN VspaToCm4QMbox0' = Append(VspaToCm4QMbox0, msg)
    ELSE UNCHANGED VspaToCm4QMbox0

\* The kernel wakes one task that waits for the queue.
Wake ==
    CASE core = "blocked"                      -> core' = "receive" /\ UNCHANGED <<sched, rx>>
      [] core # "blocked" /\ sched = "blocked" -> sched' = "ready" /\ UNCHANGED <<core, rx>>
      [] OTHER -> UNCHANGED <<core, sched>> /\ rx' = IF rx = "blocked" THEN "receive" ELSE rx

MsInd ==
    /\ ind_sent < MaxInd
    /\ ind_sent' = ind_sent + 1
    /\ ind_lost' = IF Len(VspaToCm4QMbox0) < QLen THEN ind_lost ELSE ind_lost + 1
    /\ Arrive("MS_IND") /\ Wake
    /\ UNCHANGED <<tti, ind_taken>>

\* The scan before a cell follow has found a cell: its time.
MsStart ==
    /\ Arrive("MS_START") /\ Wake
    /\ UNCHANGED <<ind_sent, ind_lost, tti, ind_taken>>

-------------------------------------------------------------------------------
(* vRficCoreTask: vRficProcessIqDump and vRficProcessSingleToneTX. *)

\* vLa9310MbxSend: a task that holds the mutex inherits the priority and finishes
\* its own send before; another that waits for the mutex has to take it again.
CoreAsk ==
    /\ core = "idle"
    /\ core' = "receive"
    /\ rx' = IF rx = "sending" THEN "receive" ELSE rx
    /\ sched' = IF sched = "mutex" THEN "send" ELSE sched
    /\ UNCHANGED <<VspaToCm4QMbox0, ind_sent, ind_lost, tti, ind_taken>>

\* vLa9310MbxReceive: the first message in the queue, an indication as well, is
\* taken for the answer.
CoreReceive ==
    /\ core = "receive"
    /\ IF VspaToCm4QMbox0 = <<>>
       THEN core' = "blocked" /\ UNCHANGED <<VspaToCm4QMbox0, ind_taken>>
       ELSE /\ core' = "idle"
            /\ VspaToCm4QMbox0' = Tail(VspaToCm4QMbox0)
            /\ ind_taken' = IF Head(VspaToCm4QMbox0) = "MS_IND" THEN ind_taken + 1 ELSE ind_taken
    /\ UNCHANGED <<sched, rx, ind_sent, ind_lost, tti>>

\* The last of the retries has timed out: "VSPA timeout".
CoreGivesUp ==
    /\ core = "blocked"
    /\ core' = "idle"
    /\ UNCHANGED <<VspaToCm4QMbox0, sched, rx, ind_sent, ind_lost, tti, ind_taken>>

\* The other tasks run while vRficCoreTask waits.
CoreWaits == core # "receive"

-------------------------------------------------------------------------------
(* vSchedularLoop. *)

\* An indication is counted and in some frames followed by a command to the
\* VSPA.
SchedReceive(sends) ==
    /\ CoreWaits /\ sched = "ready" /\ VspaToCm4QMbox0 # <<>>
    /\ VspaToCm4QMbox0' = Tail(VspaToCm4QMbox0)
    /\ tti' = IF Head(VspaToCm4QMbox0) = "MS_IND" THEN tti + 1 ELSE tti
    /\ sched' = IF sends /\ Head(VspaToCm4QMbox0) = "MS_IND" THEN "send" ELSE "ready"
    /\ UNCHANGED <<core, rx, ind_sent, ind_lost, ind_taken>>

\* A receive that times out is made again at once.
SchedBlock ==
    /\ CoreWaits /\ sched = "ready" /\ VspaToCm4QMbox0 = <<>>
    /\ sched' = "blocked"
    /\ UNCHANGED <<VspaToCm4QMbox0, core, rx, ind_sent, ind_lost, tti, ind_taken>>

\* sendMboxtoVSPA: the mutex may be with vRxLoop.
SchedSend ==
    /\ CoreWaits /\ sched = "send"
    /\ sched' = IF rx = "sending" THEN "mutex" ELSE "ready"
    /\ UNCHANGED <<VspaToCm4QMbox0, core, rx, ind_sent, ind_lost, tti, ind_taken>>

-------------------------------------------------------------------------------
(* vRxLoop in prvSendVspaCmd. *)

\* vRxLoop created with the priority of vSchedularLoop.
FaultRxMayRun == CoreWaits

\* main gives vSchedularLoop and vRficCoreTask the higher priorities.
RxMayRun == CoreWaits /\ sched \in {"blocked", "mutex"}

\* vNMMMbxSend takes the mutex.
RxSend ==
    /\ rx = "idle" /\ RxMayRun
    /\ rx' = "sending"
    /\ UNCHANGED <<VspaToCm4QMbox0, core, sched, ind_sent, ind_lost, tti, ind_taken>>

\* The mutex is given to nobody.
FaultRxSent ==
    /\ rx = "sending" /\ RxMayRun
    /\ rx' = "receive"
    /\ UNCHANGED <<VspaToCm4QMbox0, core, sched, ind_sent, ind_lost, tti, ind_taken>>

\* The command is with the VSPA; the mutex goes to vSchedularLoop if that waits.
RxSent ==
    /\ rx = "sending" /\ RxMayRun
    /\ rx' = "receive"
    /\ sched' = IF sched = "mutex" THEN "ready" ELSE sched
    /\ UNCHANGED <<VspaToCm4QMbox0, core, ind_sent, ind_lost, tti, ind_taken>>

\* vNMMMbxReceive: the first message in the queue is taken for the ACK.
RxReceive ==
    /\ rx = "receive" /\ RxMayRun
    /\ IF VspaToCm4QMbox0 = <<>>
       THEN rx' = "blocked" /\ UNCHANGED VspaToCm4QMbox0
       ELSE rx' = "idle" /\ VspaToCm4QMbox0' = Tail(VspaToCm4QMbox0)
    /\ UNCHANGED <<core, sched, ind_sent, ind_lost, tti, ind_taken>>

\* VSPA_ACK_TIMEOUT_MS have passed: the host is told NMM_STATUS_TIMEOUT.
RxTimeout ==
    /\ rx = "blocked" /\ RxMayRun
    /\ rx' = "idle"
    /\ UNCHANGED <<VspaToCm4QMbox0, core, sched, ind_sent, ind_lost, tti, ind_taken>>

Next ==
    \/ MsInd \/ MsStart
    \/ CoreAsk \/ CoreReceive \/ CoreGivesUp
    \/ \E sends \in BOOLEAN : SchedReceive(sends)
    \/ SchedBlock \/ SchedSend
    \/ RxSend \/ RxSent \/ RxReceive \/ RxTimeout

Spec == Init /\ [][Next]_vars

-------------------------------------------------------------------------------
(* Properties. *)

\* The frame count depends on it: an indication that found room is counted by
\* vSchedularLoop, is still in the queue, or was taken by vRficCoreTask for its
\* answer.  vRxLoop, which receives from the same queue and looks at no opcode
\* either, takes none of them.
TicksCounted ==
    tti + ind_lost + ind_taken
        + Cardinality({i \in 1 .. Len(VspaToCm4QMbox0) : VspaToCm4QMbox0[i] = "MS_IND"})
    = ind_sent
===============================================================================
