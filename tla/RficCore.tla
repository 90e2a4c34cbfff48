------------------------------- MODULE RficCore -------------------------------
(***************************************************************************)
(* The RFIC command engine (drivers/rfic/rfic_core.c).  Tasks post local   *)
(* commands, whose descriptors lie on their stacks; the host posts remote  *)
(* ones, one descriptor in shared memory, with an interrupt.  vRficCoreTask*)
(* waits on one event group for both and answers the local ones through a  *)
(* queue of one response.                                                  *)
(*                                                                         *)
(* vRficCoreTask has the highest priority of all; next comes the timer     *)
(* task, which sets event bits on behalf of interrupts; then the tasks that*)
(* post: vVSPALoop recalibrates the radio (prvCalRadio) while vRxLoop tunes*)
(* it (prvSetRadio, vConfigRfic).  An interrupt comes at any time.         *)
(*                                                                         *)
(* Besides the event group vRficCoreTask waits for the VSPA, in the        *)
(* commands of the host that dump samples or send a tone: for the mutex of *)
(* the mailbox and then for an answer, 200 times 10 ms.  A local call waits*)
(* for its response for 1000 ms at most, so that it may be over before its *)
(* command is looked at.  Local commands do not wait.                      *)
(***************************************************************************)
EXTENDS Naturals, Sequences, SequencesExt

CONSTANTS
    Task,       \* the tasks that post local commands
    Prio        \* their priorities, below those of the timer and core task

HOST == "host_swcmd"

ASSUME TaskAssumption == Task \cap {"wait", "vspa", HOST} = {}
ASSUME PrioAssumption == Prio \in [Task -> Nat]

VARIABLES
    xLocalQueue, xLocalRspQueue,    \* pointers to descriptors, named by their task
    xRemoteQueue,                   \* pointers to host_swcmd
    xSwCmdEvent,                    \* the event bits set
    pend,                           \* set-bit requests of the interrupt in the timer queue
    core,                           \* what vRficCoreTask does: "wait", the command it runs,
                                    \* or "vspa", waiting for the VSPA in the host's command
    pc, status, result,             \* of each task: its place in the call, its descriptor, how it ended
    host_swcmd,                     \* status of the host's descriptor
    overlap,                        \* history: tasks whose calls met another one
    delayed,                        \* history: tasks whose calls met a core that waits for the VSPA
    disturbed                       \* history: there was such a call, and none has succeeded
                                    \* since that met nothing

histories == <<overlap, delayed, disturbed>>
taskVars == <<pc, status, result, histories>>
vars == <<xLocalQueue, xLocalRspQueue, xRemoteQueue, xSwCmdEvent, pend, core, host_swcmd, taskVars>>

TypeOK ==
    /\ {xLocalQueue, xLocalRspQueue} \subseteq {<<>>} \cup {<<t>> : t \in Task}
    /\ xRemoteQueue \in {<<>>, <<HOST>>}
    /\ xSwCmdEvent \subseteq {"LOCAL", "REMOTE"}
    /\ pend \in 0 .. 1
    /\ core \in Task \cup {"wait", "vspa", HOST}
    /\ pc \in [Task -> {"idle", "send", "mark", "set", "receive", "blocked"}]
    /\ status \in [Task -> {"FREE", "POSTED", "IN_PROGRESS", "DONE"}]
    /\ result \in [Task -> {"none", "success", "error"}]
    /\ host_swcmd \in {"FREE", "written", "POSTED", "IN_PROGRESS", "DONE"}
    /\ overlap \subseteq Task /\ delayed \subseteq Task
    /\ disturbed \in BOOLEAN

Init ==
    /\ xLocalQueue = <<>> /\ xLocalRspQueue = <<>> /\ xRemoteQueue = <<>>
    /\ xSwCmdEvent = {} /\ pend = 0
    /\ core = "wait"
    /\ pc = [t \in Task |-> "idle"]
    /\ status = [t \in Task |-> "FREE"] /\ result = [t \in Task |-> "none"]
    /\ host_swcmd = "FREE"
    /\ overlap = {} /\ delayed = {} /\ disturbed = FALSE

-------------------------------------------------------------------------------
(* Who runs. *)

\* vRficCoreTask is blocked, on its event group or in the host's command.
CoreBlocked == core = "vspa" \/ (core = "wait" /\ xSwCmdEvent = {})

Calling == {t \in Task : pc[t] # "idle"}
Ready == {t \in Calling : pc[t] # "blocked"}

\* vRficCoreTask created with a priority below its clients'.
FaultRuns(t) == \A u \in Ready : Prio[u] <= Prio[t]

\* A task runs while the core task is blocked, the timer task has nothing to do
\* and no task of a higher priority is ready.
Runs(t) == CoreBlocked /\ pend = 0 /\ \A u \in Ready : Prio[u] <= Prio[t]

-------------------------------------------------------------------------------
(* xRficPostLocalSwCmd. *)

Return(t, r) ==
    /\ pc' = [pc EXCEPT ![t] = "idle"]
    /\ result' = [result EXCEPT ![t] = r]

Goto(t, place) == pc' = [pc EXCEPT ![t] = place] /\ UNCHANGED result

\* The descriptor is cleared: its result is RF_SW_CMD_RESULT_OK from the start.
Call(t) ==
    /\ pc[t] = "idle" /\ Runs(t)
    /\ pc' = [pc EXCEPT ![t] = "send"]
    /\ status' = [status EXCEPT ![t] = "FREE"]
    /\ result' = [result EXCEPT ![t] = "none"]
    /\ overlap' = IF Calling = {} THEN overlap \ {t} ELSE overlap \cup Calling \cup {t}
    /\ delayed' = IF core = "vspa" THEN delayed \cup {t} ELSE delayed \ {t}
    /\ disturbed' = (disturbed \/ core = "vspa")
    /\ UNCHANGED <<xLocalQueue, xLocalRspQueue, xRemoteQueue, xSwCmdEvent, pend, core, host_swcmd>>

\* A queue that takes every command.
FaultSend(t) ==
    /\ pc[t] = "send" /\ Runs(t)
    /\ xLocalQueue' = Append(xLocalQueue, t) /\ Goto(t, "mark")
    /\ UNCHANGED <<xLocalRspQueue, xRemoteQueue, xSwCmdEvent, pend, core, host_swcmd, status, histories>>

\* A queue that is full refuses the command: RF_LOCAL_QUEUE_SEND_TIMEOUT is 0.
Send(t) ==
    /\ pc[t] = "send" /\ Runs(t)
    /\ IF xLocalQueue = <<>>
       THEN xLocalQueue' = <<t>> /\ Goto(t, "mark")
       ELSE Return(t, "error") /\ UNCHANGED xLocalQueue
    /\ UNCHANGED <<xLocalRspQueue, xRemoteQueue, xSwCmdEvent, pend, core, host_swcmd, status, histories>>

Mark(t) ==
    /\ pc[t] = "mark" /\ Runs(t)
    /\ status' = [status EXCEPT ![t] = "POSTED"]
    /\ Goto(t, "set")
    /\ UNCHANGED <<xLocalQueue, xLocalRspQueue, xRemoteQueue, xSwCmdEvent, pend, core, host_swcmd, histories>>

SetBits(t) ==
    /\ pc[t] = "set" /\ Runs(t)
    /\ xSwCmdEvent' = xSwCmdEvent \cup {"LOCAL"}
    /\ Goto(t, "receive")
    /\ UNCHANGED <<xLocalQueue, xLocalRspQueue, xRemoteQueue, pend, core, host_swcmd, status, histories>>

\* Any response will do; what is copied is the pointer, over the command number.
\* Without one the task blocks for RF_LOCAL_RESP_QUEUE_RECV_TIMEOUT.
Receive(t) ==
    /\ pc[t] \in {"receive", "blocked"} /\ Runs(t)
    /\ IF xLocalRspQueue # <<>>
       THEN /\ xLocalRspQueue' = <<>> /\ Return(t, "success")
            /\ disturbed' = (disturbed /\ t \in overlap \cup delayed)
       ELSE pc[t] = "receive" /\ Goto(t, "blocked") /\ UNCHANGED <<xLocalRspQueue, disturbed>>
    /\ UNCHANGED <<xLocalQueue, xRemoteQueue, xSwCmdEvent, pend, core, host_swcmd, status, overlap, delayed>>

Timeout(t) ==
    /\ pc[t] = "blocked" /\ Runs(t) /\ xLocalRspQueue = <<>>
    /\ Return(t, "error")
    /\ UNCHANGED <<xLocalQueue, xLocalRspQueue, xRemoteQueue, xSwCmdEvent, pend, core, host_swcmd, status, histories>>

Post(t) == Send(t) \/ Mark(t) \/ SetBits(t) \/ Receive(t) \/ Timeout(t)

-------------------------------------------------------------------------------
(* The host and vRficSwCmdIrq. *)

\* The host writes its one descriptor again when the last command is done.
HostCommand ==
    /\ host_swcmd \in {"FREE", "DONE"}
    /\ host_swcmd' = "written"
    /\ UNCHANGED <<xLocalQueue, xLocalRspQueue, xRemoteQueue, xSwCmdEvent, pend, core, taskVars>>

\* The queue has room, the host's last command is done; the event bit is set
\* later, by the timer task.
vRficSwCmdIrq ==
    /\ host_swcmd = "written" /\ xRemoteQueue = <<>>
    /\ xRemoteQueue' = <<HOST>>
    /\ host_swcmd' = "POSTED"
    /\ pend' = pend + 1
    /\ UNCHANGED <<xLocalQueue, xLocalRspQueue, xSwCmdEvent, core, taskVars>>

TimerSetBits ==
    /\ pend > 0 /\ CoreBlocked
    /\ xSwCmdEvent' = xSwCmdEvent \cup {"REMOTE"}
    /\ pend' = pend - 1
    /\ UNCHANGED <<xLocalQueue, xLocalRspQueue, xRemoteQueue, core, host_swcmd, taskVars>>

-------------------------------------------------------------------------------
(* vRficCoreTask. *)

\* The command is looked at and left in the queue.
FaultCoreTakeLocal ==
    /\ core = "wait" /\ "LOCAL" \in xSwCmdEvent
    /\ xSwCmdEvent' = {}
    /\ IF xLocalQueue # <<>>
       THEN /\ core' = Head(xLocalQueue)
            /\ status' = [status EXCEPT ![Head(xLocalQueue)] = "IN_PROGRESS"]
       ELSE UNCHANGED <<core, status>>
    /\ UNCHANGED <<xLocalQueue, xLocalRspQueue, xRemoteQueue, pend, host_swcmd, pc, result, histories>>

\* Both bits are cleared, one queue is served.  The descriptor may be that of a
\* call that is over.
CoreTakeLocal ==
    /\ core = "wait" /\ "LOCAL" \in xSwCmdEvent
    /\ xSwCmdEvent' = {}
    /\ IF xLocalQueue # <<>>
       THEN /\ core' = Head(xLocalQueue)
            /\ xLocalQueue' = <<>>
            /\ status' = [status EXCEPT ![Head(xLocalQueue)] = "IN_PROGRESS"]
       ELSE UNCHANGED <<core, xLocalQueue, status>>
    /\ UNCHANGED <<xLocalRspQueue, xRemoteQueue, pend, host_swcmd, pc, result, histories>>

CoreTakeRemote ==
    /\ core = "wait" /\ xSwCmdEvent = {"REMOTE"}
    /\ xSwCmdEvent' = {}
    /\ IF xRemoteQueue # <<>>
       THEN core' = HOST /\ xRemoteQueue' = <<>> /\ host_swcmd' = "IN_PROGRESS"
       ELSE UNCHANGED <<core, xRemoteQueue, host_swcmd>>
    /\ UNCHANGED <<xLocalQueue, xLocalRspQueue, pend, taskVars>>

\* The task is not told that its command is done.
FaultCoreDoneLocal ==
    /\ core \in Task
    /\ core' = "wait"
    /\ status' = [status EXCEPT ![core] = "DONE"]
    /\ UNCHANGED <<xLocalQueue, xLocalRspQueue, xRemoteQueue, xSwCmdEvent, pend, host_swcmd, pc, result, histories>>

\* A response that finds the queue full is dropped.
CoreDoneLocal ==
    /\ core \in Task
    /\ core' = "wait"
    /\ status' = [status EXCEPT ![core] = "DONE"]
    /\ xLocalRspQueue' = IF xLocalRspQueue = <<>> THEN <<core>> ELSE xLocalRspQueue
    /\ UNCHANGED <<xLocalQueue, xRemoteQueue, xSwCmdEvent, pend, host_swcmd, pc, result, histories>>

\* A dump of samples or a tone (DUMP_IQ_DATA, SINGLE_TONE_TX) is asked of the
\* VSPA and waited for, at the mutex or at the queue of mailbox 0.
CoreAsk ==
    /\ core = HOST
    /\ core' = "vspa"
    /\ delayed' = delayed \cup Calling
    /\ disturbed' = (disturbed \/ Calling # {})
    /\ UNCHANGED <<xLocalQueue, xLocalRspQueue, xRemoteQueue, xSwCmdEvent, pend, host_swcmd, pc, status, result, overlap>>

\* The command did not ask, or found its answer in the queue, or has waited
\* until there was one or it gave up.
CoreDoneRemote ==
    /\ core \in {HOST, "vspa"}
    /\ core' = "wait" /\ host_swcmd' = "DONE"
    /\ UNCHANGED <<xLocalQueue, xLocalRspQueue, xRemoteQueue, xSwCmdEvent, pend, taskVars>>

vRficCoreTask == CoreTakeLocal \/ CoreTakeRemote \/ CoreDoneLocal \/ CoreAsk \/ CoreDoneRemote

Next ==
    \/ \E t \in Task : Call(t) \/ Post(t)
    \/ HostCommand \/ vRficSwCmdIrq
    \/ TimerSetBits
    \/ vRficCoreTask

Spec == Init /\ [][Next]_vars

\* Interrupts are taken and the two tasks of the highest priorities run, the wait
\* for the VSPA being bounded; the tasks that post need no fairness.
FairSpec ==
    /\ Spec
    /\ WF_vars(vRficSwCmdIrq) /\ WF_vars(TimerSetBits) /\ WF_vars(vRficCoreTask)

-------------------------------------------------------------------------------
(* Properties. *)

\* vRficCoreTask writes the status or the result of a command into a stack frame
\* that its task has left only if the call met a core that waited for the VSPA:
\* no other call that times out leaves its descriptor behind.
DescriptorAlive ==
    \A t \in Task : t = core \/ t \in Range(xLocalQueue) => pc[t] # "idle" \/ t \in delayed

\* A response belongs to a call that has yet to receive one: none is left over
\* for a later command to take for its own, but by a call that met a core that
\* waited for the VSPA, and then only until the next call that meets nothing.
NoStaleResponse ==
    xLocalRspQueue # <<>> => disturbed \/ \E t \in Task : pc[t] \in {"receive", "blocked"}

\* A call that succeeds has had its own command executed, whosever response it
\* took, unless it met a core that waited for the VSPA.
SuccessMeansExecuted ==
    \A t \in Task : result[t] = "success" => status[t] = "DONE" \/ t \in delayed

\* A call fails, for reasons other than the radio's, only when it met another
\* one, refused at the queue of one command or robbed of its response, or a core
\* that waited for the VSPA.
FailsOnlyIfOverlapped ==
    \A t \in Task : result[t] = "error" => t \in overlap \cup delayed

\* No remote command is lost to a local one, although the core task clears both
\* event bits and serves one queue.
RemoteServed == host_swcmd = "written" ~> host_swcmd = "DONE"
===============================================================================
