---------------------------- MODULE RficCoreProofs ----------------------------
(***************************************************************************)
(* Safety of the RFIC command engine for every set of tasks and every      *)
(* assignment of priorities below the core task's, by the inductive        *)
(* invariant IInv.  What carries it is that a task moves only while the    *)
(* core task is blocked: on its event group with no event to come, or in   *)
(* the host's command, when every call under way counts as delayed.        *)
(***************************************************************************)
EXTENDS RficCore, TLAPS

\* At most one event at a time; while a command runs there is none, but that of
\* a local command posted while the core waits for the VSPA.
Events ==
    /\ xSwCmdEvent \in {{}, {"LOCAL"}, {"REMOTE"}}
    /\ core # "wait" => xSwCmdEvent = {} \/ (core = "vspa" /\ xSwCmdEvent = {"LOCAL"})

\* The command queued is that of a task that is posting it, or its event bit is
\* set.
Commands ==
    /\ xSwCmdEvent = {"LOCAL"} => xLocalQueue # <<>>
    /\ \A t \in Task :
          /\ pc[t] \in {"mark", "set"} => xLocalQueue = <<t>> /\ xSwCmdEvent # {"LOCAL"}
          /\ xLocalQueue = <<t>> /\ xSwCmdEvent # {"LOCAL"} => pc[t] \in {"mark", "set"}

\* Of the calls that did not meet a core waiting for the VSPA: the command that is
\* announced or runs is that of a task about to look for its response, and a
\* task that waits has been served or is about to be, before it goes on.
Served ==
    \A t \in Task \ delayed :
        /\ core = t \/ (xLocalQueue = <<t>> /\ xSwCmdEvent = {"LOCAL"}) => pc[t] = "receive"
        /\ pc[t] \in {"receive", "blocked"} => status[t] = "DONE" \/ core = t \/ xLocalQueue = <<t>>

\* Calls at one time know of each other, and an undelayed call alone finds its
\* response.
Overlaps ==
    /\ \A t \in Task :
        /\ result[t] # "none" => pc[t] = "idle"
        /\ \A u \in Task : t # u /\ pc[t] # "idle" /\ pc[u] # "idle" => t \in overlap
    /\ \A t \in Task \ (overlap \cup delayed) :
          pc[t] \in {"receive", "blocked"} => core = t \/ xLocalQueue = <<t>> \/ xLocalRspQueue # <<>>

\* While the core waits for the VSPA every call is a delayed one, and what a
\* delayed call may have left behind is known.
Delayed ==
    /\ core = "vspa" => Calling \subseteq delayed
    /\ \A t \in delayed : core = t \/ xLocalQueue = <<t>> \/ pc[t] # "idle" => disturbed

\* A remote command is in the queue from the interrupt to the core task, and so
\* is one request for its event bit, or the bit itself.
Remote ==
    /\ xRemoteQueue # <<>> => host_swcmd = "POSTED"
    /\ pend = 1 => xRemoteQueue # <<>> /\ "REMOTE" \notin xSwCmdEvent
    /\ "REMOTE" \in xSwCmdEvent => xRemoteQueue # <<>>
    /\ core \in {HOST, "vspa"} => host_swcmd = "IN_PROGRESS"

IInv ==
    /\ TypeOK /\ Events /\ Commands /\ Served /\ Overlaps /\ Delayed /\ Remote
    /\ NoStaleResponse /\ SuccessMeansExecuted /\ FailsOnlyIfOverlapped

-------------------------------------------------------------------------------
LEMMA InitInv == Init => IInv
  <1> SUFFICES ASSUME Init PROVE IInv
    OBVIOUS
  <1> USE DEF Init
  <1>1. TypeOK
    <2>1. {xLocalQueue, xLocalRspQueue} \subseteq {<<>>} \cup {<<t>> : t \in Task}
      OBVIOUS
    <2>2. disturbed \in BOOLEAN
      OBVIOUS
    <2>3. pc \in [Task -> {"idle", "send", "mark", "set", "receive", "blocked"}]
      OBVIOUS
    <2>4. /\ status \in [Task -> {"FREE", "POSTED", "IN_PROGRESS", "DONE"}]
          /\ result \in [Task -> {"none", "success", "error"}]
      OBVIOUS
    <2> HIDE DEF Init
    <2>5. /\ xRemoteQueue = <<>> /\ xSwCmdEvent = {} /\ pend = 0 /\ core = "wait"
          /\ host_swcmd = "FREE" /\ overlap = {} /\ delayed = {}
      BY DEF Init
    <2> QED
      BY <2>1, <2>2, <2>3, <2>4, <2>5 DEF TypeOK
  <1>2. Events /\ Commands /\ Remote
    BY DEF Events, Commands, Remote, HOST
  <1>3. Served /\ Overlaps /\ Delayed
    BY TaskAssumption DEF Served, Overlaps, Delayed, Calling
  <1>4. NoStaleResponse /\ SuccessMeansExecuted /\ FailsOnlyIfOverlapped
    BY DEF NoStaleResponse, SuccessMeansExecuted, FailsOnlyIfOverlapped
  <1> QED
    BY <1>1, <1>2, <1>3, <1>4 DEF IInv

\* While a task runs the core is blocked and no request is with the timer task.
LEMMA RunsQuietly ==
    ASSUME NEW t \in Task, Runs(t)
    PROVE  /\ core = "vspa" \/ (core = "wait" /\ xSwCmdEvent = {})
           /\ t \notin {"wait", "vspa", HOST} /\ pend = 0
  BY TaskAssumption DEF Runs, CoreBlocked

LEMMA CallInv ==
    ASSUME IInv, NEW t \in Task, Call(t) PROVE IInv'
  <1> USE DEF Call, IInv, TypeOK, histories
  <1>1. TypeOK' /\ Events'
    BY DEF Calling, Events
  <1>2. Commands'
    BY RunsQuietly DEF Commands
  <1>3. Served' /\ SuccessMeansExecuted'
    BY RunsQuietly DEF Served, SuccessMeansExecuted, Commands, Events, Calling, Overlaps
  <1>4. Overlaps' /\ FailsOnlyIfOverlapped'
    BY DEF Overlaps, FailsOnlyIfOverlapped, Calling
  <1>5. Delayed'
    BY DEF Delayed, Calling, Commands, Events
  <1>6. Remote' /\ NoStaleResponse'
    BY DEF Remote, NoStaleResponse
  <1> QED
    BY <1>1, <1>2, <1>3, <1>4, <1>5, <1>6

LEMMA SendInv ==
    ASSUME IInv, NEW t \in Task, Send(t) PROVE IInv'
  <1> USE DEF Send, IInv, TypeOK, Goto, Return, histories
  <1>1. TypeOK' /\ Events'
    BY RunsQuietly DEF Events, Calling
  <1>2. Commands'
    <2>1. /\ core = "vspa" \/ (core = "wait" /\ xSwCmdEvent = {})
          /\ t # "wait" /\ t # "vspa"
      BY RunsQuietly
    <2>2. CASE xLocalQueue = <<>>
      <3>1. \A u \in Task : pc[u] \notin {"mark", "set"} /\ (<<t>> = <<u>> => t = u)
        BY <2>2 DEF Commands
      <3> QED
        BY <2>1, <2>2, <3>1, TaskAssumption DEF Commands
    <2>3. CASE xLocalQueue # <<>>
      BY <2>1, <2>3, TaskAssumption DEF Commands
    <2> QED
      BY <2>2, <2>3
  <1>3. Served' /\ SuccessMeansExecuted'
    BY RunsQuietly DEF Served, SuccessMeansExecuted, Commands, Events, Delayed, Calling, Overlaps
  <1>4. Overlaps' /\ FailsOnlyIfOverlapped'
    BY RunsQuietly DEF Overlaps, FailsOnlyIfOverlapped, Commands, Events, Delayed, Calling, Served
  <1>5. Delayed'
    BY RunsQuietly DEF Delayed, Calling, Commands, Events
  <1>6. Remote' /\ NoStaleResponse'
    BY RunsQuietly DEF Remote, NoStaleResponse, Events, Commands, Delayed, Calling, Served
  <1> QED
    BY <1>1, <1>2, <1>3, <1>4, <1>5, <1>6

LEMMA MarkInv ==
    ASSUME IInv, NEW t \in Task, Mark(t) PROVE IInv'
  <1> USE DEF Mark, IInv, TypeOK, Goto, histories
  <1>1. TypeOK' /\ Events'
    BY RunsQuietly DEF Events, Calling
  <1>2. Commands'
    BY RunsQuietly DEF Commands, Events
  <1>3. Served' /\ SuccessMeansExecuted'
    BY RunsQuietly DEF Served, SuccessMeansExecuted, Commands, Events, Delayed, Calling, Overlaps
  <1>4. Overlaps' /\ FailsOnlyIfOverlapped'
    BY RunsQuietly DEF Overlaps, FailsOnlyIfOverlapped, Commands, Events, Delayed, Calling, Served
  <1>5. Delayed'
    BY RunsQuietly DEF Delayed, Calling, Commands, Events
  <1>6. Remote' /\ NoStaleResponse'
    BY RunsQuietly DEF Remote, NoStaleResponse, Events, Commands, Delayed, Calling, Served
  <1> QED
    BY <1>1, <1>2, <1>3, <1>4, <1>5, <1>6

LEMMA SetBitsInv ==
    ASSUME IInv, NEW t \in Task, SetBits(t) PROVE IInv'
  <1> USE DEF SetBits, IInv, TypeOK, Goto, histories
  <1>1. TypeOK' /\ Events'
    BY RunsQuietly DEF Events, Calling
  <1>2. Commands'
    <2>1. xLocalQueue = <<t>> /\ \A u \in Task : xLocalQueue = <<u>> => u = t
      BY DEF Commands
    <2>2. xLocalQueue' = <<t>> /\ xSwCmdEvent' = {"LOCAL"}
      BY <2>1, RunsQuietly DEF Events
    <2>3. \A u \in Task : u # t => pc[u] \notin {"mark", "set"}
      BY <2>1 DEF Commands
    <2>4. \A u \in Task : pc'[u] = IF u = t THEN "receive" ELSE pc[u]
      OBVIOUS
    <2> QED
      BY <2>2, <2>3, <2>4 DEF Commands
  <1>3. Served' /\ SuccessMeansExecuted'
    BY RunsQuietly DEF Served, SuccessMeansExecuted, Commands, Events, Delayed, Calling, Overlaps
  <1>4. Overlaps' /\ FailsOnlyIfOverlapped'
    BY RunsQuietly DEF Overlaps, FailsOnlyIfOverlapped, Commands, Events, Delayed, Calling, Served
  <1>5. Delayed'
    BY RunsQuietly DEF Delayed, Calling, Commands, Events
  <1>6. Remote' /\ NoStaleResponse'
    BY RunsQuietly DEF Remote, NoStaleResponse, Events, Commands, Delayed, Calling, Served
  <1> QED
    BY <1>1, <1>2, <1>3, <1>4, <1>5, <1>6

LEMMA ReceiveInv ==
    ASSUME IInv, NEW t \in Task, Receive(t) PROVE IInv'
  <1> USE DEF Receive, IInv, TypeOK, Goto, Return, histories
  <1>1. TypeOK' /\ Events'
    BY RunsQuietly DEF Events, Calling
  <1>2. Commands'
    BY RunsQuietly DEF Commands, Events
  <1>3. Served' /\ SuccessMeansExecuted'
    BY RunsQuietly DEF Served, SuccessMeansExecuted, Commands, Events, Delayed, Calling, Overlaps
  <1>4. Overlaps' /\ FailsOnlyIfOverlapped'
    BY RunsQuietly DEF Overlaps, FailsOnlyIfOverlapped, Commands, Events, Delayed, Calling, Served
  <1>5. Delayed'
    <2>1. core' = "vspa" => Calling' \subseteq delayed'
      BY DEF Delayed, Calling
    <2>2. CASE t \in overlap \cup delayed \/ xLocalRspQueue = <<>>
      BY <2>1, <2>2 DEF Delayed
    <2>3. CASE t \notin overlap \cup delayed /\ xLocalRspQueue # <<>>
      <3>1. core = "wait" /\ xSwCmdEvent = {}
        BY <2>3, RunsQuietly DEF Delayed, Calling
      <3>2. \A u \in Task \ {t} : pc[u] = "idle"
        BY <2>3 DEF Overlaps
      <3>3. \A u \in Task : xLocalQueue # <<u>> /\ core # u
        BY <3>1, <3>2, TaskAssumption DEF Commands
      <3> QED
        BY <2>1, <2>3, <3>2, <3>3 DEF Delayed
    <2> QED
      BY <2>2, <2>3
  <1>6. Remote' /\ NoStaleResponse'
    BY RunsQuietly DEF Remote, NoStaleResponse, Events, Commands, Delayed, Calling, Served
  <1> QED
    BY <1>1, <1>2, <1>3, <1>4, <1>5, <1>6

LEMMA TimeoutInv ==
    ASSUME IInv, NEW t \in Task, Timeout(t) PROVE IInv'
  <1> USE DEF Timeout, IInv, TypeOK, Return, histories
  <1>1. TypeOK' /\ Events'
    BY RunsQuietly DEF Events, Calling
  <1>2. Commands'
    BY RunsQuietly DEF Commands, Events
  <1>3. Served' /\ SuccessMeansExecuted'
    BY RunsQuietly DEF Served, SuccessMeansExecuted, Commands, Events, Delayed, Calling, Overlaps
  <1>4. Overlaps' /\ FailsOnlyIfOverlapped'
    BY RunsQuietly DEF Overlaps, FailsOnlyIfOverlapped, Commands, Events, Delayed, Calling, Served
  <1>5. Delayed'
    BY RunsQuietly DEF Delayed, Calling, Commands, Events
  <1>6. Remote' /\ NoStaleResponse'
    BY RunsQuietly DEF Remote, NoStaleResponse, Events, Commands, Delayed, Calling, Served
  <1> QED
    BY <1>1, <1>2, <1>3, <1>4, <1>5, <1>6

LEMMA HostCommandInv ==
    ASSUME IInv, HostCommand PROVE IInv'
  <1> USE DEF HostCommand, IInv, TypeOK, taskVars, histories, HOST
  <1>1. TypeOK' /\ Events'
    BY TaskAssumption DEF Events, Calling
  <1>2. Commands'
    BY TaskAssumption DEF Commands, Events
  <1>3. Served' /\ SuccessMeansExecuted'
    BY TaskAssumption DEF Served, SuccessMeansExecuted, Commands, Events, Delayed, Calling, Overlaps
  <1>4. Overlaps' /\ FailsOnlyIfOverlapped'
    BY TaskAssumption DEF Overlaps, FailsOnlyIfOverlapped, Commands, Events, Delayed, Calling, Served
  <1>5. Delayed'
    BY TaskAssumption DEF Delayed, Calling, Commands, Events
  <1>6. Remote' /\ NoStaleResponse'
    BY TaskAssumption DEF Remote, NoStaleResponse, Events, Commands, Delayed, Calling, Served
  <1> QED
    BY <1>1, <1>2, <1>3, <1>4, <1>5, <1>6

LEMMA vRficSwCmdIrqInv ==
    ASSUME IInv, vRficSwCmdIrq PROVE IInv'
  <1> USE DEF vRficSwCmdIrq, IInv, TypeOK, taskVars, histories, HOST
  <1>1. TypeOK' /\ Events'
    BY DEF Events, Remote
  <1>2. Commands'
    BY TaskAssumption DEF Commands, Events
  <1>3. Served' /\ SuccessMeansExecuted'
    BY TaskAssumption DEF Served, SuccessMeansExecuted, Commands, Events, Delayed, Calling, Overlaps
  <1>4. Overlaps' /\ FailsOnlyIfOverlapped'
    BY TaskAssumption DEF Overlaps, FailsOnlyIfOverlapped, Commands, Events, Delayed, Calling, Served
  <1>5. Delayed'
    BY TaskAssumption DEF Delayed, Calling, Commands, Events
  <1>6. Remote' /\ NoStaleResponse'
    BY TaskAssumption DEF Remote, NoStaleResponse, Events, Commands, Delayed, Calling, Served
  <1> QED
    BY <1>1, <1>2, <1>3, <1>4, <1>5, <1>6

LEMMA TimerSetBitsInv ==
    ASSUME IInv, TimerSetBits PROVE IInv'
  <1> USE DEF TimerSetBits, IInv, TypeOK, taskVars, histories, CoreBlocked, HOST
  <1>1. TypeOK' /\ Events'
    <2>1. pend = 1 /\ core = "wait" /\ xSwCmdEvent = {}
      BY DEF Remote
    <2> QED
      BY <2>1 DEF Events
  <1>2. Commands'
    BY TaskAssumption DEF Commands, Events, Remote
  <1>3. Served' /\ SuccessMeansExecuted'
    BY TaskAssumption DEF Served, SuccessMeansExecuted, Commands, Events, Delayed, Calling, Overlaps
  <1>4. Overlaps' /\ FailsOnlyIfOverlapped'
    BY TaskAssumption DEF Overlaps, FailsOnlyIfOverlapped, Commands, Events, Delayed, Calling, Served
  <1>5. Delayed'
    BY TaskAssumption DEF Delayed, Calling, Commands, Events
  <1>6. Remote' /\ NoStaleResponse'
    BY TaskAssumption DEF Remote, NoStaleResponse, Events, Commands, Delayed, Calling, Served
  <1> QED
    BY <1>1, <1>2, <1>3, <1>4, <1>5, <1>6

LEMMA CoreTakeLocalInv ==
    ASSUME IInv, CoreTakeLocal PROVE IInv'
  <1> USE DEF CoreTakeLocal, IInv, TypeOK, HOST, histories
  <1>1. TypeOK' /\ Events'
    BY TaskAssumption DEF Events, Calling
  <1>2. Commands'
    BY TaskAssumption DEF Commands, Events
  <1>3. Served' /\ SuccessMeansExecuted'
    BY TaskAssumption DEF Served, SuccessMeansExecuted, Commands, Events, Delayed, Calling, Overlaps
  <1>4. Overlaps' /\ FailsOnlyIfOverlapped'
    BY TaskAssumption DEF Overlaps, FailsOnlyIfOverlapped, Commands, Events, Delayed, Calling, Served
  <1>5. Delayed'
    BY TaskAssumption DEF Delayed, Calling, Commands, Events
  <1>6. Remote' /\ NoStaleResponse'
    BY TaskAssumption DEF Remote, NoStaleResponse, Events, Commands, Delayed, Calling, Served
  <1> QED
    BY <1>1, <1>2, <1>3, <1>4, <1>5, <1>6

LEMMA CoreTakeRemoteInv ==
    ASSUME IInv, CoreTakeRemote PROVE IInv'
  <1> USE DEF CoreTakeRemote, IInv, TypeOK, taskVars, histories, HOST
  <1>1. TypeOK' /\ Events'
    BY TaskAssumption DEF Events, Calling
  <1>2. Commands'
    BY TaskAssumption DEF Commands, Events
  <1>3. Served' /\ SuccessMeansExecuted'
    BY TaskAssumption DEF Served, SuccessMeansExecuted, Commands, Events, Delayed, Calling, Overlaps
  <1>4. Overlaps' /\ FailsOnlyIfOverlapped'
    BY TaskAssumption DEF Overlaps, FailsOnlyIfOverlapped, Commands, Events, Delayed, Calling, Served
  <1>5. Delayed'
    BY TaskAssumption DEF Delayed, Calling, Commands, Events
  <1>6. Remote' /\ NoStaleResponse'
    BY TaskAssumption DEF Remote, NoStaleResponse, Events, Commands, Delayed, Calling, Served
  <1> QED
    BY <1>1, <1>2, <1>3, <1>4, <1>5, <1>6

LEMMA CoreDoneLocalInv ==
    ASSUME IInv, CoreDoneLocal PROVE IInv'
  <1> USE DEF CoreDoneLocal, IInv, TypeOK, HOST, histories
  <1>1. TypeOK' /\ Events'
    BY TaskAssumption DEF Events, Calling
  <1>2. Commands'
    BY TaskAssumption DEF Commands, Events
  <1>3. Served' /\ SuccessMeansExecuted'
    BY TaskAssumption DEF Served, SuccessMeansExecuted, Commands, Events, Delayed, Calling, Overlaps
  <1>4. Overlaps' /\ FailsOnlyIfOverlapped'
    BY TaskAssumption DEF Overlaps, FailsOnlyIfOverlapped, Commands, Events, Delayed, Calling, Served
  <1>5. Delayed'
    BY TaskAssumption DEF Delayed, Calling, Commands, Events
  <1>6. Remote' /\ NoStaleResponse'
    BY TaskAssumption DEF Remote, NoStaleResponse, Events, Commands, Delayed, Calling, Served
  <1> QED
    BY <1>1, <1>2, <1>3, <1>4, <1>5, <1>6

LEMMA CoreAskInv ==
    ASSUME IInv, CoreAsk PROVE IInv'
  <1> USE DEF CoreAsk, IInv, TypeOK, taskVars, histories, HOST
  <1>1. TypeOK' /\ Events'
    BY TaskAssumption DEF Events, Calling
  <1>2. Commands'
    BY TaskAssumption DEF Commands, Events
  <1>3. Served' /\ SuccessMeansExecuted'
    BY TaskAssumption DEF Served, SuccessMeansExecuted, Commands, Events, Delayed, Calling, Overlaps
  <1>4. Overlaps' /\ FailsOnlyIfOverlapped'
    BY TaskAssumption DEF Overlaps, FailsOnlyIfOverlapped, Commands, Events, Delayed, Calling, Served
  <1>5. Delayed'
    BY TaskAssumption DEF Delayed, Calling, Commands, Events
  <1>6. Remote' /\ NoStaleResponse'
    BY TaskAssumption DEF Remote, NoStaleResponse, Events, Commands, Delayed, Calling, Served
  <1> QED
    BY <1>1, <1>2, <1>3, <1>4, <1>5, <1>6

LEMMA CoreDoneRemoteInv ==
    ASSUME IInv, CoreDoneRemote PROVE IInv'
  <1> USE DEF CoreDoneRemote, IInv, TypeOK, taskVars, histories, HOST
  <1>1. TypeOK' /\ Events'
    BY TaskAssumption DEF Events, Calling
  <1>2. Commands'
    BY TaskAssumption DEF Commands, Events
  <1>3. Served' /\ SuccessMeansExecuted'
    BY TaskAssumption DEF Served, SuccessMeansExecuted, Commands, Events, Delayed, Calling, Overlaps
  <1>4. Overlaps' /\ FailsOnlyIfOverlapped'
    BY TaskAssumption DEF Overlaps, FailsOnlyIfOverlapped, Commands, Events, Delayed, Calling, Served
  <1>5. Delayed'
    BY TaskAssumption DEF Delayed, Calling, Commands, Events
  <1>6. Remote' /\ NoStaleResponse'
    BY TaskAssumption DEF Remote, NoStaleResponse, Events, Commands, Delayed, Calling, Served
  <1> QED
    BY <1>1, <1>2, <1>3, <1>4, <1>5, <1>6

-------------------------------------------------------------------------------
LEMMA NextInv ==
    ASSUME IInv, [Next]_vars PROVE IInv'
  <1>1. ASSUME NEW t \in Task, Call(t) \/ Post(t) PROVE IInv'
    BY <1>1, CallInv, SendInv, MarkInv, SetBitsInv, ReceiveInv, TimeoutInv DEF Post
  <1>2. CASE HostCommand \/ vRficSwCmdIrq
    BY <1>2, HostCommandInv, vRficSwCmdIrqInv
  <1>3. CASE TimerSetBits \/ vRficCoreTask
    BY <1>3, TimerSetBitsInv, CoreTakeLocalInv, CoreTakeRemoteInv, CoreDoneLocalInv,
        CoreAskInv, CoreDoneRemoteInv
       DEF vRficCoreTask
  <1>4. CASE UNCHANGED vars
    BY <1>4
       DEF vars, taskVars, histories, IInv, TypeOK, Events, Commands, Served, Overlaps, Delayed, Remote, Calling,
           NoStaleResponse, SuccessMeansExecuted, FailsOnlyIfOverlapped
  <1> QED
    BY <1>1, <1>2, <1>3, <1>4 DEF Next

\* IInv holds in every reachable state.
THEOREM Inductive == Spec => []IInv
  BY InitInv, NextInv, PTL DEF Spec

\* A task that the core task still knows of is inside its call, or delayed.
LEMMA KnownIsCalling == IInv => DescriptorAlive
  <1> SUFFICES ASSUME IInv, NEW t \in Task, t = core \/ t \in Range(xLocalQueue), t \notin delayed
               PROVE  pc[t] # "idle"
    BY DEF DescriptorAlive
  <1>1. CASE t = core
    BY <1>1 DEF IInv, Served
  <1>2. CASE t \in Range(xLocalQueue)
    <2>1. PICK u \in Task : xLocalQueue = <<u>>
      BY <1>2 DEF IInv, TypeOK, Range
    <2>2. u = t
      BY <1>2, <2>1 DEF Range
    <2> QED
      BY <2>1, <2>2 DEF IInv, Commands, Served
  <1> QED
    BY <1>1, <1>2

\* The state of the engine keeps its type: the queues hold at most one pointer
\* and the interrupt has at most one request with the timer task.
THEOREM TypeCorrect == Spec => []TypeOK
  <1>1. IInv => TypeOK
    BY DEF IInv
  <1> QED
    BY <1>1, Inductive, PTL

\* vRficCoreTask writes into the stack frame of a call that has returned only if
\* the call met a core that waited for the VSPA.
THEOREM DescriptorsAlive == Spec => []DescriptorAlive
  BY KnownIsCalling, Inductive, PTL

\* No response is left over for a later command, but by a call that met a core
\* that waited for the VSPA, until one that met nothing has succeeded.
THEOREM ResponsesFresh == Spec => []NoStaleResponse
  <1>1. IInv => NoStaleResponse
    BY DEF IInv
  <1> QED
    BY <1>1, Inductive, PTL

\* A call that succeeds has had its own command executed, unless it met a core
\* that waited for the VSPA.
THEOREM SuccessIsExecuted == Spec => []SuccessMeansExecuted
  <1>1. IInv => SuccessMeansExecuted
    BY DEF IInv
  <1> QED
    BY <1>1, Inductive, PTL

\* A call that fails has met another one, or a core that waited for the VSPA.
THEOREM FailureIsOverlap == Spec => []FailsOnlyIfOverlapped
  <1>1. IInv => FailsOnlyIfOverlapped
    BY DEF IInv
  <1> QED
    BY <1>1, Inductive, PTL
===============================================================================
