------------------------------ MODULE AviMailbox ------------------------------
(***************************************************************************)
(* Mailbox 0 from the CM4 to the VSPA (la9310_avi.c): tasks that call      *)
(* iLa9310AviHostSendMboxToVspa, the interrupt handler that forwards what  *)
(* the tasks had to queue, and the VSPA, a core of its own.  Mailbox 1 has *)
(* the same code on registers, queue and mutex of its own.                 *)
(*                                                                         *)
(* A task runs only while the handler does not; the VSPA runs at any time. *)
(* What happens between a read of the VSPA and the handler is not in the   *)
(* code but in the interrupt's latency, see prompt.                        *)
(* The mutex is waited for without the timeout of 100 ms: no holder blocks *)
(* or runs for that long.                                                  *)
(***************************************************************************)
EXTENDS Naturals, Sequences, FiniteSets, SequencesExt

CONSTANTS
    Task,       \* tasks that send
    Msg,        \* messages, reused once they are out of the way
    NoMsg,      \* no message, and no task
    QLen        \* VSPA_CM4_Q_LEN

ASSUME NoMsgAssumption == NoMsg \notin Msg \cup Task
ASSUME QLenAssumption == QLen \in Nat

VARIABLES
    prompt,     \* the interrupt's latency, the same in all of a behaviour:
                \* TRUE, no task gets a step between the VSPA's read and the
                \* handler; FALSE, the interrupt may take its time
    \* VSPA registers: host_out_0_msb and _lsb, "unread" in host_mbox_status,
    \* CM4_MBOX0_STATUS (the VSPA has read) in vspa_status
    host_out_msb, host_out_lsb, host_mbox_status, cm4_mbox_status,
    Cm4ToVspaQMbox0,    \* the software queue
    Cm4ToVspaQMutex0,   \* the task that holds the mutex, or NoMsg
    pc, mbox,           \* each task's place in the send and its message
    isr_pc, vspambox,   \* the handler's place and the message in its hands
    unread              \* history: messages accepted and not read since

registers == <<host_out_msb, host_out_lsb, host_mbox_status, cm4_mbox_status>>
taskVars == <<prompt, Cm4ToVspaQMutex0, pc, mbox>>
isrVars == <<prompt, isr_pc, vspambox>>
vars == <<registers, Cm4ToVspaQMbox0, taskVars, isrVars, unread>>

TypeOK ==
    /\ prompt \in BOOLEAN
    /\ host_out_msb \in Msg \cup {NoMsg} /\ host_out_lsb \in Msg \cup {NoMsg}
    /\ vspambox \in Msg \cup {NoMsg}
    /\ host_mbox_status \in BOOLEAN /\ cm4_mbox_status \in BOOLEAN
    /\ Cm4ToVspaQMbox0 \in Seq(Msg) /\ Len(Cm4ToVspaQMbox0) <= QLen
    /\ Cm4ToVspaQMutex0 \in Task \cup {NoMsg}
    /\ pc \in [Task -> {"idle", "take", "test", "queue", "msb", "lsb", "give"}]
    /\ mbox \in [Task -> Msg \cup {NoMsg}]
    /\ isr_pc \in {"idle", "msb", "lsb", "clear"}
    /\ unread \subseteq Msg
    /\ \A t \in Task : pc[t] \notin {"idle", "take"} => Cm4ToVspaQMutex0 = t

Init ==
    /\ prompt \in BOOLEAN
    /\ host_out_msb = NoMsg /\ host_out_lsb = NoMsg
    /\ host_mbox_status = FALSE /\ cm4_mbox_status = FALSE
    /\ Cm4ToVspaQMbox0 = <<>> /\ Cm4ToVspaQMutex0 = NoMsg
    /\ pc = [t \in Task |-> "idle"] /\ mbox = [t \in Task |-> NoMsg]
    /\ isr_pc = "idle" /\ vspambox = NoMsg
    /\ unread = {}

-------------------------------------------------------------------------------
(* The tasks. *)

\* Messages on their way to the VSPA.
InHands == Range(mbox) \cup {vspambox} \cup Range(Cm4ToVspaQMbox0)
           \cup (IF host_mbox_status THEN {host_out_msb, host_out_lsb} ELSE {})

Running(t, place) ==
    /\ isr_pc = "idle" /\ (prompt => ~ cm4_mbox_status)
    /\ pc[t] = place

Goto(t, place) == pc' = [pc EXCEPT ![t] = place]

\* A task has a message to send.
Call(t, m) ==
    /\ Running(t, "idle") /\ m \notin InHands
    /\ mbox' = [mbox EXCEPT ![t] = m]
    /\ Goto(t, "take")
    /\ UNCHANGED <<registers, Cm4ToVspaQMbox0, Cm4ToVspaQMutex0, isrVars, unread>>

\* The mutex is waited for, then taken for granted.
FaultTakeMutex(t) ==
    /\ Running(t, "take")
    /\ Cm4ToVspaQMutex0' = t
    /\ Goto(t, "test")
    /\ UNCHANGED <<registers, Cm4ToVspaQMbox0, mbox, isrVars, unread>>

TakeMutex(t) ==
    /\ Running(t, "take") /\ Cm4ToVspaQMutex0 = NoMsg
    /\ Cm4ToVspaQMutex0' = t
    /\ Goto(t, "test")
    /\ UNCHANGED <<registers, Cm4ToVspaQMbox0, mbox, isrVars, unread>>

\* The status is not looked at: the mailbox is always taken for free.
FaultTestStatus(t) ==
    /\ Running(t, "test")
    /\ Goto(t, "msb")
    /\ UNCHANGED <<registers, Cm4ToVspaQMbox0, Cm4ToVspaQMutex0, mbox, isrVars, unread>>

\* Has the VSPA read the last message?
TestStatus(t) ==
    /\ Running(t, "test")
    /\ Goto(t, IF host_mbox_status THEN "queue" ELSE "msb")
    /\ UNCHANGED <<registers, Cm4ToVspaQMbox0, Cm4ToVspaQMutex0, mbox, isrVars, unread>>

\* The message waits in the queue, or is refused when the queue is full.
Enqueue(t) ==
    /\ Running(t, "queue")
    /\ IF Len(Cm4ToVspaQMbox0) < QLen
       THEN /\ Cm4ToVspaQMbox0' = Append(Cm4ToVspaQMbox0, mbox[t])
            /\ unread' = unread \cup {mbox[t]}
       ELSE UNCHANGED <<Cm4ToVspaQMbox0, unread>>
    /\ mbox' = [mbox EXCEPT ![t] = NoMsg]
    /\ Goto(t, "give")
    /\ UNCHANGED <<registers, Cm4ToVspaQMutex0, isrVars>>

WriteMsb(t) ==
    /\ Running(t, "msb")
    /\ host_out_msb' = mbox[t]
    /\ Goto(t, "lsb")
    /\ UNCHANGED <<host_out_lsb, host_mbox_status, cm4_mbox_status>>
    /\ UNCHANGED <<Cm4ToVspaQMbox0, Cm4ToVspaQMutex0, mbox, isrVars, unread>>

\* The write of the low word hands the mailbox to the VSPA.
WriteLsb(t) ==
    /\ Running(t, "lsb")
    /\ host_out_lsb' = mbox[t] /\ host_mbox_status' = TRUE
    /\ unread' = unread \cup {mbox[t]}
    /\ mbox' = [mbox EXCEPT ![t] = NoMsg]
    /\ Goto(t, "give")
    /\ UNCHANGED <<host_out_msb, cm4_mbox_status, Cm4ToVspaQMbox0, Cm4ToVspaQMutex0, isrVars>>

GiveMutex(t) ==
    /\ Running(t, "give")
    /\ Cm4ToVspaQMutex0' = NoMsg
    /\ Goto(t, "idle")
    /\ UNCHANGED <<registers, Cm4ToVspaQMbox0, mbox, isrVars, unread>>

Send(t) ==
    \/ TakeMutex(t) \/ TestStatus(t) \/ Enqueue(t)
    \/ WriteMsb(t) \/ WriteLsb(t) \/ GiveMutex(t)

-------------------------------------------------------------------------------
(* AviHndleMboxInterrupt for CM4_MBOX0_STATUS. *)

\* The next message is looked at and left in the queue.
FaultIsrDequeue ==
    /\ isr_pc = "idle" /\ cm4_mbox_status
    /\ IF Cm4ToVspaQMbox0 = <<>>
       THEN isr_pc' = "clear" /\ UNCHANGED <<Cm4ToVspaQMbox0, vspambox>>
       ELSE /\ vspambox' = Head(Cm4ToVspaQMbox0)
            /\ isr_pc' = "msb"
            /\ UNCHANGED Cm4ToVspaQMbox0
    /\ UNCHANGED <<registers, taskVars, unread>>

IsrDequeue ==
    /\ isr_pc = "idle" /\ cm4_mbox_status
    /\ IF Cm4ToVspaQMbox0 = <<>>
       THEN isr_pc' = "clear" /\ UNCHANGED <<Cm4ToVspaQMbox0, vspambox>>
       ELSE /\ vspambox' = Head(Cm4ToVspaQMbox0)
            /\ Cm4ToVspaQMbox0' = Tail(Cm4ToVspaQMbox0)
            /\ isr_pc' = "msb"
    /\ UNCHANGED <<registers, taskVars, unread>>

IsrMsb ==
    /\ isr_pc = "msb"
    /\ host_out_msb' = vspambox
    /\ isr_pc' = "lsb"
    /\ UNCHANGED <<host_out_lsb, host_mbox_status, cm4_mbox_status>>
    /\ UNCHANGED <<Cm4ToVspaQMbox0, taskVars, vspambox, unread>>

IsrLsb ==
    /\ isr_pc = "lsb"
    /\ host_out_lsb' = vspambox /\ host_mbox_status' = TRUE
    /\ vspambox' = NoMsg
    /\ isr_pc' = "clear"
    /\ UNCHANGED <<host_out_msb, cm4_mbox_status, Cm4ToVspaQMbox0, taskVars, unread>>

\* The status is cleared last, whatever it has come to stand for since.
IsrClear ==
    /\ isr_pc = "clear"
    /\ cm4_mbox_status' = FALSE
    /\ isr_pc' = "idle"
    /\ UNCHANGED <<host_out_msb, host_out_lsb, host_mbox_status>>
    /\ UNCHANGED <<Cm4ToVspaQMbox0, taskVars, vspambox, unread>>

Isr == IsrDequeue \/ IsrMsb \/ IsrLsb \/ IsrClear

-------------------------------------------------------------------------------
(* The VSPA: mbox0_get. *)

VspaRead ==
    /\ host_mbox_status
    /\ host_mbox_status' = FALSE /\ cm4_mbox_status' = TRUE
    /\ unread' = IF host_out_msb = host_out_lsb THEN unread \ {host_out_msb} ELSE unread
    /\ UNCHANGED <<host_out_msb, host_out_lsb, Cm4ToVspaQMbox0, taskVars, isrVars>>

Next ==
    \/ \E t \in Task : (\E m \in Msg : Call(t, m)) \/ Send(t)
    \/ Isr
    \/ VspaRead

Spec == Init /\ [][Next]_vars

\* Every task inside the send goes on, interrupts are taken, the VSPA polls its
\* mailbox; while a cell is followed vSchedularLoop sends again and again.
FairSpec ==
    /\ Spec
    /\ \A t \in Task : WF_vars(Send(t)) /\ SF_vars(TakeMutex(t))
    /\ WF_vars(\E t \in Task, m \in Msg : Call(t, m))
    /\ WF_vars(Isr)
    /\ WF_vars(VspaRead)

-------------------------------------------------------------------------------
(* Properties. *)

\* The VSPA reads no message twice, neither after it was queued nor after it
\* was written by hand, whoever else writes the two registers meanwhile.
ReadOnce ==
    [][ host_mbox_status /\ ~ host_mbox_status' /\ host_out_msb = host_out_lsb
        => host_out_msb \in unread ]_vars

\* A message the VSPA has not read is not written over, by a task or by the
\* handler, although the test and the writes are apart: so with a prompt handler,
\* and only so, for then a task that saw the mailbox free has none to fear.
NothingOverwritten ==
    [][ prompt /\ host_mbox_status /\ host_mbox_status'
        => UNCHANGED <<host_out_msb, host_out_lsb>> ]_vars

\* As long as messages keep coming none stays in the queue: an acknowledgement
\* that the handler erases delays the queue, and a later one moves it on.
QueueMoves ==
    \A m \in Msg : m \in Range(Cm4ToVspaQMbox0) ~> m \notin Range(Cm4ToVspaQMbox0)

\* "@return : 0 on sucess" (la9310_avi.h:58) of a call that "Sends MBOX to
\* VSPA": a queued message has an acknowledgement to come that will send it.
NothingStranded ==
    /\ Cm4ToVspaQMbox0 # <<>>
    /\ prompt /\ isr_pc = "idle" /\ \A t \in Task : pc[t] = "idle"
    => host_mbox_status \/ cm4_mbox_status
===============================================================================
