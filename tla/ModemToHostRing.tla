---------------------------- MODULE ModemToHostRing ----------------------------
(***************************************************************************)
(* The modem-to-host channel of the bbdev IPC: the firmware produces       *)
(* (bbdev_ipc.c, called from nmm_app.c), the host poll thread consumes     *)
(* (bbdev_la93xx.c, called from nmm_lib.c).                                *)
(*                                                                         *)
(* The ring of HostToModemRing in the other direction, with one difference *)
(* that matters: the firmware sends from several FreeRTOS tasks (vRxLoop,  *)
(* vVSPALoop, vMibLoop, the timer task) and no lock is held from the       *)
(* request for a buffer to the publication of the index.  A step of        *)
(* a sender is therefore as fine here as a preemption can see it.          *)
(***************************************************************************)
EXTENDS Naturals, Sequences

CONSTANTS
    Task,           \* the firmware tasks that send
    Prio,           \* their FreeRTOS priorities (main.c), [Task -> Nat]
    Depth,          \* descriptors in the ring (at most IPC_MAX_DEPTH = 4)
    Msg,
    NoMsg           \* a buffer never written, or no value at all

ASSUME PrioAssumption == Prio \in [Task -> Nat]
ASSUME DepthAssumption == Depth \in Nat \ {0}
ASSUME NoMsgAssumption == NoMsg \notin Msg

Slot == 0 .. Depth - 1

VARIABLES
    conf_enable,    \* set by both sides for good when the queue is configured:
                    \* TRUE, the host's verdict is handed back to the modem
    \* modem, private: md_priv_queue.pi, .ci, .op, .internal_bufs
    modem_pi, modem_ci, op, internal_bufs,
    \* modem memory, written by the host: md->ci and the bd_m status words
    md_ci, status,
    \* host memory, written by the modem: host_params->pi, bd_h descriptors
    hp_pi, bd_h,
    \* host, private: q_priv->host_ci and the dequeued message
    host_ci, held,
    \* each task's place in prvSendMsgToHost, its buffer, message, local pi
    tx_pc, tx_buf, tx_msg, local_pi,
    \* the poll thread's place, and the confirmation returned last
    rx_pc, confirmed

taskVars == <<tx_pc, tx_buf, tx_msg, local_pi>>
modemVars == <<modem_pi, modem_ci, op, internal_bufs, hp_pi, bd_h, confirmed>>
hostVars == <<conf_enable, host_ci, held, rx_pc, md_ci, status>>
vars == <<taskVars, modemVars, hostVars>>

TypeOK ==
    /\ conf_enable \in BOOLEAN
    /\ modem_pi \in Slot /\ modem_ci \in Slot /\ md_ci \in Slot
    /\ hp_pi \in Slot /\ host_ci \in Slot
    /\ op \in [Slot -> Msg \cup {NoMsg}]
    /\ internal_bufs \in [Slot -> Msg \cup {NoMsg}]
    /\ status \in [Slot -> Msg \cup {NoMsg}]
    /\ bd_h \in [Slot -> Slot]
    /\ held \in Msg \cup {NoMsg}
    /\ tx_pc \in [Task -> {"idle", "fill", "enqueue", "describe", "advance", "publish"}]
    /\ tx_buf \in [Task -> Slot]
    /\ tx_msg \in [Task -> Msg \cup {NoMsg}]
    /\ local_pi \in [Task -> Slot]
    /\ rx_pc \in {"idle", "work", "release"}
    /\ confirmed \in [op : Msg \cup {NoMsg}, status : Msg \cup {NoMsg}]

\* Definitions named Fault... are what a plausible mistake would make of the
\* definition that follows; no specification uses them.

\* The wrap-around forgotten.
FaultSuccNoWrap(i) == i + 1

\* Both drivers: the index after i, reset when it reaches the ring size.
Succ(i) == IF i + 1 = Depth THEN 0 ELSE i + 1

\* The remainder forgotten: the last descriptor before the wrap looks free.
FaultFullNoWrap(ci, pi) == pi + 1 = ci

is_bd_ring_full(ci, pi) == (pi + 1) % Depth = ci
is_bd_ring_empty(ci, pi) == ci = pi

\* Confirmation mode ignored: free space measured against the host's index.
FaultProducerCi == md_ci

\* The consumer index the senders measure free space against.
ProducerCi == IF conf_enable THEN modem_ci ELSE md_ci

Sending(t) == tx_pc[t] # "idle"

\* Strict-priority preemptive scheduling: a task runs only while no task of
\* higher priority is ready, and one in the middle of a send is ready.
\* Tasks of equal priority are time-sliced.
Runs(t) == \A u \in Task : Sending(u) => Prio[u] <= Prio[t]

Init ==
    /\ conf_enable \in BOOLEAN
    /\ modem_pi = 0 /\ modem_ci = 0 /\ md_ci = 0 /\ hp_pi = 0 /\ host_ci = 0
    /\ op = [i \in Slot |-> NoMsg]
    /\ internal_bufs = [i \in Slot |-> NoMsg]
    /\ status = [i \in Slot |-> NoMsg]
    /\ bd_h = [i \in Slot |-> 0]
    /\ held = NoMsg
    /\ tx_pc = [t \in Task |-> "idle"]
    /\ tx_buf = [t \in Task |-> 0]
    /\ tx_msg = [t \in Task |-> NoMsg]
    /\ local_pi = [t \in Task |-> 0]
    /\ rx_pc = "idle"
    /\ confirmed = [op |-> NoMsg, status |-> NoMsg]

-------------------------------------------------------------------------------
(* Modem: a sending task. *)

\* The buffer of the oldest slot given out, the indexes mixed up.
FaultGetTxBufOfConsumer(t) ==
    /\ Runs(t) /\ tx_pc[t] = "idle"
    /\ ~ is_bd_ring_full(ProducerCi, modem_pi)
    /\ tx_buf' = [tx_buf EXCEPT ![t] = modem_ci]
    /\ tx_pc' = [tx_pc EXCEPT ![t] = "fill"]
    /\ UNCHANGED <<tx_msg, local_pi>>
    /\ UNCHANGED <<modemVars, hostVars>>

\* prvGetTxBuf: bbdev_ipc_get_next_internal_buf returns the buffer of the
\* slot the next enqueue will use.  Ring full through all retries: the caller
\* drops its message, nothing changes.
prvGetTxBuf(t) ==
    /\ Runs(t) /\ tx_pc[t] = "idle"
    /\ ~ is_bd_ring_full(ProducerCi, modem_pi)
    /\ tx_buf' = [tx_buf EXCEPT ![t] = modem_pi]
    /\ tx_pc' = [tx_pc EXCEPT ![t] = "fill"]
    /\ UNCHANGED <<tx_msg, local_pi>>
    /\ UNCHANGED <<modemVars, hostVars>>

\* prvSendMsgToHost and its like build the message in the buffer.
FillBuf(t, m) ==
    /\ Runs(t) /\ tx_pc[t] = "fill"
    /\ internal_bufs' = [internal_bufs EXCEPT ![tx_buf[t]] = m]
    /\ tx_msg' = [tx_msg EXCEPT ![t] = m]
    /\ tx_pc' = [tx_pc EXCEPT ![t] = "enqueue"]
    /\ UNCHANGED <<tx_buf, local_pi, modem_pi, modem_ci, op, hp_pi, bd_h, confirmed>>
    /\ UNCHANGED hostVars

\* prvSendRaw returns without a word when a modem reset has begun, or when
\* the ring stayed full through all its retries.
GiveUp(t) ==
    /\ Runs(t) /\ tx_pc[t] = "enqueue"
    /\ tx_pc' = [tx_pc EXCEPT ![t] = "idle"]
    /\ UNCHANGED <<tx_buf, tx_msg, local_pi>>
    /\ UNCHANGED <<modemVars, hostVars>>

\* bbdev_ipc_enqueue_raw_op: the producer index is read and room is tested.
EnqueueTest(t) ==
    /\ Runs(t) /\ tx_pc[t] = "enqueue"
    /\ ~ is_bd_ring_full(ProducerCi, modem_pi)
    /\ local_pi' = [local_pi EXCEPT ![t] = modem_pi]
    /\ tx_pc' = [tx_pc EXCEPT ![t] = "describe"]
    /\ UNCHANGED <<tx_buf, tx_msg>>
    /\ UNCHANGED <<modemVars, hostVars>>

\* ... the descriptor in host memory is filled in, the op remembered ...
WriteDescriptor(t) ==
    /\ Runs(t) /\ tx_pc[t] = "describe"
    /\ bd_h' = [bd_h EXCEPT ![local_pi[t]] = tx_buf[t]]
    /\ op' = [op EXCEPT ![local_pi[t]] = tx_msg[t]]
    /\ tx_pc' = [tx_pc EXCEPT ![t] = "advance"]
    /\ UNCHANGED <<tx_buf, tx_msg, local_pi,
                   modem_pi, modem_ci, internal_bufs, hp_pi, confirmed>>
    /\ UNCHANGED hostVars

\* ... the private index moves on from the value read at the start ...
AdvancePi(t) ==
    /\ Runs(t) /\ tx_pc[t] = "advance"
    /\ modem_pi' = Succ(local_pi[t])
    /\ local_pi' = [local_pi EXCEPT ![t] = Succ(local_pi[t])]
    /\ tx_pc' = [tx_pc EXCEPT ![t] = "publish"]
    /\ UNCHANGED <<tx_buf, tx_msg,
                   modem_ci, op, internal_bufs, hp_pi, bd_h, confirmed>>
    /\ UNCHANGED hostVars

\* ... and, after the barrier, is written to host memory.
PublishPi(t) ==
    /\ Runs(t) /\ tx_pc[t] = "publish"
    /\ hp_pi' = local_pi[t]
    /\ tx_pc' = [tx_pc EXCEPT ![t] = "idle"]
    /\ UNCHANGED <<tx_buf, tx_msg, local_pi,
                   modem_pi, modem_ci, op, internal_bufs, bd_h, confirmed>>
    /\ UNCHANGED hostVars

\* bbdev_ipc_dequeue_raw_op of a modem-to-host queue: one confirmation.
DequeueConfirmation(t) ==
    /\ conf_enable
    /\ Runs(t) /\ tx_pc[t] = "idle"
    /\ md_ci # modem_ci
    /\ confirmed' = [op |-> op[modem_ci], status |-> status[modem_ci]]
    /\ modem_ci' = Succ(modem_ci)
    /\ UNCHANGED <<modem_pi, op, internal_bufs, hp_pi, bd_h>>
    /\ UNCHANGED <<taskVars, hostVars>>

-------------------------------------------------------------------------------
(* Host: the poll thread. *)

\* dequeue_raw_op of a modem-to-host queue: a look at the oldest descriptor.
DequeueRawOp ==
    /\ rx_pc = "idle"
    /\ ~ is_bd_ring_empty(host_ci, hp_pi)
    /\ held' = internal_bufs[bd_h[host_ci]]
    /\ rx_pc' = "work"
    /\ UNCHANGED <<conf_enable, host_ci, md_ci, status>>
    /\ UNCHANGED <<taskVars, modemVars>>

\* consume_raw_op, after process_rx, up to the barrier.
ConsumeRawOp ==
    /\ rx_pc = "work"
    /\ status' = [status EXCEPT ![host_ci] = held]
    /\ host_ci' = Succ(host_ci)
    /\ held' = NoMsg
    /\ rx_pc' = "release"
    /\ UNCHANGED <<conf_enable, md_ci>>
    /\ UNCHANGED <<taskVars, modemVars>>

\* The shared index not written.
FaultPublishCiLost ==
    /\ rx_pc = "release"
    /\ rx_pc' = "idle"
    /\ UNCHANGED <<conf_enable, host_ci, held, md_ci, status>>
    /\ UNCHANGED <<taskVars, modemVars>>

\* consume_raw_op after the barrier: md->ci in modem memory.
PublishCi ==
    /\ rx_pc = "release"
    /\ md_ci' = host_ci
    /\ rx_pc' = "idle"
    /\ UNCHANGED <<conf_enable, host_ci, held, status>>
    /\ UNCHANGED <<taskVars, modemVars>>

Send(t) ==
    \/ prvGetTxBuf(t)
    \/ \E m \in Msg : FillBuf(t, m)
    \/ GiveUp(t)
    \/ EnqueueTest(t)
    \/ WriteDescriptor(t)
    \/ AdvancePi(t)
    \/ PublishPi(t)

Host == DequeueRawOp \/ ConsumeRawOp \/ PublishCi

Next ==
    \/ \E t \in Task : Send(t) \/ DequeueConfirmation(t)
    \/ Host

Spec == Init /\ [][Next]_vars

\* nmm_poll_loop never stops polling; a send that was started runs to its end;
\* a task that asked for confirmations spins on the dequeue after each enqueue
\* (modem_to_host_test), hence strong fairness there.
FairSpec ==
    /\ Spec
    /\ WF_vars(Host)
    /\ \A t \in Task : /\ WF_vars(Sending(t) /\ Send(t))
                       /\ SF_vars(DequeueConfirmation(t))

-------------------------------------------------------------------------------
(* What one sender may rely on. *)

\* The message the host processes in place, from dequeue_raw_op to
\* consume_raw_op, is a complete one and stays what it was.
MessageStableWhileHeld ==
    rx_pc = "work" => /\ held \in Msg
                      /\ internal_bufs[bd_h[host_ci]] = held

\* The verdict returned with a confirmation is the one the host stored for
\* that very operation.
ConfirmationMatches == confirmed.op = confirmed.status

\* Steps forward from index a to index b around the ring.
Dist(a, b) == IF b >= a THEN b - a ELSE b + Depth - a

\* The channel as a bounded queue: a message is outstanding from the write of
\* host_params->pi until its slot is free for the sender.
SlotAt(n) == (ProducerCi + n) % Depth
MessageAt(n) == internal_bufs[bd_h[SlotAt(n)]]
QueueSlots == [k \in 1 .. Dist(ProducerCi, hp_pi) |-> MessageAt(k - 1)]
QueueDone == Dist(ProducerCi, host_ci)
Queue == INSTANCE BoundedQueue WITH
    Capacity <- Depth - 1, slots <- QueueSlots, done <- QueueDone

\* Every message handed over reaches the poll thread once, in order and
\* unchanged, is finished, and its slot returns to the sender.
ImplementsQueue == Queue!Spec

\* A send that was given a buffer ends with the message handed over or with
\* prvSendRaw's decision to drop it; a full ring never lasts.
SenderNotStarved ==
    is_bd_ring_full(ProducerCi, modem_pi) ~> ~ is_bd_ring_full(ProducerCi, modem_pi)

-------------------------------------------------------------------------------
(* What the documentation of the channel promises every sender. *)

\* "This API would return buffer associated with next enqueue operation. Note:
\* Each enqueue operation has only one associated internal buffer."
\* (bbdev_ipc.h:111-112): no two messages outstanding lie in one buffer.
EachEnqueueHasItsBuffer ==
    \A k, l \in 0 .. Dist(ProducerCi, hp_pi) - 1 :
        k # l => bd_h[SlotAt(k)] # bd_h[SlotAt(l)]

-------------------------------------------------------------------------------
(* The inductive invariant behind the theorems of ModemToHostRingProofs: what *)
(* holds as long as one task sends.                                           *)

OneTask == \A t, u \in Task : t = u

\* Going round from the senders' consumer index: what the modem knows is
\* consumed, what the host has consumed, what is published, what is written.
IndexOrder ==
    /\ Dist(ProducerCi, md_ci) <= Dist(ProducerCi, host_ci)
    /\ Dist(ProducerCi, host_ci) <= Dist(ProducerCi, hp_pi)
    /\ Dist(ProducerCi, hp_pi) <= Dist(ProducerCi, modem_pi)

\* From prvGetTxBuf to the write of the private index a task's buffer is the
\* one of the next slot, which is free, and the task's message lies in it.
SenderHolds(t) ==
    /\ tx_pc[t] \in {"fill", "enqueue", "describe", "advance"} =>
          /\ tx_buf[t] = modem_pi
          /\ ~ is_bd_ring_full(ProducerCi, modem_pi)
    /\ tx_pc[t] \in {"enqueue", "describe", "advance"} =>
          /\ tx_msg[t] \in Msg
          /\ internal_bufs[modem_pi] = tx_msg[t]
    /\ tx_pc[t] \in {"describe", "advance"} => local_pi[t] = modem_pi
    /\ tx_pc[t] = "advance" => bd_h[modem_pi] = modem_pi /\ op[modem_pi] = tx_msg[t]
    /\ tx_pc[t] = "publish" => modem_pi = Succ(hp_pi) /\ local_pi[t] = modem_pi

\* How far the two copies of an index may be apart, and what a pc implies.
Control ==
    /\ \A t \in Task : SenderHolds(t)
    /\ (\A t \in Task : tx_pc[t] # "publish") => modem_pi = hp_pi
    /\ host_ci = IF rx_pc = "release" THEN Succ(md_ci) ELSE md_ci
    /\ rx_pc = "work" => host_ci # hp_pi

Written(i) ==
    /\ Dist(ProducerCi, host_ci) <= Dist(ProducerCi, i)
    /\ Dist(ProducerCi, i) < Dist(ProducerCi, modem_pi)

Finished(i) == Dist(ProducerCi, i) < Dist(ProducerCi, host_ci)

\* What the slots between the indexes hold.
Contents ==
    /\ \A i \in Slot : Written(i) =>
          /\ bd_h[i] = i
          /\ internal_bufs[i] \in Msg
          /\ op[i] = internal_bufs[i]
    /\ \A i \in Slot : Finished(i) => status[i] = op[i]
    /\ rx_pc = "work" => held = internal_bufs[host_ci]
    /\ ConfirmationMatches

IInv == TypeOK /\ IndexOrder /\ Control /\ Contents
===============================================================================
