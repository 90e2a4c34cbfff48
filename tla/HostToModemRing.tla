---------------------------- MODULE HostToModemRing ----------------------------
(***************************************************************************)
(* The host-to-modem channel of the bbdev IPC: a ring of Depth buffer      *)
(* descriptors over PCIe.  The host poll-mode driver (bbdev_la93xx.c)      *)
(* produces and the FreeRTOS driver (bbdev_ipc.c) consumes.                *)
(*                                                                         *)
(* Each index lives twice: its owner keeps a private copy and publishes it *)
(* in the peer's memory after a barrier.  The host advances host_pi and    *)
(* then writes md->pi in modem memory; the modem advances its private      *)
(* consumer index and then writes host_params->ci in host memory.  In      *)
(* confirmation mode the host keeps a third index, host_ci, of the         *)
(* confirmations it has picked up, and slots are free only behind that.    *)
(*                                                                         *)
(* One sender: bbdev queues are not thread safe and the driver takes no    *)
(* lock.  A message stands for its payload, for the op structure that      *)
(* describes it and for the verdict the modem stores about it.             *)
(***************************************************************************)
EXTENDS Naturals, Sequences

CONSTANTS
    Depth,          \* descriptors in the ring (at most IPC_MAX_DEPTH = 4)
    Msg,
    NoMsg           \* a zeroed buffer, or no value at all

ASSUME DepthAssumption == Depth \in Nat \ {0}
ASSUME NoMsgAssumption == NoMsg \notin Msg

Slot == 0 .. Depth - 1

VARIABLES
    conf_enable,    \* set by both sides for good when the queue is configured:
                    \* TRUE, the modem's verdict is handed back to the host
    \* host, private (struct bbdev_la93xx_q_priv)
    host_pi, host_ci, bbdev_op, internal_bufs,
    \* modem memory, written by the host (md->pi and the bd_m descriptors)
    md_pi, bd_m,
    \* host memory, written by the modem (host_params->ci, status words)
    hp_ci, status,
    \* modem, private (md_priv_queue.ci and the dequeued message)
    modem_ci, held,
    \* control: where the sender and the receiver stand, the sender's buffer
    \* and message, and the confirmation returned last
    tx_pc, tx_buf, tx_msg, rx_pc, confirmed

hostVars == <<conf_enable, host_pi, host_ci, bbdev_op, internal_bufs, md_pi, bd_m,
              tx_pc, tx_buf, tx_msg, confirmed>>
modemVars == <<hp_ci, status, modem_ci, held, rx_pc>>
vars == <<hostVars, modemVars>>

TypeOK ==
    /\ conf_enable \in BOOLEAN
    /\ host_pi \in Slot /\ host_ci \in Slot /\ md_pi \in Slot
    /\ modem_ci \in Slot /\ hp_ci \in Slot
    /\ bbdev_op \in [Slot -> Msg \cup {NoMsg}]
    /\ internal_bufs \in [Slot -> Msg \cup {NoMsg}]
    /\ bd_m \in [Slot -> Slot]
    /\ status \in [Slot -> Msg \cup {NoMsg}]
    /\ held \in Msg \cup {NoMsg}
    /\ tx_pc \in {"idle", "fill", "enqueue", "publish"}
    /\ tx_buf \in Slot
    /\ tx_msg \in Msg \cup {NoMsg}
    /\ rx_pc \in {"idle", "work", "release"}
    /\ confirmed \in [op : Msg \cup {NoMsg}, status : Msg \cup {NoMsg}]

\* Definitions named Fault... are what a plausible mistake would make of the
\* definition that follows; no specification uses them.

\* The wrap-around forgotten.
FaultSuccNoWrap(i) == i + 1

\* Both drivers: the index after i, reset when it reaches the ring size.
Succ(i) == IF i + 1 = Depth THEN 0 ELSE i + 1

\* The remainder forgotten: the last descriptor before the wrap looks free.
FaultFullNoWrap(ci, pi) == pi + 1 = ci

is_bd_ring_full(ci, pi) == (pi + 1) % Depth = ci
is_bd_ring_empty(ci, pi) == ci = pi

\* Confirmation mode ignored: free space measured against the modem's index.
FaultProducerCi == hp_ci

\* The consumer index the sender measures free space against.
ProducerCi == IF conf_enable THEN host_ci ELSE hp_ci

\* The test dropped.
FaultHasRoom == TRUE

\* The test get_next_raw_buf and enqueue_raw_op make first.
HasRoom == ~ is_bd_ring_full(ProducerCi, host_pi)

Init ==
    /\ conf_enable \in BOOLEAN
    /\ host_pi = 0 /\ host_ci = 0 /\ md_pi = 0 /\ modem_ci = 0 /\ hp_ci = 0
    /\ bbdev_op = [i \in Slot |-> NoMsg]
    /\ internal_bufs = [i \in Slot |-> NoMsg]
    /\ bd_m = [i \in Slot |-> 0]
    /\ status = [i \in Slot |-> NoMsg]
    /\ held = NoMsg
    /\ tx_pc = "idle" /\ tx_buf = 0 /\ tx_msg = NoMsg
    /\ rx_pc = "idle"
    /\ confirmed = [op |-> NoMsg, status |-> NoMsg]

-------------------------------------------------------------------------------
(* Host: the sender. *)

\* get_next_raw_buf, and the memset get_tx_buf does on the buffer it returns.
\* On a full ring NULL is returned and nothing changes.
GetBuf ==
    /\ tx_pc = "idle"
    /\ HasRoom
    /\ tx_buf' = host_pi
    /\ internal_bufs' = [internal_bufs EXCEPT ![host_pi] = NoMsg]
    /\ tx_pc' = "fill"
    /\ UNCHANGED <<conf_enable, host_pi, host_ci, bbdev_op, md_pi, bd_m, tx_msg, confirmed>>
    /\ UNCHANGED modemVars

\* The caller builds its message in the buffer.
FillBuf(m) ==
    /\ tx_pc = "fill"
    /\ internal_bufs' = [internal_bufs EXCEPT ![tx_buf] = m]
    /\ tx_msg' = m
    /\ tx_pc' = "enqueue"
    /\ UNCHANGED <<conf_enable, host_pi, host_ci, bbdev_op, md_pi, bd_m, tx_buf, confirmed>>
    /\ UNCHANGED modemVars

\* send_msg gives up before the enqueue when a modem reset is in progress.
GiveUp ==
    /\ tx_pc = "enqueue"
    /\ tx_pc' = "idle"
    /\ UNCHANGED <<conf_enable, host_pi, host_ci, bbdev_op, internal_bufs, md_pi, bd_m,
                   tx_buf, tx_msg, confirmed>>
    /\ UNCHANGED modemVars

\* enqueue_raw_op up to the barrier.  On a full ring it returns -EBUSY and
\* changes nothing; the caller calls again.
EnqueueRawOp ==
    /\ tx_pc = "enqueue"
    /\ HasRoom
    /\ bd_m' = [bd_m EXCEPT ![host_pi] = tx_buf]
    /\ bbdev_op' = [bbdev_op EXCEPT ![host_pi] = tx_msg]
    /\ host_pi' = Succ(host_pi)
    /\ tx_pc' = "publish"
    /\ UNCHANGED <<conf_enable, host_ci, internal_bufs, md_pi, tx_buf, tx_msg, confirmed>>
    /\ UNCHANGED modemVars

\* enqueue_raw_op after the barrier: the modem may see the descriptor.
PublishPi ==
    /\ tx_pc = "publish"
    /\ md_pi' = host_pi
    /\ tx_pc' = "idle"
    /\ UNCHANGED <<conf_enable, host_pi, host_ci, bbdev_op, internal_bufs, bd_m,
                   tx_buf, tx_msg, confirmed>>
    /\ UNCHANGED modemVars

\* dequeue_raw_op of a host-to-modem queue: pick up one confirmation.
DequeueConfirmation ==
    /\ conf_enable
    /\ tx_pc = "idle"
    /\ hp_ci # host_ci
    /\ confirmed' = [op |-> bbdev_op[host_ci], status |-> status[host_ci]]
    /\ host_ci' = Succ(host_ci)
    /\ UNCHANGED <<conf_enable, host_pi, bbdev_op, internal_bufs, md_pi, bd_m,
                   tx_pc, tx_buf, tx_msg>>
    /\ UNCHANGED modemVars

-------------------------------------------------------------------------------
(* Modem: the receiver. *)

\* bbdev_ipc_dequeue_raw_op of a host-to-modem queue: a look at the oldest
\* descriptor; the index stays, the message is read in place.
DequeueRawOp ==
    /\ rx_pc = "idle"
    /\ ~ is_bd_ring_empty(modem_ci, md_pi)
    /\ held' = internal_bufs[bd_m[modem_ci]]
    /\ rx_pc' = "work"
    /\ UNCHANGED <<hp_ci, status, modem_ci>>
    /\ UNCHANGED hostVars

\* bbdev_ipc_consume_raw_op up to the barrier: store the verdict, advance.
ConsumeRawOp ==
    /\ rx_pc = "work"
    /\ status' = [status EXCEPT ![modem_ci] = held]
    /\ modem_ci' = Succ(modem_ci)
    /\ held' = NoMsg
    /\ rx_pc' = "release"
    /\ UNCHANGED hp_ci
    /\ UNCHANGED hostVars

\* An index published one slot too far.
FaultPublishCiEarly ==
    /\ rx_pc = "release"
    /\ hp_ci' = Succ(modem_ci)
    /\ rx_pc' = "idle"
    /\ UNCHANGED <<status, modem_ci, held>>
    /\ UNCHANGED hostVars

\* The shared index not written.
FaultPublishCiLost ==
    /\ rx_pc = "release"
    /\ rx_pc' = "idle"
    /\ UNCHANGED <<hp_ci, status, modem_ci, held>>
    /\ UNCHANGED hostVars

\* bbdev_ipc_consume_raw_op after the barrier: the host may see the index.
PublishCi ==
    /\ rx_pc = "release"
    /\ hp_ci' = modem_ci
    /\ rx_pc' = "idle"
    /\ UNCHANGED <<status, modem_ci, held>>
    /\ UNCHANGED hostVars

Host ==
    \/ GetBuf
    \/ \E m \in Msg : FillBuf(m)
    \/ GiveUp
    \/ EnqueueRawOp
    \/ PublishPi
    \/ DequeueConfirmation

Modem == DequeueRawOp \/ ConsumeRawOp \/ PublishCi

Next == Host \/ Modem

\* vRxLoop never stops polling the ring; a send that was started runs to its
\* end.  An application that asked for confirmations calls the dequeue again
\* and again between its sends (host_to_modem_test spins on it after each
\* enqueue), hence strong fairness there.
Fairness ==
    /\ WF_vars(\E m \in Msg : FillBuf(m))
    /\ WF_vars(EnqueueRawOp \/ GiveUp)
    /\ WF_vars(PublishPi)
    /\ SF_vars(DequeueConfirmation)
    /\ WF_vars(Modem)

Spec == Init /\ [][Next]_vars

FairSpec == Spec /\ Fairness

-------------------------------------------------------------------------------
(* Safety. *)

\* A sender that was given the next internal buffer never meets a full ring
\* when it enqueues it: enqueue_raw_op re-reads the peer's index, and send_msg
\* could exhaust its retries, but the index can only have freed more slots.
EnqueueNeverBusy ==
    tx_pc = "enqueue" => ~ is_bd_ring_full(ProducerCi, host_pi)

\* The message the firmware reads in place, from bbdev_ipc_dequeue_raw_op to
\* bbdev_ipc_consume_raw_op, is a complete one and stays what it was: the host
\* neither clears nor refills the buffer behind it.
MessageStableWhileHeld ==
    rx_pc = "work" => /\ held \in Msg
                      /\ internal_bufs[bd_m[modem_ci]] = held

\* The verdict returned with a confirmation is the one the modem stored for
\* that very operation, however far the two sides have run ahead of each other.
ConfirmationMatches == confirmed.op = confirmed.status

\* Steps forward from index a to index b around the ring.
Dist(a, b) == IF b >= a THEN b - a ELSE b + Depth - a

\* The channel implements the bounded queue: of Depth descriptors one stays
\* unused, a message is outstanding from the host's write of md->pi until its
\* slot is free for the sender, and is finished when the modem's index passes.
SlotAt(n) == (ProducerCi + n) % Depth
MessageAt(n) == internal_bufs[bd_m[SlotAt(n)]]
QueueSlots == [k \in 1 .. Dist(ProducerCi, md_pi) |-> MessageAt(k - 1)]
QueueDone == Dist(ProducerCi, modem_ci)
Queue == INSTANCE BoundedQueue WITH
    Capacity <- Depth - 1, slots <- QueueSlots, done <- QueueDone

\* Every message handed over is delivered once, in order and unchanged, is
\* finished, and its slot returns to the sender (safety and liveness of
\* BoundedQueue).
ImplementsQueue == Queue!Spec

\* A sender facing a full ring is not starved: polling again eventually finds
\* a free descriptor (the modem consumes, and in confirmation mode the host
\* picks up the confirmations).
SenderNotStarved ==
    is_bd_ring_full(ProducerCi, host_pi) ~> ~ is_bd_ring_full(ProducerCi, host_pi)

-------------------------------------------------------------------------------
(* The inductive invariant behind the theorems of HostToModemRingProofs. *)

\* Going round from the sender's consumer index: what the host knows is
\* consumed, what the modem has consumed, what is published, what is written.
IndexOrder ==
    /\ Dist(ProducerCi, hp_ci) <= Dist(ProducerCi, modem_ci)
    /\ Dist(ProducerCi, modem_ci) <= Dist(ProducerCi, md_pi)
    /\ Dist(ProducerCi, md_pi) <= Dist(ProducerCi, host_pi)

\* How far the two copies of an index may be apart, and what a pc implies.
Control ==
    /\ host_pi = IF tx_pc = "publish" THEN Succ(md_pi) ELSE md_pi
    /\ modem_ci = IF rx_pc = "release" THEN Succ(hp_ci) ELSE hp_ci
    /\ rx_pc = "work" => modem_ci # md_pi
    /\ tx_pc \in {"fill", "enqueue"} =>
          /\ tx_buf = host_pi
          /\ ~ is_bd_ring_full(ProducerCi, host_pi)
    /\ tx_pc = "enqueue" => tx_msg \in Msg /\ internal_bufs[tx_buf] = tx_msg

Written(i) ==
    /\ Dist(ProducerCi, modem_ci) <= Dist(ProducerCi, i)
    /\ Dist(ProducerCi, i) < Dist(ProducerCi, host_pi)

Finished(i) == Dist(ProducerCi, i) < Dist(ProducerCi, modem_ci)

\* What the slots between the indexes hold.
Contents ==
    /\ \A i \in Slot : Written(i) =>
          /\ bd_m[i] = i
          /\ internal_bufs[i] \in Msg
          /\ bbdev_op[i] = internal_bufs[i]
    /\ \A i \in Slot : Finished(i) => status[i] = bbdev_op[i]
    /\ rx_pc = "work" => held = internal_bufs[modem_ci]
    /\ ConfirmationMatches

IInv == TypeOK /\ IndexOrder /\ Control /\ Contents

===============================================================================
