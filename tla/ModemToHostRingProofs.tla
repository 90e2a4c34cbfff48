------------------------ MODULE ModemToHostRingProofs -------------------------
(***************************************************************************)
(* Safety of the modem-to-host channel for every ring size and every set   *)
(* of messages, with and without confirmations.  The types hold whatever   *)
(* the number of tasks; the rest, down to the channel being the queue of   *)
(* BoundedQueue, holds as long as one task sends, by the inductive         *)
(* invariant IInv.  With two tasks it is false: the run                    *)
(* modem_to_host_twotasks.                                                 *)
(***************************************************************************)
EXTENDS ModemToHostRing, ArithmeticLemmas, SequenceTheorems, TLAPS

-------------------------------------------------------------------------------
(* Arithmetic of the ring. *)

\* The drivers' two ways of going round the ring, a test after the increment
\* and a remainder, agree.
LEMMA SuccIsMod ==
    ASSUME NEW i \in Slot
    PROVE  /\ Succ(i) \in Slot
           /\ (i + 1) % Depth = Succ(i)
  <1>1. (i + 1) % Depth = Succ(i)
    BY SuccessorMod, DepthAssumption DEF Succ, Slot
  <1> QED
    BY <1>1, DepthAssumption DEF Succ, Slot

\* Distances are counts of slots.
LEMMA DistType ==
    ASSUME NEW a \in Slot, NEW b \in Slot
    PROVE  /\ Dist(a, b) \in Nat
           /\ Dist(a, b) < Depth
           /\ (Dist(a, b) = 0) <=> (a = b)
  BY DepthAssumption DEF Dist, Slot

\* Distances from one origin tell slots apart.
LEMMA DistInjective ==
    ASSUME NEW a \in Slot, NEW b \in Slot, NEW c \in Slot,
           Dist(a, b) = Dist(a, c)
    PROVE  b = c
  BY DepthAssumption DEF Dist, Slot

\* Going on by one slot adds one to the distance unless it closes the circle.
LEMMA DistSucc ==
    ASSUME NEW a \in Slot, NEW b \in Slot
    PROVE  Dist(a, Succ(b)) = IF Succ(b) = a THEN 0 ELSE Dist(a, b) + 1
  BY DepthAssumption DEF Dist, Slot, Succ

\* Moving the origin on by one takes one from every other distance.
LEMMA DistSuccOrigin ==
    ASSUME NEW a \in Slot, NEW b \in Slot, a # b
    PROVE  Dist(Succ(a), b) = Dist(a, b) - 1
  BY DepthAssumption DEF Dist, Slot, Succ

\* A ring that is not full has room for one more step.
LEMMA NotFull ==
    ASSUME NEW a \in Slot, NEW b \in Slot, ~ is_bd_ring_full(a, b)
    PROVE  Dist(a, Succ(b)) = Dist(a, b) + 1
  BY SuccIsMod, DistSucc DEF is_bd_ring_full

\* A slot that has another one ahead of it can be stepped over.
LEMMA RoomToStep ==
    ASSUME NEW a \in Slot, NEW b \in Slot, NEW c \in Slot,
           Dist(a, b) < Dist(a, c)
    PROVE  Dist(a, Succ(b)) = Dist(a, b) + 1
  BY DepthAssumption DEF Dist, Slot, Succ

-------------------------------------------------------------------------------
(* Types, with any number of senders. *)

LEMMA InitType == Init => TypeOK
  BY DepthAssumption DEF Init, TypeOK, Slot

LEMMA NextType ==
    ASSUME TypeOK, [Next]_vars PROVE TypeOK'
  <1> USE DEF TypeOK, taskVars, modemVars, hostVars
  <1>1. ASSUME NEW t \in Task, prvGetTxBuf(t) PROVE TypeOK'
    BY <1>1 DEF prvGetTxBuf
  <1>2. ASSUME NEW t \in Task, NEW m \in Msg, FillBuf(t, m) PROVE TypeOK'
    BY <1>2 DEF FillBuf
  <1>3. ASSUME NEW t \in Task, GiveUp(t) PROVE TypeOK'
    BY <1>3 DEF GiveUp
  <1>4. ASSUME NEW t \in Task, EnqueueTest(t) PROVE TypeOK'
    BY <1>4 DEF EnqueueTest
  <1>5. ASSUME NEW t \in Task, WriteDescriptor(t) PROVE TypeOK'
    BY <1>5 DEF WriteDescriptor
  <1>6. ASSUME NEW t \in Task, AdvancePi(t) PROVE TypeOK'
    BY <1>6, SuccIsMod DEF AdvancePi
  <1>7. ASSUME NEW t \in Task, PublishPi(t) PROVE TypeOK'
    BY <1>7 DEF PublishPi
  <1>8. ASSUME NEW t \in Task, DequeueConfirmation(t) PROVE TypeOK'
    BY <1>8, SuccIsMod DEF DequeueConfirmation
  <1>9. CASE DequeueRawOp
    BY <1>9 DEF DequeueRawOp
  <1>10. CASE ConsumeRawOp
    BY <1>10, SuccIsMod DEF ConsumeRawOp
  <1>11. CASE PublishCi
    BY <1>11 DEF PublishCi
  <1>12. CASE UNCHANGED vars
    BY <1>12 DEF vars
  <1> QED
    BY <1>1, <1>2, <1>3, <1>4, <1>5, <1>6, <1>7, <1>8, <1>9, <1>10, <1>11, <1>12
       DEF Next, Send, Host

-------------------------------------------------------------------------------
(* The invariant holds initially and is kept by every action of a sender. *)

LEMMA InitInv == Init => IInv
  <1> SUFFICES ASSUME Init PROVE IInv
    OBVIOUS
  <1> USE DepthAssumption DEF Init, Slot
  <1>1. TypeOK
    BY DEF TypeOK
  <1>2. IndexOrder
    BY DEF IndexOrder, ProducerCi, Dist
  <1>3. Control
    BY DEF Control, SenderHolds
  <1>4. Contents
    BY DEF Contents, Written, Finished, ProducerCi, Dist, ConfirmationMatches
  <1> QED
    BY <1>1, <1>2, <1>3, <1>4 DEF IInv

\* The index the sender goes by is one of the two the modem may read.
LEMMA ProducerCiType ==
    ASSUME TypeOK PROVE ProducerCi \in Slot
  BY DEF TypeOK, ProducerCi

\* The message the host works on is one the modem has written and left alone.
LEMMA HeldIsWritten ==
    ASSUME IInv, rx_pc = "work" PROVE Written(host_ci)
  <1>1. host_ci # hp_pi
    BY DEF IInv, Control
  <1>2. Dist(ProducerCi, host_ci) # Dist(ProducerCi, hp_pi)
    BY <1>1, ProducerCiType, DistInjective DEF IInv, TypeOK
  <1> QED
    BY <1>2, ProducerCiType, DistType DEF IInv, TypeOK, IndexOrder, Written

\* The steps of a sender that touch neither index nor contents.
LEMMA QuietStep ==
    ASSUME IInv, TypeOK', Control',
           UNCHANGED <<modem_pi, modem_ci, op, internal_bufs, hp_pi, bd_h, confirmed>>,
           UNCHANGED hostVars
    PROVE  IInv'
  <1> USE DEF hostVars
  <1>1. IndexOrder'
    BY DEF IInv, IndexOrder, ProducerCi, Dist
  <1>2. Contents'
    BY DEF IInv, Contents, Written, Finished, ProducerCi, Dist, ConfirmationMatches
  <1> QED
    BY <1>1, <1>2 DEF IInv

LEMMA GetTxBufInv ==
    ASSUME OneTask, IInv, TypeOK', NEW t \in Task, prvGetTxBuf(t) PROVE IInv'
  <1> USE DEF prvGetTxBuf, modemVars, hostVars
  <1>1. Control'
    BY DEF OneTask, IInv, TypeOK, Control, SenderHolds, ProducerCi, is_bd_ring_full, Succ
  <1> QED
    BY <1>1, QuietStep

LEMMA GiveUpInv ==
    ASSUME OneTask, IInv, TypeOK', NEW t \in Task, GiveUp(t) PROVE IInv'
  <1> USE DEF GiveUp, modemVars, hostVars
  <1>1. Control'
    BY DEF OneTask, IInv, TypeOK, Control, SenderHolds, ProducerCi, is_bd_ring_full, Succ
  <1> QED
    BY <1>1, QuietStep

LEMMA EnqueueTestInv ==
    ASSUME OneTask, IInv, TypeOK', NEW t \in Task, EnqueueTest(t) PROVE IInv'
  <1> USE DEF EnqueueTest, modemVars, hostVars
  <1>1. Control'
    BY DEF OneTask, IInv, TypeOK, Control, SenderHolds, ProducerCi, is_bd_ring_full, Succ
  <1> QED
    BY <1>1, QuietStep

\* The slot a sender prepares is no part of the contents yet.
LEMMA NextSlotUnused ==
    ASSUME IInv
    PROVE  /\ \A i \in Slot : Written(i) => i # modem_pi
           /\ \A i \in Slot : Finished(i) => i # modem_pi
           /\ rx_pc = "work" => Written(host_ci)
  <1>1. \A i \in Slot : Written(i) => i # modem_pi
    BY ProducerCiType, DistType DEF IInv, TypeOK, Written
  <1>2. \A i \in Slot : Finished(i) => i # modem_pi
    BY ProducerCiType, DistType DEF IInv, TypeOK, IndexOrder, Finished
  <1> QED
    BY <1>1, <1>2, HeldIsWritten

LEMMA FillBufInv ==
    ASSUME OneTask, IInv, TypeOK', NEW t \in Task, NEW m \in Msg, FillBuf(t, m)
    PROVE  IInv'
  <1> USE DEF FillBuf, hostVars
  <1>1. ProducerCi' = ProducerCi
    BY DEF ProducerCi
  <1>2. IndexOrder'
    BY <1>1 DEF IInv, IndexOrder, Dist
  <1>3. tx_buf[t] = modem_pi
    BY DEF IInv, Control, SenderHolds
  <1>4. Control'
    BY <1>1, <1>3
       DEF OneTask, IInv, TypeOK, Control, SenderHolds, is_bd_ring_full, Succ
  <1>5. Contents'
    <2>1. \A i \in Slot : /\ Written(i)' <=> Written(i)
                          /\ Finished(i)' <=> Finished(i)
      BY <1>1 DEF Written, Finished, Dist
    <2> QED
      BY <1>3, <2>1, NextSlotUnused DEF IInv, TypeOK, Contents, ConfirmationMatches
  <1> QED
    BY <1>2, <1>4, <1>5 DEF IInv

LEMMA WriteDescriptorInv ==
    ASSUME OneTask, IInv, TypeOK', NEW t \in Task, WriteDescriptor(t) PROVE IInv'
  <1> USE DEF WriteDescriptor, hostVars
  <1>1. ProducerCi' = ProducerCi
    BY DEF ProducerCi
  <1>2. IndexOrder'
    BY <1>1 DEF IInv, IndexOrder, Dist
  <1>3. local_pi[t] = modem_pi /\ tx_buf[t] = modem_pi
    BY DEF IInv, Control, SenderHolds
  <1>4. Control'
    BY <1>1, <1>3
       DEF OneTask, IInv, TypeOK, Control, SenderHolds, is_bd_ring_full, Succ
  <1>5. Contents'
    <2>1. \A i \in Slot : /\ Written(i)' <=> Written(i)
                          /\ Finished(i)' <=> Finished(i)
      BY <1>1 DEF Written, Finished, Dist
    <2> QED
      BY <1>3, <2>1, NextSlotUnused DEF IInv, TypeOK, Contents, ConfirmationMatches
  <1> QED
    BY <1>2, <1>4, <1>5 DEF IInv

LEMMA AdvancePiInv ==
    ASSUME OneTask, IInv, TypeOK', NEW t \in Task, AdvancePi(t) PROVE IInv'
  <1> USE DEF AdvancePi, hostVars
  <1>1. ProducerCi' = ProducerCi
    BY DEF ProducerCi
  <1>2. /\ local_pi[t] = modem_pi /\ modem_pi' = Succ(modem_pi)
        /\ bd_h[modem_pi] = modem_pi
        /\ op[modem_pi] = internal_bufs[modem_pi] /\ internal_bufs[modem_pi] \in Msg
        /\ ~ is_bd_ring_full(ProducerCi, modem_pi)
    BY DEF IInv, Control, SenderHolds
  <1>3. hp_pi = modem_pi
    BY DEF OneTask, IInv, Control
  <1>4. Dist(ProducerCi, modem_pi') = Dist(ProducerCi, modem_pi) + 1
    BY <1>2, ProducerCiType, NotFull DEF IInv, TypeOK
  <1>5. \A i \in Slot : Dist(ProducerCi, i)' = Dist(ProducerCi, i)
    BY <1>1 DEF Dist
  <1>6. IndexOrder'
    BY <1>1, <1>4, ProducerCiType, DistType DEF IInv, TypeOK, IndexOrder, Dist
  <1>7. Control'
    BY <1>2, <1>3 DEF OneTask, IInv, TypeOK, Control, SenderHolds, Succ
  <1>8. Contents'
    <2>1. \A i \in Slot : Written(i)' => Written(i) \/ i = modem_pi
      <3> SUFFICES ASSUME NEW i \in Slot, Written(i)'
                   PROVE  Written(i) \/ i = modem_pi
        OBVIOUS
      <3>1. Dist(ProducerCi, i) = Dist(ProducerCi, modem_pi) => i = modem_pi
        BY ProducerCiType, DistInjective DEF IInv, TypeOK
      <3>2. Dist(ProducerCi, i) \in Nat /\ Dist(ProducerCi, modem_pi) \in Nat
        BY ProducerCiType, DistType DEF IInv, TypeOK
      <3>3. /\ Dist(ProducerCi, host_ci) <= Dist(ProducerCi, i)
            /\ Dist(ProducerCi, i) < Dist(ProducerCi, modem_pi) + 1
        BY <1>1, <1>4, <1>5 DEF Written, Dist, IInv, TypeOK
      <3> QED
        BY <3>1, <3>2, <3>3 DEF Written
    <2>2. \A i \in Slot : Finished(i)' <=> Finished(i)
      BY <1>1 DEF Finished, Dist
    <2> QED
      BY <1>2, <2>1, <2>2 DEF IInv, TypeOK, Contents, ConfirmationMatches
  <1> QED
    BY <1>6, <1>7, <1>8 DEF IInv

LEMMA PublishPiInv ==
    ASSUME OneTask, IInv, TypeOK', NEW t \in Task, PublishPi(t) PROVE IInv'
  <1> USE DEF PublishPi, hostVars
  <1>1. ProducerCi' = ProducerCi
    BY DEF ProducerCi
  <1>2. local_pi[t] = modem_pi
    BY DEF IInv, Control, SenderHolds
  <1>3. IndexOrder'
    BY <1>1, <1>2, ProducerCiType, DistType DEF IInv, TypeOK, IndexOrder, Dist
  <1>4. Control'
    <2>1. rx_pc = "work" => host_ci # modem_pi
      BY NextSlotUnused DEF IInv, TypeOK
    <2> QED
      BY <1>2, <2>1 DEF OneTask, IInv, TypeOK, Control, SenderHolds, Succ
  <1>5. Contents'
    BY <1>1 DEF IInv, Contents, Written, Finished, Dist, ConfirmationMatches
  <1> QED
    BY <1>3, <1>4, <1>5 DEF IInv

LEMMA DequeueConfirmationInv ==
    ASSUME OneTask, IInv, NEW t \in Task, DequeueConfirmation(t) PROVE IInv'
  <1> USE DEF DequeueConfirmation, taskVars, hostVars
  <1>1. TypeOK'
    BY SuccIsMod DEF IInv, TypeOK
  <1>2. ProducerCi = modem_ci /\ ProducerCi' = Succ(modem_ci)
    BY DEF ProducerCi
  <1>3. \A i \in Slot : i # modem_ci =>
            Dist(Succ(modem_ci), i) = Dist(modem_ci, i) - 1
    BY DistSuccOrigin DEF IInv, TypeOK
  <1>4. Dist(Succ(modem_ci), modem_ci) = Depth - 1
    BY DepthAssumption DEF IInv, TypeOK, Dist, Slot, Succ
  <1>5. /\ 0 < Dist(modem_ci, md_ci)
        /\ Dist(modem_ci, md_ci) <= Dist(modem_ci, host_ci)
        /\ Dist(modem_ci, host_ci) <= Dist(modem_ci, hp_pi)
        /\ Dist(modem_ci, hp_pi) <= Dist(modem_ci, modem_pi)
        /\ Dist(modem_ci, modem_pi) < Depth
    BY <1>2, DistType DEF IInv, TypeOK, IndexOrder
  <1>6. host_ci # modem_ci /\ hp_pi # modem_ci /\ modem_pi # modem_ci
    BY <1>5, DistType DEF IInv, TypeOK
  <1>7. IndexOrder'
    BY <1>2, <1>3, <1>5, <1>6, DistType DEF IInv, TypeOK, IndexOrder, Dist
  <1>8. Control'
    BY DEF OneTask, IInv, TypeOK, Control, SenderHolds, Succ
  <1>9. Contents'
    <2>1. /\ Dist(Succ(modem_ci), host_ci) = Dist(modem_ci, host_ci) - 1
          /\ Dist(Succ(modem_ci), modem_pi) = Dist(modem_ci, modem_pi) - 1
      BY <1>3, <1>6 DEF IInv, TypeOK
    <2>2. \A i \in Slot : /\ Dist(modem_ci, i) \in Nat
                          /\ Dist(ProducerCi, i)' = Dist(Succ(modem_ci), i)
      BY <1>2, DistType DEF IInv, TypeOK, Dist
    <2>3. \A i \in Slot : Written(i)' => Written(i)
      <3> SUFFICES ASSUME NEW i \in Slot, Written(i)' PROVE Written(i)
        OBVIOUS
      <3>1. /\ Dist(ProducerCi, host_ci)' = Dist(modem_ci, host_ci) - 1
            /\ Dist(ProducerCi, modem_pi)' = Dist(modem_ci, modem_pi) - 1
        BY <1>2, <2>1 DEF Dist
      <3>2. /\ Dist(modem_ci, host_ci) - 1 <= Dist(Succ(modem_ci), i)
            /\ Dist(Succ(modem_ci), i) < Dist(modem_ci, modem_pi) - 1
        BY <2>2, <3>1 DEF Written
      <3>3. /\ Dist(modem_ci, host_ci) \in Nat
            /\ Dist(modem_ci, modem_pi) \in Nat
            /\ Dist(modem_ci, modem_pi) < Depth
        BY DistType DEF IInv, TypeOK
      <3>4. i # modem_ci
        BY <1>4, <3>2, <3>3, DepthAssumption
      <3> QED
        BY <1>2, <1>3, <2>2, <3>2, <3>3, <3>4 DEF Written
    <2>4. \A i \in Slot : Finished(i)' => Finished(i)
      <3> SUFFICES ASSUME NEW i \in Slot, Finished(i)' PROVE Finished(i)
        OBVIOUS
      <3>1. Dist(ProducerCi, host_ci)' = Dist(modem_ci, host_ci) - 1
        BY <1>2, <2>1 DEF Dist
      <3>2. Dist(Succ(modem_ci), i) < Dist(modem_ci, host_ci) - 1
        BY <2>2, <3>1 DEF Finished
      <3>3. Dist(modem_ci, host_ci) \in Nat /\ Dist(modem_ci, host_ci) < Depth
        BY DistType DEF IInv, TypeOK
      <3>4. i # modem_ci
        BY <1>4, <3>2, <3>3, DepthAssumption
      <3> QED
        BY <1>2, <1>3, <2>2, <3>2, <3>3, <3>4 DEF Finished
    <2>5. status[modem_ci] = op[modem_ci]
      <3>1. Dist(modem_ci, modem_ci) = 0
        BY DistType DEF IInv, TypeOK
      <3>2. Finished(modem_ci)
        BY <1>2, <1>5, <3>1, DistType DEF Finished, IInv, TypeOK
      <3> QED
        BY <3>2 DEF IInv, TypeOK, Contents
    <2> QED
      BY <2>3, <2>4, <2>5 DEF IInv, Contents, ConfirmationMatches
  <1> QED
    BY <1>1, <1>7, <1>8, <1>9 DEF IInv

LEMMA DequeueRawOpInv ==
    ASSUME IInv, DequeueRawOp PROVE IInv'
  <1> USE DEF DequeueRawOp, taskVars, modemVars
  <1>1. ProducerCi' = ProducerCi
    BY DEF ProducerCi
  <1>2. Written(host_ci)
    <2>1. host_ci # hp_pi
      BY DEF is_bd_ring_empty
    <2>2. Dist(ProducerCi, host_ci) # Dist(ProducerCi, hp_pi)
      BY <2>1, ProducerCiType, DistInjective DEF IInv, TypeOK
    <2>3. /\ Dist(ProducerCi, host_ci) \in Nat
          /\ Dist(ProducerCi, hp_pi) \in Nat
          /\ Dist(ProducerCi, modem_pi) \in Nat
      BY ProducerCiType, DistType DEF IInv, TypeOK
    <2> QED
      BY <2>2, <2>3 DEF IInv, IndexOrder, Written
  <1>3. held' = internal_bufs[host_ci] /\ held' \in Msg
    BY <1>2 DEF IInv, TypeOK, Contents
  <1>4. TypeOK'
    BY <1>3 DEF IInv, TypeOK
  <1>5. IndexOrder'
    BY <1>1 DEF IInv, IndexOrder, Dist
  <1>6. Control'
    BY <1>1 DEF IInv, Control, SenderHolds, is_bd_ring_empty, is_bd_ring_full, Succ
  <1>7. Contents'
    BY <1>1, <1>3
       DEF IInv, Contents, Written, Finished, Dist, ConfirmationMatches
  <1> QED
    BY <1>4, <1>5, <1>6, <1>7 DEF IInv

LEMMA ConsumeRawOpInv ==
    ASSUME IInv, ConsumeRawOp PROVE IInv'
  <1> USE DEF ConsumeRawOp, taskVars, modemVars
  <1>1. TypeOK'
    BY SuccIsMod DEF IInv, TypeOK
  <1>2. ProducerCi' = ProducerCi
    BY DEF ProducerCi
  <1>3. \A i \in Slot : Dist(ProducerCi, i)' = Dist(ProducerCi, i)
    BY <1>2 DEF Dist
  <1>4. Written(host_ci)
    BY HeldIsWritten
  <1>5. Dist(ProducerCi, host_ci) < Dist(ProducerCi, hp_pi)
    <2>1. host_ci # hp_pi
      BY DEF IInv, Control
    <2>2. Dist(ProducerCi, host_ci) # Dist(ProducerCi, hp_pi)
      BY <2>1, ProducerCiType, DistInjective DEF IInv, TypeOK
    <2>3. Dist(ProducerCi, host_ci) \in Nat /\ Dist(ProducerCi, hp_pi) \in Nat
      BY ProducerCiType, DistType DEF IInv, TypeOK
    <2> QED
      BY <2>2, <2>3 DEF IInv, IndexOrder
  <1>6. Dist(ProducerCi, host_ci') = Dist(ProducerCi, host_ci) + 1
    BY <1>5, ProducerCiType, RoomToStep DEF IInv, TypeOK
  <1>7. IndexOrder'
    <2>1. /\ Dist(ProducerCi, md_ci) \in Nat
          /\ Dist(ProducerCi, host_ci) \in Nat
          /\ Dist(ProducerCi, hp_pi) \in Nat
      BY ProducerCiType, DistType DEF IInv, TypeOK
    <2> QED
      BY <1>2, <1>5, <1>6, <2>1 DEF IInv, IndexOrder, Dist
  <1>8. Control'
    BY <1>2 DEF IInv, Control, SenderHolds, is_bd_ring_full, Succ
  <1>9. Contents'
    <2>1. \A i \in Slot : Dist(ProducerCi, i) \in Nat
      BY ProducerCiType, DistType DEF IInv
    <2>2. Dist(ProducerCi, host_ci)' = Dist(ProducerCi, host_ci) + 1
      BY <1>2, <1>6 DEF Dist
    <2>3. \A i \in Slot : Written(i)' => Written(i)
      BY <1>2, <1>3, <2>1, <2>2 DEF Written, Dist, IInv, TypeOK
    <2>4. \A i \in Slot : Finished(i)' => Finished(i) \/ i = host_ci
      <3> SUFFICES ASSUME NEW i \in Slot, Finished(i)', ~ Finished(i)
                   PROVE  i = host_ci
        OBVIOUS
      <3>1. Dist(ProducerCi, i) < Dist(ProducerCi, host_ci) + 1
        BY <1>3, <2>2 DEF Finished
      <3>2. Dist(ProducerCi, i) = Dist(ProducerCi, host_ci)
        BY <2>1, <3>1 DEF Finished, IInv, TypeOK
      <3> QED
        BY <3>2, ProducerCiType, DistInjective DEF IInv, TypeOK
    <2>5. held = op[host_ci]
      BY <1>4 DEF IInv, TypeOK, Contents
    <2> QED
      BY <2>3, <2>4, <2>5 DEF IInv, TypeOK, Contents, ConfirmationMatches
  <1> QED
    BY <1>1, <1>7, <1>8, <1>9 DEF IInv

LEMMA PublishCiInv ==
    ASSUME IInv, PublishCi PROVE IInv'
  <1> USE DEF PublishCi, taskVars, modemVars
  <1>1. TypeOK'
    BY DEF IInv, TypeOK
  <1>2. host_ci = Succ(md_ci) /\ md_ci' = Succ(md_ci)
    BY DEF IInv, Control
  <1>3. CASE conf_enable
    <2>1. ProducerCi' = ProducerCi
      BY <1>3 DEF ProducerCi
    <2>2. IndexOrder'
      BY <2>1, ProducerCiType, DistType DEF IInv, TypeOK, IndexOrder, Dist
    <2>3. Control'
      BY <2>1 DEF IInv, Control, SenderHolds, is_bd_ring_full, Succ
    <2>4. Contents'
      BY <2>1 DEF IInv, Contents, Written, Finished, Dist, ConfirmationMatches
    <2> QED
      BY <1>1, <2>2, <2>3, <2>4 DEF IInv
  <1>4. CASE ~ conf_enable /\ Succ(md_ci) = md_ci
    BY <1>1, <1>2, <1>4
       DEF IInv, IndexOrder, Control, SenderHolds, Contents, Written, Finished, Dist,
           ConfirmationMatches, ProducerCi, is_bd_ring_full, Succ
  <1>5. CASE ~ conf_enable /\ Succ(md_ci) # md_ci
    <2>1. ProducerCi = md_ci /\ ProducerCi' = Succ(md_ci)
      BY <1>2, <1>5 DEF ProducerCi
    <2>2. \A i \in Slot : i # md_ci => Dist(Succ(md_ci), i) = Dist(md_ci, i) - 1
      BY DistSuccOrigin DEF IInv, TypeOK
    <2>3. Dist(Succ(md_ci), md_ci) = Depth - 1
      BY DepthAssumption DEF IInv, TypeOK, Dist, Slot, Succ
    <2>4. /\ 0 < Dist(md_ci, host_ci)
          /\ Dist(md_ci, host_ci) <= Dist(md_ci, hp_pi)
          /\ Dist(md_ci, hp_pi) <= Dist(md_ci, modem_pi)
          /\ Dist(md_ci, modem_pi) < Depth
      BY <1>2, <1>5, <2>1, DistType DEF IInv, TypeOK, IndexOrder
    <2>5. host_ci # md_ci /\ hp_pi # md_ci /\ modem_pi # md_ci
      BY <2>4, DistType DEF IInv, TypeOK
    <2>6. /\ Dist(ProducerCi, md_ci)' = 0
          /\ Dist(ProducerCi, host_ci)' = Dist(md_ci, host_ci) - 1
          /\ Dist(ProducerCi, hp_pi)' = Dist(md_ci, hp_pi) - 1
          /\ Dist(ProducerCi, modem_pi)' = Dist(md_ci, modem_pi) - 1
      BY <1>2, <2>1, <2>2, <2>5 DEF IInv, TypeOK, Dist, Slot
    <2>7. /\ Dist(md_ci, host_ci) \in Nat
          /\ Dist(md_ci, hp_pi) \in Nat
          /\ Dist(md_ci, modem_pi) \in Nat
      BY DistType DEF IInv, TypeOK
    <2>8. IndexOrder'
      BY <2>4, <2>6, <2>7 DEF IndexOrder
    <2>9. Control'
      <3>1. Succ(modem_pi) # Succ(md_ci)
        BY <2>5, DepthAssumption DEF IInv, TypeOK, Succ, Slot
      <3>2. (modem_pi + 1) % Depth = Succ(modem_pi)
        BY SuccIsMod DEF IInv, TypeOK
      <3>3. ~ is_bd_ring_full(ProducerCi, modem_pi)'
        BY <2>1, <3>1, <3>2 DEF is_bd_ring_full
      <3> QED
        BY <3>3 DEF IInv, Control, SenderHolds, Succ
    <2>10. Contents'
      <3>1. \A i \in Slot : /\ Dist(md_ci, i) \in Nat
                            /\ Dist(ProducerCi, i)' = Dist(Succ(md_ci), i)
        BY <2>1, DistType DEF IInv, TypeOK, Dist
      <3>2. \A i \in Slot : Written(i)' => Written(i)
        <4> SUFFICES ASSUME NEW i \in Slot, Written(i)' PROVE Written(i)
          OBVIOUS
        <4>1. /\ Dist(md_ci, host_ci) - 1 <= Dist(Succ(md_ci), i)
              /\ Dist(Succ(md_ci), i) < Dist(md_ci, modem_pi) - 1
          BY <2>6, <3>1 DEF Written
        <4>2. i # md_ci
          BY <2>3, <2>4, <2>7, <4>1, DepthAssumption
        <4> QED
          BY <2>1, <2>2, <2>7, <3>1, <4>1, <4>2 DEF Written
      <3>3. \A i \in Slot : Finished(i)' => Finished(i)
        <4> SUFFICES ASSUME NEW i \in Slot, Finished(i)' PROVE Finished(i)
          OBVIOUS
        <4>1. Dist(Succ(md_ci), i) < Dist(md_ci, host_ci) - 1
          BY <2>6, <3>1 DEF Finished
        <4>2. i # md_ci
          BY <2>3, <2>4, <2>7, <4>1, DepthAssumption
        <4> QED
          BY <2>1, <2>2, <2>7, <3>1, <4>1, <4>2 DEF Finished
      <3> QED
        BY <3>2, <3>3 DEF IInv, Contents, ConfirmationMatches
    <2> QED
      BY <1>1, <2>8, <2>9, <2>10 DEF IInv
  <1> QED
    BY <1>3, <1>4, <1>5

LEMMA StutterInv ==
    ASSUME IInv, UNCHANGED vars PROVE IInv'
  BY DEF IInv, vars, taskVars, hostVars, modemVars, TypeOK, IndexOrder, Control,
         SenderHolds, Contents, ConfirmationMatches, Written, Finished, ProducerCi,
         Dist, is_bd_ring_full, Succ

-------------------------------------------------------------------------------
(* The theorems. *)

LEMMA NextInv ==
    ASSUME OneTask, IInv, [Next]_vars PROVE IInv'
  <1>1. TypeOK'
    BY NextType DEF IInv
  <1>2. ASSUME NEW t \in Task, Send(t) PROVE IInv'
    BY <1>1, <1>2, GetTxBufInv, FillBufInv, GiveUpInv, EnqueueTestInv,
       WriteDescriptorInv, AdvancePiInv, PublishPiInv DEF Send
  <1>3. ASSUME NEW t \in Task, DequeueConfirmation(t) PROVE IInv'
    BY <1>3, DequeueConfirmationInv
  <1>4. CASE Host
    BY <1>4, DequeueRawOpInv, ConsumeRawOpInv, PublishCiInv DEF Host
  <1>5. CASE UNCHANGED vars
    BY <1>5, StutterInv
  <1> QED
    BY <1>2, <1>3, <1>4, <1>5 DEF Next

\* The variables of both drivers keep their types, with any number of firmware
\* tasks that send: no index leaves the ring.
THEOREM TypeCorrect == Spec => []TypeOK
  BY InitType, NextType, PTL DEF Spec

\* While one task sends, the inductive invariant holds in every reachable state.
THEOREM Inductive == ASSUME OneTask PROVE Spec => []IInv
  <1>1. IInv /\ [Next]_vars => IInv'
    BY NextInv
  <1> QED
    BY <1>1, InitInv, PTL DEF Spec

\* While one task sends, process_rx works on whole messages: no buffer is
\* refilled between dequeue_raw_op and consume_raw_op.
THEOREM MessageStable == ASSUME OneTask PROVE Spec => []MessageStableWhileHeld
  <1>1. IInv => MessageStableWhileHeld
    <2> SUFFICES ASSUME IInv, rx_pc = "work"
                 PROVE  held \in Msg /\ internal_bufs[bd_h[host_ci]] = held
      BY DEF MessageStableWhileHeld
    <2>1. Written(host_ci)
      BY HeldIsWritten
    <2> QED
      BY <2>1 DEF IInv, TypeOK, Contents
  <1> QED
    BY <1>1, Inductive, PTL

\* While one task sends, bbdev_ipc_dequeue_raw_op returns each operation with
\* its own verdict.
THEOREM ConfirmationsMatch == ASSUME OneTask PROVE Spec => []ConfirmationMatches
  <1>1. IInv => ConfirmationMatches
    BY DEF IInv, Contents
  <1> QED
    BY <1>1, Inductive, PTL
-------------------------------------------------------------------------------
(* Slots and sequences. *)

\* The slot that lies n steps from slot a.
LEMMA SlotAtDistance ==
    ASSUME NEW a \in Slot, NEW n \in Slot
    PROVE  /\ (a + n) % Depth \in Slot
           /\ Dist(a, (a + n) % Depth) = n
  BY RingAround, DepthAssumption DEF Dist, Slot, RingDist

\* Going as far as slot b from slot a leads to slot b.
LEMMA DistanceOfSlot ==
    ASSUME NEW a \in Slot, NEW b \in Slot
    PROVE  (a + Dist(a, b)) % Depth = b
  BY RingThere, DepthAssumption DEF Dist, Slot, RingDist

\* Moving the origin on shifts the slots by one.
LEMMA Shift ==
    ASSUME NEW a \in Slot, NEW n \in Slot, n + 1 \in Slot
    PROVE  (Succ(a) + n) % Depth = (a + (n + 1)) % Depth
  BY RingShift, DepthAssumption DEF Succ, Slot

-------------------------------------------------------------------------------
(* What the mapping needs beyond IInv. *)

\* Every outstanding message lies in the buffer of its own slot, finished or
\* not, and the receiver's hands are empty unless it works on a message.
Outstanding(i) == Dist(ProducerCi, i) < Dist(ProducerCi, modem_pi)

MInv ==
    /\ \A i \in Slot : Outstanding(i) => bd_h[i] = i
    /\ rx_pc # "work" => held = NoMsg

LEMMA InitMInv == Init => MInv
  BY DepthAssumption DEF Init, MInv, Outstanding, ProducerCi, Dist, Slot

\* The slots are outstanding that were before, but for those that came free.
LEMMA FreeShrinks ==
    ASSUME IInv, NEW p \in Slot, p = Succ(ProducerCi), ProducerCi # modem_pi,
           NEW i \in Slot, Dist(p, i) < Dist(p, modem_pi)
    PROVE  Outstanding(i)
  <1>1. /\ ProducerCi \in Slot /\ modem_pi \in Slot
        /\ Dist(ProducerCi, modem_pi) \in Nat /\ Dist(ProducerCi, i) \in Nat
    BY ProducerCiType, DistType DEF IInv, TypeOK
  <1>2. Dist(p, modem_pi) = Dist(ProducerCi, modem_pi) - 1
    BY <1>1, DistSuccOrigin
  <1>3. CASE i = ProducerCi
    BY <1>1, <1>3, DistType DEF Outstanding
  <1>4. CASE i # ProducerCi
    <2>1. Dist(p, i) = Dist(ProducerCi, i) - 1
      BY <1>1, <1>4, DistSuccOrigin
    <2> QED
      BY <1>1, <1>2, <2>1 DEF Outstanding
  <1> QED
    BY <1>3, <1>4

\* A step that leaves the sender's two indexes, the descriptors and the
\* receiver alone leaves the invariant alone.
LEMMA QuietMInv ==
    ASSUME MInv, ProducerCi' = ProducerCi, UNCHANGED <<modem_pi, bd_h, rx_pc, held>>
    PROVE  MInv'
  BY DEF MInv, Outstanding, Dist

LEMMA NextMInv ==
    ASSUME IInv, MInv, [Next]_vars PROVE MInv'
  <1> USE DEF MInv
  <1>1. ASSUME NEW t \in Task, prvGetTxBuf(t) \/ GiveUp(t) \/ EnqueueTest(t) PROVE MInv'
    BY <1>1, QuietMInv DEF prvGetTxBuf, GiveUp, EnqueueTest, modemVars, hostVars, ProducerCi
  <1>2. ASSUME NEW t \in Task, NEW m \in Msg, FillBuf(t, m) PROVE MInv'
    BY <1>2, QuietMInv DEF FillBuf, hostVars, ProducerCi
  <1>3. ASSUME NEW t \in Task, WriteDescriptor(t) PROVE MInv'
    <2>1. ProducerCi' = ProducerCi /\ modem_pi' = modem_pi /\ rx_pc' = rx_pc /\ held' = held
      BY <1>3 DEF WriteDescriptor, hostVars, ProducerCi
    <2>2. bd_h' = [bd_h EXCEPT ![modem_pi] = modem_pi]
      BY <1>3 DEF WriteDescriptor, IInv, Control, SenderHolds
    <2>3. \A i \in Slot : Outstanding(i)' => Outstanding(i)
      BY <2>1 DEF Outstanding, Dist
    <2> QED
      BY <2>1, <2>2, <2>3 DEF IInv, TypeOK
  <1>4. ASSUME NEW t \in Task, AdvancePi(t) PROVE MInv'
    <2>1. /\ ProducerCi' = ProducerCi /\ bd_h' = bd_h /\ rx_pc' = rx_pc /\ held' = held
          /\ modem_pi' = Succ(modem_pi) /\ bd_h[modem_pi] = modem_pi
          /\ ~ is_bd_ring_full(ProducerCi, modem_pi)
      BY <1>4 DEF AdvancePi, hostVars, ProducerCi, IInv, Control, SenderHolds
    <2>2. Dist(ProducerCi, Succ(modem_pi)) = Dist(ProducerCi, modem_pi) + 1
      BY <2>1, ProducerCiType, NotFull DEF IInv, TypeOK
    <2>3. ASSUME NEW i \in Slot, Outstanding(i)' PROVE bd_h'[i] = i
      <3>1. Dist(ProducerCi, i) < Dist(ProducerCi, modem_pi) + 1
        <4>1. Dist(ProducerCi', i) < Dist(ProducerCi', modem_pi')
          BY <2>3 DEF Outstanding, Dist
        <4>2. ProducerCi' = ProducerCi /\ modem_pi' = Succ(modem_pi)
          BY <2>1
        <4>3. Dist(ProducerCi, i) < Dist(ProducerCi, Succ(modem_pi))
          BY <4>1, <4>2
        <4>4. Dist(ProducerCi, i) \in Nat /\ Dist(ProducerCi, modem_pi) \in Nat
          BY ProducerCiType, DistType DEF IInv, TypeOK
        <4> QED
          BY <2>2, <4>3, <4>4
      <3>2. CASE i = modem_pi
        BY <2>1, <3>2
      <3>3. CASE i # modem_pi
        <4>1. Dist(ProducerCi, i) # Dist(ProducerCi, modem_pi)
          BY <3>3, ProducerCiType, DistInjective DEF IInv, TypeOK
        <4>2. Outstanding(i)
          <5>1. Dist(ProducerCi, i) \in Nat /\ Dist(ProducerCi, modem_pi) \in Nat
            BY ProducerCiType, DistType DEF IInv, TypeOK
          <5> QED
            BY <3>1, <4>1, <5>1 DEF Outstanding
        <4> QED
          BY <2>1, <4>2
      <3> QED
        BY <3>2, <3>3
    <2> QED
      BY <2>1, <2>3
  <1>5. ASSUME NEW t \in Task, PublishPi(t) PROVE MInv'
    BY <1>5, QuietMInv DEF PublishPi, hostVars, ProducerCi
  <1>6. ASSUME NEW t \in Task, DequeueConfirmation(t) PROVE MInv'
    <2>1. /\ ProducerCi' = Succ(ProducerCi) /\ modem_pi' = modem_pi /\ bd_h' = bd_h
          /\ rx_pc' = rx_pc /\ held' = held /\ ProducerCi # md_ci
      BY <1>6 DEF DequeueConfirmation, hostVars, ProducerCi
    <2>2. ProducerCi # modem_pi
      <3>1. Dist(ProducerCi, md_ci) > 0
        BY <2>1, ProducerCiType, DistType DEF IInv, TypeOK
      <3> QED
        BY <3>1, ProducerCiType, DistType DEF IInv, TypeOK, IndexOrder
    <2>3. Succ(ProducerCi) \in Slot
      BY ProducerCiType, SuccIsMod DEF IInv
    <2>4. \A i \in Slot : Outstanding(i)' => Outstanding(i)
      BY <2>1, <2>2, <2>3, FreeShrinks DEF Outstanding, Dist
    <2> QED
      BY <2>1, <2>4
  <1>7. CASE DequeueRawOp
    BY <1>7 DEF DequeueRawOp, modemVars, Outstanding, ProducerCi, Dist
  <1>8. CASE ConsumeRawOp
    BY <1>8 DEF ConsumeRawOp, modemVars, Outstanding, ProducerCi, Dist
  <1>9. CASE PublishCi
    <2>1. /\ ProducerCi' = IF conf_enable THEN ProducerCi ELSE host_ci
          /\ modem_pi' = modem_pi /\ bd_h' = bd_h /\ held' = held /\ rx_pc = "release"
      BY <1>9 DEF PublishCi, modemVars, ProducerCi
    <2>2. CASE ProducerCi' = ProducerCi
      BY <2>1, <2>2 DEF Outstanding, Dist
    <2>3. CASE ProducerCi' # ProducerCi
      <3>1. ProducerCi = md_ci /\ ProducerCi' = host_ci /\ host_ci = Succ(ProducerCi)
        BY <1>9, <2>1, <2>3 DEF PublishCi, IInv, Control, ProducerCi
      <3>2. ProducerCi # modem_pi
        <4>1. Dist(ProducerCi, host_ci) > 0
          BY <2>3, <3>1, ProducerCiType, DistType DEF IInv, TypeOK
        <4> QED
          BY <4>1, ProducerCiType, DistType DEF IInv, TypeOK, IndexOrder
      <3>3. \A i \in Slot : Outstanding(i)' => Outstanding(i)
        BY <2>1, <3>1, <3>2, FreeShrinks DEF Outstanding, Dist, IInv, TypeOK
      <3> QED
        BY <2>1, <3>3
    <2> QED
      BY <2>2, <2>3
  <1>10. CASE UNCHANGED vars
    BY <1>10, QuietMInv DEF vars, modemVars, hostVars, ProducerCi
  <1> QED
    BY <1>1, <1>2, <1>3, <1>4, <1>5, <1>6, <1>7, <1>8, <1>9, <1>10 DEF Next, Send, Host

-------------------------------------------------------------------------------
(* The queue as the mapping shows it. *)

LEMMA SlotAtType ==
    ASSUME TypeOK, NEW n \in Slot
    PROVE  SlotAt(n) \in Slot /\ Dist(ProducerCi, SlotAt(n)) = n
  BY ProducerCiType, SlotAtDistance DEF SlotAt

LEMMA SlotAtDist ==
    ASSUME TypeOK, NEW i \in Slot
    PROVE  SlotAt(Dist(ProducerCi, i)) = i
  BY ProducerCiType, DistanceOfSlot DEF SlotAt

Payload == Msg \cup {NoMsg}

LEMMA QueueSlotsType ==
    ASSUME TypeOK
    PROVE  /\ Dist(ProducerCi, hp_pi) \in Nat
           /\ QueueSlots \in [1 .. Dist(ProducerCi, hp_pi) -> Payload]
           /\ QueueSlots \in Seq(Payload)
           /\ Len(QueueSlots) = Dist(ProducerCi, hp_pi)
  <1>1. Dist(ProducerCi, hp_pi) \in Nat /\ Dist(ProducerCi, hp_pi) < Depth
    BY ProducerCiType, DistType DEF TypeOK
  <1>2. ASSUME NEW k \in 1 .. Dist(ProducerCi, hp_pi)
        PROVE  MessageAt(k - 1) \in Payload
    <2>1. k - 1 \in Slot
      BY <1>1, DepthAssumption DEF Slot
    <2>2. SlotAt(k - 1) \in Slot
      BY <2>1, SlotAtType
    <2> QED
      BY <2>2 DEF TypeOK, MessageAt, Payload
  <1>3. QueueSlots \in [1 .. Dist(ProducerCi, hp_pi) -> Payload]
    BY <1>2 DEF QueueSlots
  <1> QED
    BY <1>1, <1>3, LenIs

\* A step that leaves the indexes and the outstanding messages alone leaves the
\* queue alone.
LEMMA QueueSlotsStay ==
    ASSUME TypeOK, ProducerCi' = ProducerCi, hp_pi' = hp_pi,
           \A i \in Slot : Dist(ProducerCi, i) < Dist(ProducerCi, hp_pi) =>
               internal_bufs'[bd_h'[i]] = internal_bufs[bd_h[i]]
    PROVE  QueueSlots' = QueueSlots
  <1>1. Dist(ProducerCi, hp_pi)' = Dist(ProducerCi, hp_pi)
    BY DEF Dist
  <1>3. Dist(ProducerCi, hp_pi) \in Nat /\ Dist(ProducerCi, hp_pi) < Depth
    BY ProducerCiType, DistType DEF TypeOK
  <1>2. ASSUME NEW k \in 1 .. Dist(ProducerCi, hp_pi)
        PROVE  MessageAt(k - 1)' = MessageAt(k - 1)
    <2>1. k - 1 \in Slot /\ k - 1 < Dist(ProducerCi, hp_pi)
      BY <1>3, DepthAssumption DEF Slot
    <2>2. /\ SlotAt(k - 1) \in Slot
          /\ Dist(ProducerCi, SlotAt(k - 1)) < Dist(ProducerCi, hp_pi)
      BY <2>1, SlotAtType
    <2>3. SlotAt(k - 1)' = SlotAt(k - 1)
      BY DEF SlotAt
    <2> QED
      BY <2>2, <2>3 DEF MessageAt
  <1> QED
    BY <1>1, <1>2 DEF QueueSlots

\* A slot comes free: the oldest message leaves the queue, which was finished.
LEMMA FreeStep ==
    ASSUME IInv, ProducerCi' = Succ(ProducerCi),
           UNCHANGED <<hp_pi, host_ci, internal_bufs, bd_h, held>>,
           0 < Dist(ProducerCi, host_ci)
    PROVE  Queue!Free
  <1>1. /\ ProducerCi \in Slot /\ hp_pi \in Slot /\ host_ci \in Slot
        /\ Succ(ProducerCi) \in Slot
    BY ProducerCiType, SuccIsMod DEF IInv, TypeOK
  <1>2. /\ Dist(ProducerCi, host_ci) \in Nat /\ Dist(ProducerCi, hp_pi) \in Nat
        /\ Dist(ProducerCi, host_ci) <= Dist(ProducerCi, hp_pi)
        /\ Dist(ProducerCi, hp_pi) < Depth
    BY <1>1, DistType DEF IInv, IndexOrder
  <1>3. ProducerCi # host_ci /\ ProducerCi # hp_pi
    BY <1>1, <1>2, DistType
  <1>4. /\ Dist(ProducerCi, host_ci)' = Dist(ProducerCi, host_ci) - 1
        /\ Dist(ProducerCi, hp_pi)' = Dist(ProducerCi, hp_pi) - 1
    <2>1. /\ Dist(Succ(ProducerCi), host_ci) = Dist(ProducerCi, host_ci) - 1
          /\ Dist(Succ(ProducerCi), hp_pi) = Dist(ProducerCi, hp_pi) - 1
      BY <1>1, <1>3, DistSuccOrigin
    <2> QED
      BY <2>1 DEF Dist
  <1>5. ASSUME NEW k \in 1 .. Dist(ProducerCi, hp_pi) - 1
        PROVE  MessageAt(k - 1)' = MessageAt(k)
    <2>1. k - 1 \in Slot /\ (k - 1) + 1 \in Slot /\ (k - 1) + 1 = k
      BY <1>2, DepthAssumption DEF Slot
    <2>2. (Succ(ProducerCi) + (k - 1)) % Depth = (ProducerCi + k) % Depth
      BY <1>1, <2>1, Shift
    <2>3. SlotAt(k - 1)' = SlotAt(k)
      BY <2>2 DEF SlotAt
    <2> QED
      BY <2>3 DEF MessageAt
  <1>6. \A k \in 1 .. Dist(ProducerCi, hp_pi) - 1 : QueueSlots'[k] = QueueSlots[k + 1]
    <2> SUFFICES ASSUME NEW k \in 1 .. Dist(ProducerCi, hp_pi) - 1
                 PROVE  QueueSlots'[k] = QueueSlots[k + 1]
      OBVIOUS
    <2>1. QueueSlots'[k] = MessageAt(k - 1)'
      BY <1>4 DEF QueueSlots
    <2>2. k + 1 \in 1 .. Dist(ProducerCi, hp_pi) /\ (k + 1) - 1 = k
      BY <1>2
    <2>3. QueueSlots[k + 1] = MessageAt(k)
      BY <2>2 DEF QueueSlots
    <2> QED
      BY <1>5, <2>1, <2>3
  <1>7. QueueSlots \in [1 .. Dist(ProducerCi, hp_pi) -> Payload]
    BY QueueSlotsType DEF IInv
  <1>8. QueueSlots' \in [1 .. Dist(ProducerCi, hp_pi) - 1 -> Payload]
    <2>1. ASSUME NEW k \in 1 .. Dist(ProducerCi, hp_pi) - 1
          PROVE  QueueSlots'[k] \in Payload
      <3>1. k + 1 \in 1 .. Dist(ProducerCi, hp_pi)
        BY <1>2
      <3> QED
        BY <1>6, <1>7, <3>1
    <2> QED
      BY <1>4, <2>1 DEF QueueSlots
  <1>9. QueueSlots' = Tail(QueueSlots)
    BY <1>2, <1>6, <1>7, <1>8, TailIs
  <1> QED
    BY <1>4, <1>9 DEF Queue!Free, QueueDone

\* The bounds of the mapped queue, as the lemmas below use them.
LEMMA Bounds ==
    ASSUME IInv
    PROVE  /\ ProducerCi \in Slot /\ hp_pi \in Slot /\ host_ci \in Slot /\ modem_pi \in Slot
           /\ md_ci \in Slot
           /\ Dist(ProducerCi, md_ci) \in Nat
           /\ Dist(ProducerCi, host_ci) \in Nat
           /\ Dist(ProducerCi, hp_pi) \in Nat
           /\ Dist(ProducerCi, modem_pi) \in Nat
           /\ Dist(ProducerCi, md_ci) <= Dist(ProducerCi, host_ci)
           /\ Dist(ProducerCi, host_ci) <= Dist(ProducerCi, hp_pi)
           /\ Dist(ProducerCi, hp_pi) <= Dist(ProducerCi, modem_pi)
           /\ Dist(ProducerCi, modem_pi) < Depth
  BY ProducerCiType, DistType DEF IInv, TypeOK, IndexOrder

-------------------------------------------------------------------------------
(* Each action, seen through the mapping. *)

\* Writing the buffer of the producer index touches no outstanding message.
LEMMA WriteBufferStutters ==
    ASSUME IInv, MInv, NEW m,
           internal_bufs' = [internal_bufs EXCEPT ![modem_pi] = m],
           UNCHANGED <<bd_h, conf_enable, modem_ci, md_ci, hp_pi, host_ci, held>>
    PROVE  UNCHANGED Queue!vars
  <1>1. ProducerCi' = ProducerCi
    BY DEF ProducerCi
  <1>2. ASSUME NEW i \in Slot, Dist(ProducerCi, i) < Dist(ProducerCi, hp_pi)
        PROVE  internal_bufs'[bd_h'[i]] = internal_bufs[bd_h[i]]
    <2>1. Outstanding(i) /\ i # modem_pi
      BY <1>2, Bounds, DistType DEF Outstanding
    <2>2. bd_h[i] = i
      BY <2>1 DEF MInv
    <2> QED
      BY <2>1, <2>2 DEF IInv, TypeOK
  <1>3. QueueSlots' = QueueSlots
    BY <1>1, <1>2, QueueSlotsStay DEF IInv
  <1>4. QueueDone' = QueueDone
    BY <1>1 DEF QueueDone, Dist
  <1> QED
    BY <1>3, <1>4 DEF Queue!vars

\* The message just written is seen when the task writes host_params->pi.
LEMMA PublishPiPuts ==
    ASSUME IInv, NEW t \in Task, PublishPi(t) PROVE [Queue!Next]_(Queue!vars)
  <1> DEFINE n == Dist(ProducerCi, hp_pi)
  <1>1. /\ ProducerCi' = ProducerCi /\ host_ci' = host_ci /\ held' = held
        /\ internal_bufs' = internal_bufs /\ bd_h' = bd_h
        /\ hp_pi' = Succ(hp_pi) /\ modem_pi = Succ(hp_pi)
    BY DEF PublishPi, hostVars, ProducerCi, IInv, Control, SenderHolds
  <1>2. QueueDone' = QueueDone
    BY <1>1 DEF QueueDone, Dist
  <1>3. n \in Nat /\ n <= Dist(ProducerCi, Succ(hp_pi)) /\ Dist(ProducerCi, Succ(hp_pi)) < Depth
    BY <1>1, Bounds
  <1>4. CASE Succ(hp_pi) = ProducerCi
    <2>1. n = 0
      BY <1>3, <1>4, Bounds, DistType
    <2>2. hp_pi' = hp_pi
      BY <1>1, <1>4, <2>1, Bounds, DistType
    <2>3. QueueSlots' = QueueSlots
      BY <1>1, <2>2, QueueSlotsStay DEF IInv
    <2> QED
      BY <1>1, <1>2, <2>3 DEF Queue!vars
  <1>5. CASE Succ(hp_pi) # ProducerCi
    <2>1. Dist(ProducerCi, Succ(hp_pi)) = n + 1
      BY <1>5, Bounds, DistSucc
    <2>2. Dist(ProducerCi, hp_pi)' = n + 1
      BY <1>1, <2>1 DEF Dist
    <2>3. Written(hp_pi)
      BY <1>1, <2>1, Bounds DEF Written
    <2>4. bd_h[hp_pi] = hp_pi /\ internal_bufs[hp_pi] \in Msg
      BY <2>3, Bounds DEF IInv, Contents
    <2>5. MessageAt(n) = internal_bufs[hp_pi]
      BY <2>4, Bounds, SlotAtDist DEF MessageAt, IInv
    <2>6. \A k : MessageAt(k)' = MessageAt(k)
      BY <1>1 DEF MessageAt, SlotAt
    <2> HIDE DEF n
    <2>7. QueueSlots' = [k \in 1 .. n + 1 |-> MessageAt(k - 1)]
      BY <2>2, <2>6 DEF QueueSlots
    <2>8. QueueSlots \in [1 .. n -> Payload] /\ Len(QueueSlots) = n
      BY QueueSlotsType DEF IInv, n
    <2>9. QueueSlots = [k \in 1 .. n |-> MessageAt(k - 1)]
      BY DEF QueueSlots, n
    <2>10. /\ \A k \in 1 .. n : QueueSlots'[k] = QueueSlots[k]
           /\ QueueSlots'[n + 1] = internal_bufs[hp_pi]
      BY <1>3, <2>5, <2>7, <2>9
    <2>11. QueueSlots' \in [1 .. n + 1 -> Payload]
      <3>1. ASSUME NEW k \in 1 .. n + 1 PROVE QueueSlots'[k] \in Payload
        <4>1. CASE k \in 1 .. n
          BY <2>8, <2>10, <4>1
        <4>2. CASE k = n + 1
          BY <2>4, <2>10, <4>2 DEF Payload
        <4> QED
          BY <1>3, <4>1, <4>2
      <3> QED
        BY <2>7, <3>1
    <2>12. QueueSlots' = Append(QueueSlots, internal_bufs[hp_pi])
      BY <1>3, <2>8, <2>10, <2>11, AppendIs
    <2>13. Len(QueueSlots) < Depth - 1
      BY <1>3, <2>1, <2>8, DepthAssumption
    <2>14. Queue!Put(internal_bufs[hp_pi])
      BY <1>1, <1>2, <2>12, <2>13 DEF Queue!Put
    <2> QED
      BY <2>4, <2>14 DEF Queue!Next
  <1> QED
    BY <1>4, <1>5

\* The receiver is handed the oldest message it has not finished.
LEMMA DequeueDelivers ==
    ASSUME IInv, MInv, DequeueRawOp PROVE Queue!Deliver
  <1>1. /\ UNCHANGED <<hp_pi, host_ci, internal_bufs, bd_h>> /\ ProducerCi' = ProducerCi
        /\ held' = internal_bufs[bd_h[host_ci]]
        /\ held = NoMsg /\ host_ci # hp_pi
    BY DEF DequeueRawOp, modemVars, ProducerCi, MInv, is_bd_ring_empty
  <1>2. QueueDone \in Nat /\ QueueDone < Dist(ProducerCi, hp_pi)
    BY <1>1, Bounds, DistInjective DEF QueueDone
  <1>3. MessageAt(QueueDone) = internal_bufs[bd_h[host_ci]]
    BY Bounds, SlotAtDist DEF MessageAt, QueueDone, IInv
  <1>4. QueueSlots[QueueDone + 1] = MessageAt(QueueDone)
    <2>1. QueueDone + 1 \in 1 .. Dist(ProducerCi, hp_pi) /\ (QueueDone + 1) - 1 = QueueDone
      BY <1>2, Bounds
    <2> QED
      BY <2>1 DEF QueueSlots
  <1>5. Len(QueueSlots) = Dist(ProducerCi, hp_pi)
    BY QueueSlotsType DEF IInv
  <1>6. QueueSlots' = QueueSlots
    BY <1>1, QueueSlotsStay DEF IInv
  <1>7. QueueDone' = QueueDone
    BY <1>1 DEF QueueDone, Dist
  <1> QED
    BY <1>1, <1>2, <1>3, <1>4, <1>5, <1>6, <1>7 DEF Queue!Deliver

\* The receiver finishes the message it holds.
LEMMA ConsumeFinishes ==
    ASSUME IInv, ConsumeRawOp PROVE Queue!Finish
  <1>1. /\ UNCHANGED <<hp_pi, internal_bufs, bd_h>> /\ ProducerCi' = ProducerCi
        /\ host_ci' = Succ(host_ci) /\ held' = NoMsg /\ rx_pc = "work"
    BY DEF ConsumeRawOp, modemVars, ProducerCi
  <1>2. Written(host_ci)
    BY <1>1, HeldIsWritten
  <1>3. held # NoMsg
    BY <1>1, <1>2, Bounds, NoMsgAssumption DEF IInv, Contents
  <1>4. Dist(ProducerCi, Succ(host_ci)) = Dist(ProducerCi, host_ci) + 1
    BY <1>2, Bounds, RoomToStep DEF Written
  <1>5. QueueDone' = QueueDone + 1
    BY <1>1, <1>4 DEF QueueDone, Dist
  <1>6. QueueSlots' = QueueSlots
    BY <1>1, QueueSlotsStay DEF IInv
  <1> QED
    BY <1>1, <1>3, <1>5, <1>6 DEF Queue!Finish

\* Picking up a confirmation gives the oldest slot back to the sender.
LEMMA ConfirmationFrees ==
    ASSUME IInv, NEW t \in Task, DequeueConfirmation(t) PROVE Queue!Free
  <1>1. /\ UNCHANGED <<hp_pi, host_ci, internal_bufs, bd_h, held>>
        /\ ProducerCi' = Succ(ProducerCi) /\ ProducerCi # md_ci
    BY DEF DequeueConfirmation, hostVars, ProducerCi
  <1>2. 0 < Dist(ProducerCi, host_ci)
    BY <1>1, Bounds, DistType
  <1> QED
    BY <1>1, <1>2, FreeStep

\* Publishing the host's index gives the slot back when no confirmation is due.
LEMMA PublishCiFrees ==
    ASSUME IInv, PublishCi PROVE Queue!Free \/ UNCHANGED Queue!vars
  <1>1. /\ UNCHANGED <<hp_pi, host_ci, internal_bufs, bd_h, held>>
        /\ ProducerCi' = IF conf_enable THEN ProducerCi ELSE host_ci
        /\ host_ci = Succ(md_ci)
        /\ ~ conf_enable => ProducerCi = md_ci
    BY DEF PublishCi, modemVars, ProducerCi, IInv, Control
  <1>2. CASE ProducerCi' = ProducerCi
    <2>1. QueueSlots' = QueueSlots
      BY <1>1, <1>2, QueueSlotsStay DEF IInv
    <2>2. QueueDone' = QueueDone
      BY <1>1, <1>2 DEF QueueDone, Dist
    <2> QED
      BY <1>1, <2>1, <2>2 DEF Queue!vars
  <1>3. CASE ProducerCi' # ProducerCi
    <2>1. ProducerCi' = Succ(ProducerCi) /\ ProducerCi # host_ci
      BY <1>1, <1>3
    <2>2. 0 < Dist(ProducerCi, host_ci)
      BY <2>1, Bounds, DistType
    <2> QED
      BY <1>1, <2>1, <2>2, FreeStep
  <1> QED
    BY <1>2, <1>3

LEMMA InitMaps == Init => Queue!Init
  <1> SUFFICES ASSUME Init PROVE Queue!Init
    OBVIOUS
  <1>1. IInv
    BY InitInv
  <1>2. Dist(ProducerCi, hp_pi) = 0 /\ QueueDone = 0
    BY DEF Init, ProducerCi, Dist, QueueDone
  <1>3. QueueSlots = << >>
    BY <1>2 DEF QueueSlots
  <1> QED
    BY <1>2, <1>3 DEF Init, Queue!Init

\* A step of a sender that leaves the published index, the buffers and the
\* outstanding descriptors alone.
LEMMA SenderStutters ==
    ASSUME IInv, ProducerCi' = ProducerCi,
           UNCHANGED <<hp_pi, host_ci, internal_bufs, held>>,
           \A i \in Slot : i # modem_pi => bd_h'[i] = bd_h[i]
    PROVE  UNCHANGED Queue!vars
  <1>1. \A i \in Slot : Dist(ProducerCi, i) < Dist(ProducerCi, hp_pi) => bd_h'[i] = bd_h[i]
    BY Bounds
  <1>2. QueueSlots' = QueueSlots
    BY <1>1, QueueSlotsStay DEF IInv
  <1>3. QueueDone' = QueueDone
    BY DEF QueueDone, Dist
  <1> QED
    BY <1>2, <1>3 DEF Queue!vars

LEMMA StepMaps ==
    ASSUME IInv, MInv, [Next]_vars PROVE [Queue!Next]_(Queue!vars)
  <1>1. ASSUME NEW t \in Task, prvGetTxBuf(t) \/ GiveUp(t) \/ EnqueueTest(t)
        PROVE  UNCHANGED Queue!vars
    BY <1>1, SenderStutters
       DEF prvGetTxBuf, GiveUp, EnqueueTest, modemVars, hostVars, ProducerCi
  <1>2. ASSUME NEW t \in Task, NEW m \in Msg, FillBuf(t, m) PROVE UNCHANGED Queue!vars
    <2>1. tx_buf[t] = modem_pi
      BY <1>2 DEF FillBuf, IInv, Control, SenderHolds
    <2> QED
      BY <1>2, <2>1, WriteBufferStutters DEF FillBuf, hostVars
  <1>3. ASSUME NEW t \in Task, WriteDescriptor(t) PROVE UNCHANGED Queue!vars
    <2>1. /\ UNCHANGED <<hp_pi, host_ci, internal_bufs, held>> /\ ProducerCi' = ProducerCi
          /\ bd_h' = [bd_h EXCEPT ![modem_pi] = tx_buf[t]]
      BY <1>3 DEF WriteDescriptor, hostVars, ProducerCi, IInv, Control, SenderHolds
    <2>2. \A i \in Slot : i # modem_pi => bd_h'[i] = bd_h[i]
      BY <2>1 DEF IInv, TypeOK
    <2> QED
      BY <2>1, <2>2, SenderStutters
  <1>4. ASSUME NEW t \in Task, AdvancePi(t) PROVE UNCHANGED Queue!vars
    BY <1>4, SenderStutters DEF AdvancePi, hostVars, ProducerCi
  <1>5. ASSUME NEW t \in Task, PublishPi(t) PROVE [Queue!Next]_(Queue!vars)
    BY <1>5, PublishPiPuts
  <1>6. ASSUME NEW t \in Task, DequeueConfirmation(t) PROVE [Queue!Next]_(Queue!vars)
    BY <1>6, ConfirmationFrees DEF Queue!Next
  <1>7. CASE DequeueRawOp
    BY <1>7, DequeueDelivers DEF Queue!Next
  <1>8. CASE ConsumeRawOp
    BY <1>8, ConsumeFinishes DEF Queue!Next
  <1>9. CASE PublishCi
    BY <1>9, PublishCiFrees DEF Queue!Next
  <1>10. CASE UNCHANGED vars
    BY <1>10, SenderStutters DEF vars, modemVars, hostVars, ProducerCi
  <1> QED
    BY <1>1, <1>2, <1>3, <1>4, <1>5, <1>6, <1>7, <1>8, <1>9, <1>10 DEF Next, Send, Host

-------------------------------------------------------------------------------
(* The theorems about the queue. *)

LEMMA MappingInductive == ASSUME OneTask PROVE Spec => [](IInv /\ MInv)
  <1>1. IInv /\ MInv /\ [Next]_vars => IInv' /\ MInv'
    BY NextInv, NextMInv
  <1> QED
    BY <1>1, InitInv, InitMInv, PTL DEF Spec

\* While one task sends, the channel is the bounded queue: messages enter it at
\* its end, are handed to the poll thread once each and in order, and their
\* slots come back only after it has finished with them; at most Depth - 1 are
\* outstanding.  (bbdev_ipc_enqueue_raw_op and bbdev_ipc_dequeue_raw_op,
\* dequeue_raw_op and consume_raw_op in bbdev_la93xx.c.)
THEOREM Refinement ==
    ASSUME OneTask PROVE Spec => Queue!Init /\ [][Queue!Next]_(Queue!vars)
  <1>1. Init => Queue!Init
    BY InitMaps
  <1>2. IInv /\ MInv /\ [Next]_vars => [Queue!Next]_(Queue!vars)
    BY StepMaps
  <1> QED
    BY <1>1, <1>2, MappingInductive, PTL DEF Spec

\* While one task sends, what the driver's header promises is true: no two
\* messages outstanding lie in one internal buffer.
THEOREM BuffersDisjoint == ASSUME OneTask PROVE Spec => []EachEnqueueHasItsBuffer
  <1>1. IInv /\ MInv => EachEnqueueHasItsBuffer
    <2> SUFFICES ASSUME IInv, MInv,
                        NEW k \in 0 .. Dist(ProducerCi, hp_pi) - 1,
                        NEW l \in 0 .. Dist(ProducerCi, hp_pi) - 1, k # l
                 PROVE  bd_h[SlotAt(k)] # bd_h[SlotAt(l)]
      BY DEF EachEnqueueHasItsBuffer
    <2>1. k \in Slot /\ l \in Slot
      BY Bounds, DepthAssumption DEF Slot
    <2>2. /\ SlotAt(k) \in Slot /\ Dist(ProducerCi, SlotAt(k)) = k
          /\ SlotAt(l) \in Slot /\ Dist(ProducerCi, SlotAt(l)) = l
      BY <2>1, SlotAtType DEF IInv
    <2>3. Outstanding(SlotAt(k)) /\ Outstanding(SlotAt(l))
      BY <2>2, Bounds DEF Outstanding
    <2> QED
      BY <2>2, <2>3 DEF MInv
  <1> QED
    BY <1>1, MappingInductive, PTL
===============================================================================
