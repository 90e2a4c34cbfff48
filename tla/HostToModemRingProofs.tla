------------------------ MODULE HostToModemRingProofs -------------------------
(***************************************************************************)
(* Safety of the host-to-modem channel for every ring size, every set of   *)
(* messages and both modes, by the inductive invariant IInv, and that the  *)
(* channel is the queue of BoundedQueue.                                   *)
(***************************************************************************)
EXTENDS HostToModemRing, ArithmeticLemmas, SequenceTheorems, TLAPS

-------------------------------------------------------------------------------
(* Arithmetic of the ring. *)

\* The drivers' two ways of going round the ring, a test after the increment
\* and a remainder, agree.
LEMMA SuccIsMod ==
    ASSUME NEW i \in Slot
    PROVE  /\ Succ(i) \in Slot
           /\ (i + 1) % Depth = Succ(i)
  <1>1. (i + 1) % Depth = Succ(i)
    BY SuccessorMod, DepthAssumption DEF Succ, Slot
  <1> QED
    BY <1>1, DepthAssumption DEF Succ, Slot

\* Distances are counts of slots.
LEMMA DistType ==
    ASSUME NEW a \in Slot, NEW b \in Slot
    PROVE  /\ Dist(a, b) \in Nat
           /\ Dist(a, b) < Depth
           /\ (Dist(a, b) = 0) <=> (a = b)
  BY DepthAssumption DEF Dist, Slot

\* Distances from one origin tell slots apart.
LEMMA DistInjective ==
    ASSUME NEW a \in Slot, NEW b \in Slot, NEW c \in Slot,
           Dist(a, b) = Dist(a, c)
    PROVE  b = c
  BY DepthAssumption DEF Dist, Slot

\* Going on by one slot adds one to the distance unless it closes the circle.
LEMMA DistSucc ==
    ASSUME NEW a \in Slot, NEW b \in Slot
    PROVE  Dist(a, Succ(b)) = IF Succ(b) = a THEN 0 ELSE Dist(a, b) + 1
  BY DepthAssumption DEF Dist, Slot, Succ

\* Moving the origin on by one takes one from every other distance.
LEMMA DistSuccOrigin ==
    ASSUME NEW a \in Slot, NEW b \in Slot, a # b
    PROVE  Dist(Succ(a), b) = Dist(a, b) - 1
  BY DepthAssumption DEF Dist, Slot, Succ

\* A ring that is not full has room for one more step.
LEMMA NotFull ==
    ASSUME NEW a \in Slot, NEW b \in Slot, ~ is_bd_ring_full(a, b)
    PROVE  Dist(a, Succ(b)) = Dist(a, b) + 1
  BY SuccIsMod, DistSucc DEF is_bd_ring_full

\* A slot that has another one ahead of it can be stepped over.
LEMMA RoomToStep ==
    ASSUME NEW a \in Slot, NEW b \in Slot, NEW c \in Slot,
           Dist(a, b) < Dist(a, c)
    PROVE  Dist(a, Succ(b)) = Dist(a, b) + 1
  BY DepthAssumption DEF Dist, Slot, Succ

-------------------------------------------------------------------------------
(* The invariant holds initially and is kept by every action. *)

LEMMA InitInv == Init => IInv
  <1> SUFFICES ASSUME Init PROVE IInv
    OBVIOUS
  <1> USE DepthAssumption DEF Init, Slot
  <1>1. TypeOK
    BY DEF TypeOK
  <1>2. IndexOrder
    BY DEF IndexOrder, ProducerCi, Dist
  <1>3. Control
    BY DEF Control
  <1>4. Contents
    BY DEF Contents, Written, Finished, ProducerCi, Dist, ConfirmationMatches
  <1> QED
    BY <1>1, <1>2, <1>3, <1>4 DEF IInv

\* The index the sender goes by is one of the two the host may read.
LEMMA ProducerCiType ==
    ASSUME TypeOK PROVE ProducerCi \in Slot
  BY DEF TypeOK, ProducerCi

\* The message the modem works on is one the host has written and left alone.
LEMMA HeldIsWritten ==
    ASSUME IInv, rx_pc = "work" PROVE Written(modem_ci)
  <1>1. modem_ci # md_pi
    BY DEF IInv, Control
  <1>2. Dist(ProducerCi, modem_ci) # Dist(ProducerCi, md_pi)
    BY <1>1, ProducerCiType, DistInjective DEF IInv, TypeOK
  <1> QED
    BY <1>2, ProducerCiType, DistType DEF IInv, TypeOK, IndexOrder, Written

LEMMA GetBufInv ==
    ASSUME IInv, GetBuf PROVE IInv'
  <1> USE DEF GetBuf, HasRoom, modemVars
  <1>1. TypeOK'
    BY DEF IInv, TypeOK
  <1>2. ProducerCi' = ProducerCi
    BY DEF ProducerCi
  <1>3. IndexOrder'
    BY <1>2 DEF IInv, IndexOrder, Dist
  <1>4. Control'
    BY <1>2 DEF IInv, Control, is_bd_ring_full, HasRoom, Succ
  <1>5. Contents'
    <2>1. \A i \in Slot : Written(i)' <=> Written(i)
      BY <1>2 DEF Written, Dist
    <2>2. \A i \in Slot : Written(i) => i # host_pi
      BY ProducerCiType, DistType DEF IInv, TypeOK, Written
    <2>3. \A i \in Slot : Finished(i)' <=> Finished(i)
      BY <1>2 DEF Finished, Dist
    <2>4. rx_pc = "work" => Written(modem_ci)
      BY HeldIsWritten
    <2> QED
      BY <2>1, <2>2, <2>3, <2>4
         DEF IInv, TypeOK, Contents, ConfirmationMatches
  <1> QED
    BY <1>1, <1>3, <1>4, <1>5 DEF IInv

LEMMA FillBufInv ==
    ASSUME IInv, NEW m \in Msg, FillBuf(m) PROVE IInv'
  <1> USE DEF FillBuf, modemVars
  <1>1. TypeOK'
    BY DEF IInv, TypeOK
  <1>2. ProducerCi' = ProducerCi
    BY DEF ProducerCi
  <1>3. IndexOrder'
    BY <1>2 DEF IInv, IndexOrder, Dist
  <1>4. Control'
    BY <1>2 DEF IInv, TypeOK, Control, is_bd_ring_full, HasRoom, Succ
  <1>5. Contents'
    <2>1. \A i \in Slot : Written(i)' <=> Written(i)
      BY <1>2 DEF Written, Dist
    <2>2. \A i \in Slot : Written(i) => i # tx_buf
      BY ProducerCiType, DistType DEF IInv, TypeOK, Control, Written
    <2>3. \A i \in Slot : Finished(i)' <=> Finished(i)
      BY <1>2 DEF Finished, Dist
    <2>4. rx_pc = "work" => Written(modem_ci)
      BY HeldIsWritten
    <2> QED
      BY <2>1, <2>2, <2>3, <2>4
         DEF IInv, TypeOK, Contents, ConfirmationMatches
  <1> QED
    BY <1>1, <1>3, <1>4, <1>5 DEF IInv

LEMMA GiveUpInv ==
    ASSUME IInv, GiveUp PROVE IInv'
  BY DEF IInv, GiveUp, modemVars, TypeOK, IndexOrder, Control, Contents,
         ConfirmationMatches, Written, Finished, ProducerCi, Dist,
         is_bd_ring_full, HasRoom, Succ

LEMMA EnqueueRawOpInv ==
    ASSUME IInv, EnqueueRawOp PROVE IInv'
  <1> USE DEF EnqueueRawOp, HasRoom, modemVars
  <1>1. TypeOK'
    BY SuccIsMod DEF IInv, TypeOK, Control
  <1>2. ProducerCi' = ProducerCi
    BY DEF ProducerCi
  <1>3. Dist(ProducerCi, host_pi') = Dist(ProducerCi, host_pi) + 1
    BY ProducerCiType, NotFull DEF IInv, TypeOK
  <1>4. \A i \in Slot : Dist(ProducerCi, i)' = Dist(ProducerCi, i)
    BY <1>2 DEF Dist
  <1>5. IndexOrder'
    BY <1>1, <1>2, <1>3, ProducerCiType, DistType
       DEF IInv, TypeOK, IndexOrder, Dist
  <1>6. Control'
    BY DEF IInv, TypeOK, Control, Succ
  <1>7. Contents'
    <2>1. \A i \in Slot : Written(i)' <=> Written(i) \/ i = host_pi
      <3> SUFFICES ASSUME NEW i \in Slot
                   PROVE  Written(i)' <=> Written(i) \/ i = host_pi
        OBVIOUS
      <3>1. Dist(ProducerCi, i) = Dist(ProducerCi, host_pi) <=> i = host_pi
        BY ProducerCiType, DistInjective DEF IInv, TypeOK
      <3>2. Dist(ProducerCi, modem_ci) <= Dist(ProducerCi, host_pi)
        BY ProducerCiType, DistType DEF IInv, TypeOK, IndexOrder
      <3>3. /\ Dist(ProducerCi, i) \in Nat
            /\ Dist(ProducerCi, host_pi) \in Nat
            /\ Dist(ProducerCi, modem_ci) \in Nat
        BY ProducerCiType, DistType DEF IInv, TypeOK
      <3>4. Written(i)' <=> /\ Dist(ProducerCi, modem_ci) <= Dist(ProducerCi, i)
                            /\ Dist(ProducerCi, i) < Dist(ProducerCi, host_pi) + 1
        BY <1>2, <1>3, <1>4 DEF Written, Dist, IInv, TypeOK
      <3> QED
        BY <3>1, <3>2, <3>3, <3>4 DEF Written
    <2>2. \A i \in Slot : Written(i) => i # host_pi
      BY ProducerCiType, DistType DEF IInv, TypeOK, Written
    <2>3. \A i \in Slot : Finished(i)' <=> Finished(i)
      BY <1>2 DEF Finished, Dist
    <2>4. \A i \in Slot : Finished(i) => i # host_pi
      BY ProducerCiType, DistType DEF IInv, TypeOK, IndexOrder, Finished
    <2>5. tx_buf = host_pi /\ tx_msg \in Msg /\ internal_bufs[tx_buf] = tx_msg
      BY DEF IInv, Control
    <2> QED
      BY <2>1, <2>2, <2>3, <2>4, <2>5
         DEF IInv, TypeOK, Contents, ConfirmationMatches
  <1> QED
    BY <1>1, <1>5, <1>6, <1>7 DEF IInv

LEMMA PublishPiInv ==
    ASSUME IInv, PublishPi PROVE IInv'
  <1> USE DEF PublishPi, modemVars
  <1>1. TypeOK'
    BY DEF IInv, TypeOK
  <1>2. ProducerCi' = ProducerCi
    BY DEF ProducerCi
  <1>3. IndexOrder'
    BY <1>2, ProducerCiType, DistType DEF IInv, TypeOK, IndexOrder, Dist
  <1>4. Control'
    <2>1. rx_pc = "work" => modem_ci # host_pi
      BY HeldIsWritten, ProducerCiType, DistType DEF IInv, TypeOK, Written
    <2> QED
      BY <2>1 DEF IInv, Control, Succ
  <1>5. Contents'
    BY <1>2 DEF IInv, Contents, Written, Finished, Dist, ConfirmationMatches
  <1> QED
    BY <1>1, <1>3, <1>4, <1>5 DEF IInv

LEMMA DequeueConfirmationInv ==
    ASSUME IInv, DequeueConfirmation PROVE IInv'
  <1> USE DEF DequeueConfirmation, modemVars
  <1>1. TypeOK'
    BY SuccIsMod DEF IInv, TypeOK
  <1>2. ProducerCi = host_ci /\ ProducerCi' = Succ(host_ci)
    BY DEF ProducerCi
  <1>3. \A i \in Slot : i # host_ci =>
            Dist(Succ(host_ci), i) = Dist(host_ci, i) - 1
    BY DistSuccOrigin DEF IInv, TypeOK
  <1>4. Dist(Succ(host_ci), host_ci) = Depth - 1
    BY DepthAssumption DEF IInv, TypeOK, Dist, Slot, Succ
  <1>5. /\ 0 < Dist(host_ci, hp_ci)
        /\ Dist(host_ci, hp_ci) <= Dist(host_ci, modem_ci)
        /\ Dist(host_ci, modem_ci) <= Dist(host_ci, md_pi)
        /\ Dist(host_ci, md_pi) <= Dist(host_ci, host_pi)
        /\ Dist(host_ci, host_pi) < Depth
    BY <1>2, DistType DEF IInv, TypeOK, IndexOrder
  <1>6. modem_ci # host_ci /\ md_pi # host_ci /\ host_pi # host_ci
    BY <1>5, DistType DEF IInv, TypeOK
  <1>7. IndexOrder'
    BY <1>2, <1>3, <1>5, <1>6, DistType DEF IInv, TypeOK, IndexOrder, Dist
  <1>8. Control'
    BY DEF IInv, Control, Succ
  <1>9. Contents'
    <2>1. /\ Dist(Succ(host_ci), modem_ci) = Dist(host_ci, modem_ci) - 1
          /\ Dist(Succ(host_ci), host_pi) = Dist(host_ci, host_pi) - 1
      BY <1>3, <1>6 DEF IInv, TypeOK
    <2>2. \A i \in Slot : /\ Dist(host_ci, i) \in Nat
                          /\ Dist(ProducerCi, i)' = Dist(Succ(host_ci), i)
      BY <1>2, DistType DEF IInv, TypeOK, Dist
    <2>3. \A i \in Slot : Written(i)' => Written(i)
      <3> SUFFICES ASSUME NEW i \in Slot, Written(i)' PROVE Written(i)
        OBVIOUS
      <3>1. /\ Dist(ProducerCi, modem_ci)' = Dist(host_ci, modem_ci) - 1
            /\ Dist(ProducerCi, host_pi)' = Dist(host_ci, host_pi) - 1
        BY <1>2, <2>1 DEF Dist
      <3>2. /\ Dist(host_ci, modem_ci) - 1 <= Dist(Succ(host_ci), i)
            /\ Dist(Succ(host_ci), i) < Dist(host_ci, host_pi) - 1
        BY <2>2, <3>1 DEF Written
      <3>3. /\ Dist(host_ci, modem_ci) \in Nat
            /\ Dist(host_ci, host_pi) \in Nat
            /\ Dist(host_ci, host_pi) < Depth
        BY DistType DEF IInv, TypeOK
      <3>4. i # host_ci
        BY <1>4, <3>2, <3>3, DepthAssumption
      <3> QED
        BY <1>2, <1>3, <2>2, <3>2, <3>3, <3>4 DEF Written
    <2>4. \A i \in Slot : Finished(i)' => Finished(i)
      <3> SUFFICES ASSUME NEW i \in Slot, Finished(i)' PROVE Finished(i)
        OBVIOUS
      <3>1. Dist(ProducerCi, modem_ci)' = Dist(host_ci, modem_ci) - 1
        BY <1>2, <2>1 DEF Dist
      <3>2. Dist(Succ(host_ci), i) < Dist(host_ci, modem_ci) - 1
        BY <2>2, <3>1 DEF Finished
      <3>3. Dist(host_ci, modem_ci) \in Nat /\ Dist(host_ci, modem_ci) < Depth
        BY DistType DEF IInv, TypeOK
      <3>4. i # host_ci
        BY <1>4, <3>2, <3>3, DepthAssumption
      <3> QED
        BY <1>2, <1>3, <2>2, <3>2, <3>3, <3>4 DEF Finished
    <2>5. status[host_ci] = bbdev_op[host_ci]
      <3>1. Dist(host_ci, host_ci) = 0
        BY DistType DEF IInv, TypeOK
      <3>2. Finished(host_ci)
        BY <1>2, <1>5, <3>1, DistType DEF Finished, IInv, TypeOK
      <3> QED
        BY <3>2 DEF IInv, TypeOK, Contents
    <2> QED
      BY <2>3, <2>4, <2>5 DEF IInv, Contents, ConfirmationMatches
  <1> QED
    BY <1>1, <1>7, <1>8, <1>9 DEF IInv

LEMMA DequeueRawOpInv ==
    ASSUME IInv, DequeueRawOp PROVE IInv'
  <1> USE DEF DequeueRawOp, hostVars
  <1>1. ProducerCi' = ProducerCi
    BY DEF ProducerCi
  <1>2. Written(modem_ci)
    <2>1. modem_ci # md_pi
      BY DEF is_bd_ring_empty
    <2>2. Dist(ProducerCi, modem_ci) # Dist(ProducerCi, md_pi)
      BY <2>1, ProducerCiType, DistInjective DEF IInv, TypeOK
    <2> QED
      BY <2>2, ProducerCiType, DistType DEF IInv, TypeOK, IndexOrder, Written
  <1>3. held' = internal_bufs[modem_ci] /\ held' \in Msg
    BY <1>2 DEF IInv, TypeOK, Contents
  <1>4. TypeOK'
    BY <1>3 DEF IInv, TypeOK
  <1>5. IndexOrder'
    BY <1>1 DEF IInv, IndexOrder, Dist
  <1>6. Control'
    BY <1>1 DEF IInv, Control, is_bd_ring_empty, is_bd_ring_full, HasRoom, Succ
  <1>7. Contents'
    BY <1>1, <1>3
       DEF IInv, Contents, Written, Finished, Dist, ConfirmationMatches
  <1> QED
    BY <1>4, <1>5, <1>6, <1>7 DEF IInv

LEMMA ConsumeRawOpInv ==
    ASSUME IInv, ConsumeRawOp PROVE IInv'
  <1> USE DEF ConsumeRawOp, hostVars
  <1>1. TypeOK'
    BY SuccIsMod DEF IInv, TypeOK
  <1>2. ProducerCi' = ProducerCi
    BY DEF ProducerCi
  <1>3. \A i \in Slot : Dist(ProducerCi, i)' = Dist(ProducerCi, i)
    BY <1>2 DEF Dist
  <1>4. Written(modem_ci)
    BY HeldIsWritten
  <1>5. Dist(ProducerCi, modem_ci) < Dist(ProducerCi, md_pi)
    BY ProducerCiType, DistInjective, DistType
       DEF IInv, TypeOK, IndexOrder, Control
  <1>6. Dist(ProducerCi, modem_ci') = Dist(ProducerCi, modem_ci) + 1
    BY <1>5, ProducerCiType, RoomToStep DEF IInv, TypeOK
  <1>7. IndexOrder'
    <2>1. /\ Dist(ProducerCi, hp_ci) \in Nat
          /\ Dist(ProducerCi, modem_ci) \in Nat
          /\ Dist(ProducerCi, md_pi) \in Nat
      BY ProducerCiType, DistType DEF IInv, TypeOK
    <2> QED
      BY <1>2, <1>5, <1>6, <2>1 DEF IInv, IndexOrder, Dist
  <1>8. Control'
    BY <1>2 DEF IInv, Control, is_bd_ring_full, HasRoom, Succ
  <1>9. Contents'
    <2>1. \A i \in Slot : Dist(ProducerCi, i) \in Nat
      BY ProducerCiType, DistType DEF IInv
    <2>2. Dist(ProducerCi, modem_ci)' = Dist(ProducerCi, modem_ci) + 1
      BY <1>2, <1>6 DEF Dist
    <2>3. \A i \in Slot : Written(i)' => Written(i)
      BY <1>2, <1>3, <2>1, <2>2 DEF Written, Dist, IInv, TypeOK
    <2>4. \A i \in Slot : Finished(i)' => Finished(i) \/ i = modem_ci
      <3> SUFFICES ASSUME NEW i \in Slot, Finished(i)', ~ Finished(i)
                   PROVE  i = modem_ci
        OBVIOUS
      <3>1. Dist(ProducerCi, i) < Dist(ProducerCi, modem_ci) + 1
        BY <1>3, <2>2 DEF Finished
      <3>2. Dist(ProducerCi, i) = Dist(ProducerCi, modem_ci)
        BY <2>1, <3>1 DEF Finished, IInv, TypeOK
      <3> QED
        BY <3>2, ProducerCiType, DistInjective DEF IInv, TypeOK
    <2>5. held = bbdev_op[modem_ci]
      BY <1>4 DEF IInv, TypeOK, Contents
    <2> QED
      BY <2>3, <2>4, <2>5 DEF IInv, TypeOK, Contents, ConfirmationMatches
  <1> QED
    BY <1>1, <1>7, <1>8, <1>9 DEF IInv

LEMMA PublishCiInv ==
    ASSUME IInv, PublishCi PROVE IInv'
  <1> USE DEF PublishCi, hostVars
  <1>1. TypeOK'
    BY DEF IInv, TypeOK
  <1>2. modem_ci = Succ(hp_ci) /\ hp_ci' = Succ(hp_ci)
    BY DEF IInv, Control
  <1>3. CASE conf_enable
    <2>1. ProducerCi' = ProducerCi
      BY <1>3 DEF ProducerCi
    <2>2. IndexOrder'
      BY <2>1, ProducerCiType, DistType DEF IInv, TypeOK, IndexOrder, Dist
    <2>3. Control'
      BY <2>1 DEF IInv, Control, is_bd_ring_full, HasRoom, Succ
    <2>4. Contents'
      BY <2>1 DEF IInv, Contents, Written, Finished, Dist, ConfirmationMatches
    <2> QED
      BY <1>1, <2>2, <2>3, <2>4 DEF IInv
  <1>4. CASE ~ conf_enable /\ Succ(hp_ci) = hp_ci
    BY <1>1, <1>2, <1>4
       DEF IInv, IndexOrder, Control, Contents, Written, Finished, Dist,
           ConfirmationMatches, ProducerCi, is_bd_ring_full, HasRoom, Succ
  <1>5. CASE ~ conf_enable /\ Succ(hp_ci) # hp_ci
    <2>1. ProducerCi = hp_ci /\ ProducerCi' = Succ(hp_ci)
      BY <1>2, <1>5 DEF ProducerCi
    <2>2. \A i \in Slot : i # hp_ci => Dist(Succ(hp_ci), i) = Dist(hp_ci, i) - 1
      BY DistSuccOrigin DEF IInv, TypeOK
    <2>3. Dist(Succ(hp_ci), hp_ci) = Depth - 1
      BY DepthAssumption DEF IInv, TypeOK, Dist, Slot, Succ
    <2>4. /\ 0 < Dist(hp_ci, modem_ci)
          /\ Dist(hp_ci, modem_ci) <= Dist(hp_ci, md_pi)
          /\ Dist(hp_ci, md_pi) <= Dist(hp_ci, host_pi)
          /\ Dist(hp_ci, host_pi) < Depth
      BY <1>2, <1>5, <2>1, DistType DEF IInv, TypeOK, IndexOrder
    <2>5. modem_ci # hp_ci /\ md_pi # hp_ci /\ host_pi # hp_ci
      BY <2>4, DistType DEF IInv, TypeOK
    <2>6. /\ Dist(ProducerCi, hp_ci)' = 0
          /\ Dist(ProducerCi, modem_ci)' = Dist(hp_ci, modem_ci) - 1
          /\ Dist(ProducerCi, md_pi)' = Dist(hp_ci, md_pi) - 1
          /\ Dist(ProducerCi, host_pi)' = Dist(hp_ci, host_pi) - 1
      BY <1>2, <2>1, <2>2, <2>5 DEF IInv, TypeOK, Dist, Slot
    <2>7. /\ Dist(hp_ci, modem_ci) \in Nat
          /\ Dist(hp_ci, md_pi) \in Nat
          /\ Dist(hp_ci, host_pi) \in Nat
      BY DistType DEF IInv, TypeOK
    <2>8. IndexOrder'
      BY <2>4, <2>6, <2>7 DEF IndexOrder
    <2>9. Control'
      <3>1. Succ(host_pi) # Succ(hp_ci)
        BY <2>5, DepthAssumption DEF IInv, TypeOK, Succ, Slot
      <3>2. (host_pi + 1) % Depth = Succ(host_pi)
        BY SuccIsMod DEF IInv, TypeOK
      <3>3. ~ is_bd_ring_full(ProducerCi, host_pi)'
        BY <2>1, <3>1, <3>2 DEF is_bd_ring_full
      <3> QED
        BY <3>3 DEF IInv, Control, Succ
    <2>10. Contents'
      <3>1. \A i \in Slot : /\ Dist(hp_ci, i) \in Nat
                            /\ Dist(ProducerCi, i)' = Dist(Succ(hp_ci), i)
        BY <2>1, DistType DEF IInv, TypeOK, Dist
      <3>2. \A i \in Slot : Written(i)' => Written(i)
        <4> SUFFICES ASSUME NEW i \in Slot, Written(i)' PROVE Written(i)
          OBVIOUS
        <4>1. /\ Dist(hp_ci, modem_ci) - 1 <= Dist(Succ(hp_ci), i)
              /\ Dist(Succ(hp_ci), i) < Dist(hp_ci, host_pi) - 1
          BY <2>6, <3>1 DEF Written
        <4>2. i # hp_ci
          BY <2>3, <2>4, <2>7, <4>1, DepthAssumption
        <4> QED
          BY <2>1, <2>2, <2>7, <3>1, <4>1, <4>2 DEF Written
      <3>3. \A i \in Slot : Finished(i)' => Finished(i)
        <4> SUFFICES ASSUME NEW i \in Slot, Finished(i)' PROVE Finished(i)
          OBVIOUS
        <4>1. Dist(Succ(hp_ci), i) < Dist(hp_ci, modem_ci) - 1
          BY <2>6, <3>1 DEF Finished
        <4>2. i # hp_ci
          BY <2>3, <2>4, <2>7, <4>1, DepthAssumption
        <4> QED
          BY <2>1, <2>2, <2>7, <3>1, <4>1, <4>2 DEF Finished
      <3> QED
        BY <3>2, <3>3 DEF IInv, Contents, ConfirmationMatches
    <2> QED
      BY <1>1, <2>8, <2>9, <2>10 DEF IInv
  <1> QED
    BY <1>3, <1>4, <1>5

LEMMA StutterInv ==
    ASSUME IInv, UNCHANGED vars PROVE IInv'
  BY DEF IInv, vars, hostVars, modemVars, TypeOK, IndexOrder, Control, Contents,
         ConfirmationMatches, Written, Finished, ProducerCi, Dist,
         is_bd_ring_full, HasRoom, Succ

-------------------------------------------------------------------------------
(* The theorems. *)

LEMMA NextInv ==
    ASSUME IInv, [Next]_vars PROVE IInv'
  <1>1. CASE GetBuf
    BY <1>1, GetBufInv
  <1>2. ASSUME NEW m \in Msg, FillBuf(m) PROVE IInv'
    BY <1>2, FillBufInv
  <1>3. CASE GiveUp
    BY <1>3, GiveUpInv
  <1>4. CASE EnqueueRawOp
    BY <1>4, EnqueueRawOpInv
  <1>5. CASE PublishPi
    BY <1>5, PublishPiInv
  <1>6. CASE DequeueConfirmation
    BY <1>6, DequeueConfirmationInv
  <1>7. CASE DequeueRawOp
    BY <1>7, DequeueRawOpInv
  <1>8. CASE ConsumeRawOp
    BY <1>8, ConsumeRawOpInv
  <1>9. CASE PublishCi
    BY <1>9, PublishCiInv
  <1>10. CASE UNCHANGED vars
    BY <1>10, StutterInv
  <1> QED
    BY <1>1, <1>2, <1>3, <1>4, <1>5, <1>6, <1>7, <1>8, <1>9, <1>10
       DEF Next, Host, Modem

\* The inductive invariant holds in every reachable state, for every ring size,
\* every set of messages, with and without confirmations.
THEOREM Inductive == Spec => []IInv
  BY InitInv, NextInv, PTL DEF Spec

\* The variables of both drivers keep their types: no index leaves the ring.
THEOREM TypeCorrect == Spec => []TypeOK
  <1>1. IInv => TypeOK
    BY DEF IInv
  <1> QED
    BY <1>1, Inductive, PTL

\* send_msg: once get_tx_buf has succeeded, enqueue_raw_op does not return
\* -EBUSY.
THEOREM NeverBusy == Spec => []EnqueueNeverBusy
  <1>1. IInv => EnqueueNeverBusy
    BY DEF IInv, Control, EnqueueNeverBusy
  <1> QED
    BY <1>1, Inductive, PTL

\* The firmware reads whole messages: the buffer it works on is never cleared
\* or refilled before bbdev_ipc_consume_raw_op.
THEOREM MessageStable == Spec => []MessageStableWhileHeld
  <1>1. IInv => MessageStableWhileHeld
    <2> SUFFICES ASSUME IInv, rx_pc = "work"
                 PROVE  held \in Msg /\ internal_bufs[bd_m[modem_ci]] = held
      BY DEF MessageStableWhileHeld
    <2>1. Written(modem_ci)
      BY HeldIsWritten
    <2> QED
      BY <2>1 DEF IInv, TypeOK, Contents
  <1> QED
    BY <1>1, Inductive, PTL

\* dequeue_raw_op returns each operation with its own verdict.
THEOREM ConfirmationsMatch == Spec => []ConfirmationMatches
  <1>1. IInv => ConfirmationMatches
    BY DEF IInv, Contents
  <1> QED
    BY <1>1, Inductive, PTL

-------------------------------------------------------------------------------
(* Slots and sequences. *)

\* The slot that lies n steps from slot a.
LEMMA SlotAtDistance ==
    ASSUME NEW a \in Slot, NEW n \in Slot
    PROVE  /\ (a + n) % Depth \in Slot
           /\ Dist(a, (a + n) % Depth) = n
  BY RingAround, DepthAssumption DEF Dist, Slot, RingDist

\* Going as far as slot b from slot a leads to slot b.
LEMMA DistanceOfSlot ==
    ASSUME NEW a \in Slot, NEW b \in Slot
    PROVE  (a + Dist(a, b)) % Depth = b
  BY RingThere, DepthAssumption DEF Dist, Slot, RingDist

\* Moving the origin on shifts the slots by one.
LEMMA Shift ==
    ASSUME NEW a \in Slot, NEW n \in Slot, n + 1 \in Slot
    PROVE  (Succ(a) + n) % Depth = (a + (n + 1)) % Depth
  BY RingShift, DepthAssumption DEF Succ, Slot

-------------------------------------------------------------------------------
(* What the mapping needs beyond IInv. *)

\* Every outstanding message lies in the buffer of its own slot, finished or
\* not, and the receiver's hands are empty unless it works on a message.
Outstanding(i) == Dist(ProducerCi, i) < Dist(ProducerCi, host_pi)

MInv ==
    /\ \A i \in Slot : Outstanding(i) => bd_m[i] = i
    /\ rx_pc # "work" => held = NoMsg

LEMMA InitMInv == Init => MInv
  BY DepthAssumption DEF Init, MInv, Outstanding, ProducerCi, Dist, Slot

\* The slots are outstanding that were before, but for those that came free.
LEMMA FreeShrinks ==
    ASSUME IInv, NEW p \in Slot, p = Succ(ProducerCi), ProducerCi # host_pi,
           NEW i \in Slot, Dist(p, i) < Dist(p, host_pi)
    PROVE  Outstanding(i)
  <1>1. /\ ProducerCi \in Slot /\ host_pi \in Slot
        /\ Dist(ProducerCi, host_pi) \in Nat /\ Dist(ProducerCi, i) \in Nat
    BY ProducerCiType, DistType DEF IInv, TypeOK
  <1>2. Dist(p, host_pi) = Dist(ProducerCi, host_pi) - 1
    BY <1>1, DistSuccOrigin
  <1>3. CASE i = ProducerCi
    BY <1>1, <1>3, DistType DEF Outstanding
  <1>4. CASE i # ProducerCi
    <2>1. Dist(p, i) = Dist(ProducerCi, i) - 1
      BY <1>1, <1>4, DistSuccOrigin
    <2> QED
      BY <1>1, <1>2, <2>1 DEF Outstanding
  <1> QED
    BY <1>3, <1>4

LEMMA NextMInv ==
    ASSUME IInv, MInv, [Next]_vars PROVE MInv'
  <1> USE DEF MInv
  <1>1. CASE GetBuf
    BY <1>1 DEF GetBuf, modemVars, Outstanding, ProducerCi, Dist
  <1>2. ASSUME NEW m \in Msg, FillBuf(m) PROVE MInv'
    BY <1>2 DEF FillBuf, modemVars, Outstanding, ProducerCi, Dist
  <1>3. CASE GiveUp
    BY <1>3 DEF GiveUp, modemVars, Outstanding, ProducerCi, Dist
  <1>4. CASE EnqueueRawOp
    <2>1. ProducerCi' = ProducerCi /\ host_pi' = Succ(host_pi) /\ tx_buf = host_pi
      BY <1>4 DEF EnqueueRawOp, modemVars, ProducerCi, IInv, Control
    <2>2. bd_m' = [bd_m EXCEPT ![host_pi] = host_pi]
      BY <1>4, <2>1 DEF EnqueueRawOp
    <2>3. Dist(ProducerCi, Succ(host_pi)) = Dist(ProducerCi, host_pi) + 1
      BY <1>4, ProducerCiType, NotFull DEF EnqueueRawOp, HasRoom, IInv, TypeOK
    <2>4. ASSUME NEW i \in Slot, Outstanding(i)' PROVE bd_m'[i] = i
      <3>1. Dist(ProducerCi, i) < Dist(ProducerCi, host_pi) + 1
        BY <2>1, <2>3, <2>4 DEF Outstanding, Dist
      <3>2. CASE i = host_pi
        BY <2>2, <3>2 DEF IInv, TypeOK
      <3>3. CASE i # host_pi
        <4>1. Dist(ProducerCi, i) # Dist(ProducerCi, host_pi)
          BY <3>3, ProducerCiType, DistInjective DEF IInv, TypeOK
        <4>2. Outstanding(i)
          BY <3>1, <4>1, ProducerCiType, DistType DEF Outstanding, IInv, TypeOK
        <4> QED
          BY <2>2, <3>3, <4>2 DEF IInv, TypeOK
      <3> QED
        BY <3>2, <3>3
    <2> QED
      BY <1>4, <2>4 DEF EnqueueRawOp, modemVars
  <1>5. CASE PublishPi
    BY <1>5 DEF PublishPi, modemVars, Outstanding, ProducerCi, Dist
  <1>6. CASE DequeueConfirmation
    <2>1. ProducerCi' = Succ(ProducerCi) /\ host_pi' = host_pi /\ bd_m' = bd_m
      BY <1>6 DEF DequeueConfirmation, modemVars, ProducerCi
    <2>2. ProducerCi # host_pi
      <3>1. ProducerCi # hp_ci
        BY <1>6 DEF DequeueConfirmation, ProducerCi
      <3>2. Dist(ProducerCi, hp_ci) > 0
        BY <3>1, ProducerCiType, DistType DEF IInv, TypeOK
      <3> QED
        BY <3>2, ProducerCiType, DistType DEF IInv, TypeOK, IndexOrder
    <2>3. Succ(ProducerCi) \in Slot
      BY ProducerCiType, SuccIsMod DEF IInv
    <2>4. \A i \in Slot : Outstanding(i)' => Outstanding(i)
      BY <2>1, <2>2, <2>3, FreeShrinks DEF Outstanding, Dist
    <2> QED
      BY <1>6, <2>1, <2>4 DEF DequeueConfirmation, modemVars
  <1>7. CASE DequeueRawOp
    BY <1>7 DEF DequeueRawOp, hostVars, Outstanding, ProducerCi, Dist
  <1>8. CASE ConsumeRawOp
    BY <1>8 DEF ConsumeRawOp, hostVars, Outstanding, ProducerCi, Dist
  <1>9. CASE PublishCi
    <2>1. /\ ProducerCi' = IF conf_enable THEN ProducerCi ELSE modem_ci
          /\ host_pi' = host_pi /\ bd_m' = bd_m /\ held' = held /\ rx_pc = "release"
      BY <1>9 DEF PublishCi, hostVars, ProducerCi
    <2>2. CASE ProducerCi' = ProducerCi
      BY <2>1, <2>2 DEF Outstanding, Dist
    <2>3. CASE ProducerCi' # ProducerCi
      <3>1. ProducerCi = hp_ci /\ ProducerCi' = modem_ci /\ modem_ci = Succ(ProducerCi)
        BY <1>9, <2>1, <2>3 DEF PublishCi, IInv, Control, ProducerCi
      <3>2. ProducerCi # host_pi
        <4>1. Dist(ProducerCi, modem_ci) > 0
          BY <2>3, <3>1, ProducerCiType, DistType DEF IInv, TypeOK
        <4> QED
          BY <4>1, ProducerCiType, DistType DEF IInv, TypeOK, IndexOrder
      <3>3. \A i \in Slot : Outstanding(i)' => Outstanding(i)
        BY <2>1, <3>1, <3>2, FreeShrinks DEF Outstanding, Dist, IInv, TypeOK
      <3> QED
        BY <2>1, <3>3
    <2> QED
      BY <2>2, <2>3
  <1>10. CASE UNCHANGED vars
    BY <1>10 DEF vars, hostVars, modemVars, Outstanding, ProducerCi, Dist
  <1> QED
    BY <1>1, <1>2, <1>3, <1>4, <1>5, <1>6, <1>7, <1>8, <1>9, <1>10 DEF Next, Host, Modem

-------------------------------------------------------------------------------
(* The queue as the mapping shows it. *)

LEMMA SlotAtType ==
    ASSUME TypeOK, NEW n \in Slot
    PROVE  SlotAt(n) \in Slot /\ Dist(ProducerCi, SlotAt(n)) = n
  BY ProducerCiType, SlotAtDistance DEF SlotAt

LEMMA SlotAtDist ==
    ASSUME TypeOK, NEW i \in Slot
    PROVE  SlotAt(Dist(ProducerCi, i)) = i
  BY ProducerCiType, DistanceOfSlot DEF SlotAt

Payload == Msg \cup {NoMsg}

LEMMA QueueSlotsType ==
    ASSUME TypeOK
    PROVE  /\ Dist(ProducerCi, md_pi) \in Nat
           /\ QueueSlots \in [1 .. Dist(ProducerCi, md_pi) -> Payload]
           /\ QueueSlots \in Seq(Payload)
           /\ Len(QueueSlots) = Dist(ProducerCi, md_pi)
  <1>1. Dist(ProducerCi, md_pi) \in Nat /\ Dist(ProducerCi, md_pi) < Depth
    BY ProducerCiType, DistType DEF TypeOK
  <1>2. ASSUME NEW k \in 1 .. Dist(ProducerCi, md_pi)
        PROVE  MessageAt(k - 1) \in Payload
    <2>1. k - 1 \in Slot
      BY <1>1, DepthAssumption DEF Slot
    <2>2. SlotAt(k - 1) \in Slot
      BY <2>1, SlotAtType
    <2> QED
      BY <2>2 DEF TypeOK, MessageAt, Payload
  <1>3. QueueSlots \in [1 .. Dist(ProducerCi, md_pi) -> Payload]
    BY <1>2 DEF QueueSlots
  <1> QED
    BY <1>1, <1>3, LenIs

\* A step that leaves the indexes and the outstanding messages alone leaves the
\* queue alone.
LEMMA QueueSlotsStay ==
    ASSUME TypeOK, ProducerCi' = ProducerCi, md_pi' = md_pi,
           \A i \in Slot : Dist(ProducerCi, i) < Dist(ProducerCi, md_pi) =>
               internal_bufs'[bd_m'[i]] = internal_bufs[bd_m[i]]
    PROVE  QueueSlots' = QueueSlots
  <1>1. Dist(ProducerCi, md_pi)' = Dist(ProducerCi, md_pi)
    BY DEF Dist
  <1>3. Dist(ProducerCi, md_pi) \in Nat /\ Dist(ProducerCi, md_pi) < Depth
    BY ProducerCiType, DistType DEF TypeOK
  <1>2. ASSUME NEW k \in 1 .. Dist(ProducerCi, md_pi)
        PROVE  MessageAt(k - 1)' = MessageAt(k - 1)
    <2>1. k - 1 \in Slot /\ k - 1 < Dist(ProducerCi, md_pi)
      BY <1>3, DepthAssumption DEF Slot
    <2>2. /\ SlotAt(k - 1) \in Slot
          /\ Dist(ProducerCi, SlotAt(k - 1)) < Dist(ProducerCi, md_pi)
      BY <2>1, SlotAtType
    <2>3. SlotAt(k - 1)' = SlotAt(k - 1)
      BY DEF SlotAt
    <2> QED
      BY <2>2, <2>3 DEF MessageAt
  <1> QED
    BY <1>1, <1>2 DEF QueueSlots

\* A slot comes free: the oldest message leaves the queue, which was finished.
LEMMA FreeStep ==
    ASSUME IInv, ProducerCi' = Succ(ProducerCi),
           UNCHANGED <<md_pi, modem_ci, internal_bufs, bd_m, held>>,
           0 < Dist(ProducerCi, modem_ci)
    PROVE  Queue!Free
  <1>1. /\ ProducerCi \in Slot /\ md_pi \in Slot /\ modem_ci \in Slot
        /\ Succ(ProducerCi) \in Slot
    BY ProducerCiType, SuccIsMod DEF IInv, TypeOK
  <1>2. /\ Dist(ProducerCi, modem_ci) \in Nat /\ Dist(ProducerCi, md_pi) \in Nat
        /\ Dist(ProducerCi, modem_ci) <= Dist(ProducerCi, md_pi)
        /\ Dist(ProducerCi, md_pi) < Depth
    BY <1>1, DistType DEF IInv, IndexOrder
  <1>3. ProducerCi # modem_ci /\ ProducerCi # md_pi
    BY <1>1, <1>2, DistType
  <1>4. /\ Dist(ProducerCi, modem_ci)' = Dist(ProducerCi, modem_ci) - 1
        /\ Dist(ProducerCi, md_pi)' = Dist(ProducerCi, md_pi) - 1
    <2>1. /\ Dist(Succ(ProducerCi), modem_ci) = Dist(ProducerCi, modem_ci) - 1
          /\ Dist(Succ(ProducerCi), md_pi) = Dist(ProducerCi, md_pi) - 1
      BY <1>1, <1>3, DistSuccOrigin
    <2> QED
      BY <2>1 DEF Dist
  <1>5. ASSUME NEW k \in 1 .. Dist(ProducerCi, md_pi) - 1
        PROVE  MessageAt(k - 1)' = MessageAt(k)
    <2>1. k - 1 \in Slot /\ (k - 1) + 1 \in Slot /\ (k - 1) + 1 = k
      BY <1>2, DepthAssumption DEF Slot
    <2>2. (Succ(ProducerCi) + (k - 1)) % Depth = (ProducerCi + k) % Depth
      BY <1>1, <2>1, Shift
    <2>3. SlotAt(k - 1)' = SlotAt(k)
      BY <2>2 DEF SlotAt
    <2> QED
      BY <2>3 DEF MessageAt
  <1>6. \A k \in 1 .. Dist(ProducerCi, md_pi) - 1 : QueueSlots'[k] = QueueSlots[k + 1]
    <2> SUFFICES ASSUME NEW k \in 1 .. Dist(ProducerCi, md_pi) - 1
                 PROVE  QueueSlots'[k] = QueueSlots[k + 1]
      OBVIOUS
    <2>1. QueueSlots'[k] = MessageAt(k - 1)'
      BY <1>4 DEF QueueSlots
    <2>2. k + 1 \in 1 .. Dist(ProducerCi, md_pi) /\ (k + 1) - 1 = k
      BY <1>2
    <2>3. QueueSlots[k + 1] = MessageAt(k)
      BY <2>2 DEF QueueSlots
    <2> QED
      BY <1>5, <2>1, <2>3
  <1>7. QueueSlots \in [1 .. Dist(ProducerCi, md_pi) -> Payload]
    BY QueueSlotsType DEF IInv
  <1>8. QueueSlots' \in [1 .. Dist(ProducerCi, md_pi) - 1 -> Payload]
    <2>1. ASSUME NEW k \in 1 .. Dist(ProducerCi, md_pi) - 1
          PROVE  QueueSlots'[k] \in Payload
      <3>1. k + 1 \in 1 .. Dist(ProducerCi, md_pi)
        BY <1>2
      <3> QED
        BY <1>6, <1>7, <3>1
    <2> QED
      BY <1>4, <2>1 DEF QueueSlots
  <1>9. QueueSlots' = Tail(QueueSlots)
    BY <1>2, <1>6, <1>7, <1>8, TailIs
  <1> QED
    BY <1>4, <1>9 DEF Queue!Free, QueueDone

\* The bounds of the mapped queue, as the lemmas below use them.
LEMMA Bounds ==
    ASSUME IInv
    PROVE  /\ ProducerCi \in Slot /\ md_pi \in Slot /\ modem_ci \in Slot /\ host_pi \in Slot
           /\ hp_ci \in Slot
           /\ Dist(ProducerCi, hp_ci) \in Nat
           /\ Dist(ProducerCi, modem_ci) \in Nat
           /\ Dist(ProducerCi, md_pi) \in Nat
           /\ Dist(ProducerCi, host_pi) \in Nat
           /\ Dist(ProducerCi, hp_ci) <= Dist(ProducerCi, modem_ci)
           /\ Dist(ProducerCi, modem_ci) <= Dist(ProducerCi, md_pi)
           /\ Dist(ProducerCi, md_pi) <= Dist(ProducerCi, host_pi)
           /\ Dist(ProducerCi, host_pi) < Depth
  BY ProducerCiType, DistType DEF IInv, TypeOK, IndexOrder

-------------------------------------------------------------------------------
(* Each action, seen through the mapping. *)

\* Writing the buffer of the producer index touches no outstanding message.
LEMMA WriteBufferStutters ==
    ASSUME IInv, MInv, NEW m,
           internal_bufs' = [internal_bufs EXCEPT ![host_pi] = m],
           UNCHANGED <<bd_m, conf_enable, host_ci, hp_ci, md_pi, modem_ci, held>>
    PROVE  UNCHANGED Queue!vars
  <1>1. ProducerCi' = ProducerCi
    BY DEF ProducerCi
  <1>2. ASSUME NEW i \in Slot, Dist(ProducerCi, i) < Dist(ProducerCi, md_pi)
        PROVE  internal_bufs'[bd_m'[i]] = internal_bufs[bd_m[i]]
    <2>1. Outstanding(i) /\ i # host_pi
      BY <1>2, Bounds, DistType DEF Outstanding
    <2>2. bd_m[i] = i
      BY <2>1 DEF MInv
    <2> QED
      BY <2>1, <2>2 DEF IInv, TypeOK
  <1>3. QueueSlots' = QueueSlots
    BY <1>1, <1>2, QueueSlotsStay DEF IInv
  <1>4. QueueDone' = QueueDone
    BY <1>1 DEF QueueDone, Dist
  <1> QED
    BY <1>3, <1>4 DEF Queue!vars

\* The message just written is seen when the host writes md->pi.
LEMMA PublishPiPuts ==
    ASSUME IInv, PublishPi PROVE [Queue!Next]_(Queue!vars)
  <1> DEFINE n == Dist(ProducerCi, md_pi)
  <1>1. /\ ProducerCi' = ProducerCi /\ modem_ci' = modem_ci /\ held' = held
        /\ internal_bufs' = internal_bufs /\ bd_m' = bd_m
        /\ md_pi' = Succ(md_pi) /\ host_pi = Succ(md_pi)
    BY DEF PublishPi, modemVars, ProducerCi, IInv, Control
  <1>2. QueueDone' = QueueDone
    BY <1>1 DEF QueueDone, Dist
  <1>3. n \in Nat /\ n <= Dist(ProducerCi, Succ(md_pi)) /\ Dist(ProducerCi, Succ(md_pi)) < Depth
    BY <1>1, Bounds
  <1>4. CASE Succ(md_pi) = ProducerCi
    <2>1. n = 0
      BY <1>3, <1>4, Bounds, DistType
    <2>2. md_pi' = md_pi
      BY <1>1, <1>4, <2>1, Bounds, DistType
    <2>3. QueueSlots' = QueueSlots
      BY <1>1, <2>2, QueueSlotsStay DEF IInv
    <2> QED
      BY <1>1, <1>2, <2>3 DEF Queue!vars
  <1>5. CASE Succ(md_pi) # ProducerCi
    <2>1. Dist(ProducerCi, Succ(md_pi)) = n + 1
      BY <1>5, Bounds, DistSucc
    <2>2. Dist(ProducerCi, md_pi)' = n + 1
      BY <1>1, <2>1 DEF Dist
    <2>3. Written(md_pi)
      BY <1>1, <2>1, Bounds DEF Written
    <2>4. bd_m[md_pi] = md_pi /\ internal_bufs[md_pi] \in Msg
      BY <2>3, Bounds DEF IInv, Contents
    <2>5. MessageAt(n) = internal_bufs[md_pi]
      BY <2>4, Bounds, SlotAtDist DEF MessageAt, IInv
    <2>6. \A k : MessageAt(k)' = MessageAt(k)
      BY <1>1 DEF MessageAt, SlotAt
    <2> HIDE DEF n
    <2>7. QueueSlots' = [k \in 1 .. n + 1 |-> MessageAt(k - 1)]
      BY <2>2, <2>6 DEF QueueSlots
    <2>8. QueueSlots \in [1 .. n -> Payload] /\ Len(QueueSlots) = n
      BY QueueSlotsType DEF IInv, n
    <2>9. QueueSlots = [k \in 1 .. n |-> MessageAt(k - 1)]
      BY DEF QueueSlots, n
    <2>10. /\ \A k \in 1 .. n : QueueSlots'[k] = QueueSlots[k]
           /\ QueueSlots'[n + 1] = internal_bufs[md_pi]
      BY <1>3, <2>5, <2>7, <2>9
    <2>11. QueueSlots' \in [1 .. n + 1 -> Payload]
      <3>1. ASSUME NEW k \in 1 .. n + 1 PROVE QueueSlots'[k] \in Payload
        <4>1. CASE k \in 1 .. n
          BY <2>8, <2>10, <4>1
        <4>2. CASE k = n + 1
          BY <2>4, <2>10, <4>2 DEF Payload
        <4> QED
          BY <1>3, <4>1, <4>2
      <3> QED
        BY <2>7, <3>1
    <2>12. QueueSlots' = Append(QueueSlots, internal_bufs[md_pi])
      BY <1>3, <2>8, <2>10, <2>11, AppendIs
    <2>13. Len(QueueSlots) < Depth - 1
      BY <1>3, <2>1, <2>8, DepthAssumption
    <2>14. Queue!Put(internal_bufs[md_pi])
      BY <1>1, <1>2, <2>12, <2>13 DEF Queue!Put
    <2> QED
      BY <2>4, <2>14 DEF Queue!Next
  <1> QED
    BY <1>4, <1>5

\* The receiver is handed the oldest message it has not finished.
LEMMA DequeueDelivers ==
    ASSUME IInv, MInv, DequeueRawOp PROVE Queue!Deliver
  <1>1. /\ UNCHANGED <<md_pi, modem_ci, internal_bufs, bd_m>> /\ ProducerCi' = ProducerCi
        /\ held' = internal_bufs[bd_m[modem_ci]]
        /\ held = NoMsg /\ modem_ci # md_pi
    BY DEF DequeueRawOp, hostVars, ProducerCi, MInv, is_bd_ring_empty
  <1>2. QueueDone \in Nat /\ QueueDone < Dist(ProducerCi, md_pi)
    BY <1>1, Bounds, DistInjective DEF QueueDone
  <1>3. MessageAt(QueueDone) = internal_bufs[bd_m[modem_ci]]
    BY Bounds, SlotAtDist DEF MessageAt, QueueDone, IInv
  <1>4. QueueSlots[QueueDone + 1] = MessageAt(QueueDone)
    <2>1. QueueDone + 1 \in 1 .. Dist(ProducerCi, md_pi) /\ (QueueDone + 1) - 1 = QueueDone
      BY <1>2, Bounds
    <2> QED
      BY <2>1 DEF QueueSlots
  <1>5. Len(QueueSlots) = Dist(ProducerCi, md_pi)
    BY QueueSlotsType DEF IInv
  <1>6. QueueSlots' = QueueSlots
    BY <1>1, QueueSlotsStay DEF IInv
  <1>7. QueueDone' = QueueDone
    BY <1>1 DEF QueueDone, Dist
  <1> QED
    BY <1>1, <1>2, <1>3, <1>4, <1>5, <1>6, <1>7 DEF Queue!Deliver

\* The receiver finishes the message it holds.
LEMMA ConsumeFinishes ==
    ASSUME IInv, ConsumeRawOp PROVE Queue!Finish
  <1>1. /\ UNCHANGED <<md_pi, internal_bufs, bd_m>> /\ ProducerCi' = ProducerCi
        /\ modem_ci' = Succ(modem_ci) /\ held' = NoMsg /\ rx_pc = "work"
    BY DEF ConsumeRawOp, hostVars, ProducerCi
  <1>2. Written(modem_ci)
    BY <1>1, HeldIsWritten
  <1>3. held # NoMsg
    BY <1>1, <1>2, Bounds, NoMsgAssumption DEF IInv, Contents
  <1>4. Dist(ProducerCi, Succ(modem_ci)) = Dist(ProducerCi, modem_ci) + 1
    BY <1>2, Bounds, RoomToStep DEF Written
  <1>5. QueueDone' = QueueDone + 1
    BY <1>1, <1>4 DEF QueueDone, Dist
  <1>6. QueueSlots' = QueueSlots
    BY <1>1, QueueSlotsStay DEF IInv
  <1> QED
    BY <1>1, <1>3, <1>5, <1>6 DEF Queue!Finish

\* Picking up a confirmation gives the oldest slot back to the sender.
LEMMA ConfirmationFrees ==
    ASSUME IInv, DequeueConfirmation PROVE Queue!Free
  <1>1. /\ UNCHANGED <<md_pi, modem_ci, internal_bufs, bd_m, held>>
        /\ ProducerCi' = Succ(ProducerCi) /\ ProducerCi # hp_ci
    BY DEF DequeueConfirmation, modemVars, ProducerCi
  <1>2. 0 < Dist(ProducerCi, modem_ci)
    BY <1>1, Bounds, DistType
  <1> QED
    BY <1>1, <1>2, FreeStep

\* Publishing the modem's index gives the slot back when no confirmation is due.
LEMMA PublishCiFrees ==
    ASSUME IInv, PublishCi PROVE Queue!Free \/ UNCHANGED Queue!vars
  <1>1. /\ UNCHANGED <<md_pi, modem_ci, internal_bufs, bd_m, held>>
        /\ ProducerCi' = IF conf_enable THEN ProducerCi ELSE modem_ci
        /\ modem_ci = Succ(hp_ci)
        /\ ~ conf_enable => ProducerCi = hp_ci
    BY DEF PublishCi, hostVars, ProducerCi, IInv, Control
  <1>2. CASE ProducerCi' = ProducerCi
    <2>1. QueueSlots' = QueueSlots
      BY <1>1, <1>2, QueueSlotsStay DEF IInv
    <2>2. QueueDone' = QueueDone
      BY <1>1, <1>2 DEF QueueDone, Dist
    <2> QED
      BY <1>1, <2>1, <2>2 DEF Queue!vars
  <1>3. CASE ProducerCi' # ProducerCi
    <2>1. ProducerCi' = Succ(ProducerCi) /\ ProducerCi # modem_ci
      BY <1>1, <1>3
    <2>2. 0 < Dist(ProducerCi, modem_ci)
      BY <2>1, Bounds, DistType
    <2> QED
      BY <1>1, <2>1, <2>2, FreeStep
  <1> QED
    BY <1>2, <1>3

LEMMA InitMaps == Init => Queue!Init
  <1> SUFFICES ASSUME Init PROVE Queue!Init
    OBVIOUS
  <1>1. IInv
    BY InitInv
  <1>2. Dist(ProducerCi, md_pi) = 0 /\ QueueDone = 0
    BY DEF Init, ProducerCi, Dist, QueueDone
  <1>3. QueueSlots = << >>
    BY <1>2 DEF QueueSlots
  <1> QED
    BY <1>2, <1>3 DEF Init, Queue!Init

LEMMA StepMaps ==
    ASSUME IInv, MInv, [Next]_vars PROVE [Queue!Next]_(Queue!vars)
  <1>1. CASE GetBuf
    BY <1>1, WriteBufferStutters DEF GetBuf, modemVars
  <1>2. ASSUME NEW m \in Msg, FillBuf(m) PROVE [Queue!Next]_(Queue!vars)
    <2>1. tx_buf = host_pi
      BY <1>2 DEF FillBuf, IInv, Control
    <2> QED
      BY <1>2, <2>1, WriteBufferStutters DEF FillBuf, modemVars
  <1>3. CASE GiveUp
    <2>1. /\ UNCHANGED <<md_pi, modem_ci, internal_bufs, bd_m, held>>
          /\ ProducerCi' = ProducerCi
      BY <1>3 DEF GiveUp, modemVars, ProducerCi
    <2>2. QueueSlots' = QueueSlots /\ QueueDone' = QueueDone
      BY <2>1, QueueSlotsStay DEF IInv, QueueDone, Dist
    <2> QED
      BY <2>1, <2>2 DEF Queue!vars
  <1>4. CASE EnqueueRawOp
    <2>1. /\ UNCHANGED <<md_pi, modem_ci, internal_bufs, held>> /\ ProducerCi' = ProducerCi
          /\ bd_m' = [bd_m EXCEPT ![host_pi] = tx_buf]
      BY <1>4 DEF EnqueueRawOp, modemVars, ProducerCi
    <2>2. \A i \in Slot : Dist(ProducerCi, i) < Dist(ProducerCi, md_pi) => bd_m'[i] = bd_m[i]
      BY <2>1, Bounds DEF IInv, TypeOK
    <2>3. QueueSlots' = QueueSlots
      BY <2>1, <2>2, QueueSlotsStay DEF IInv
    <2>4. QueueDone' = QueueDone
      BY <2>1 DEF QueueDone, Dist
    <2> QED
      BY <2>1, <2>3, <2>4 DEF Queue!vars
  <1>5. CASE PublishPi
    BY <1>5, PublishPiPuts
  <1>6. CASE DequeueConfirmation
    BY <1>6, ConfirmationFrees DEF Queue!Next
  <1>7. CASE DequeueRawOp
    BY <1>7, DequeueDelivers DEF Queue!Next
  <1>8. CASE ConsumeRawOp
    BY <1>8, ConsumeFinishes DEF Queue!Next
  <1>9. CASE PublishCi
    BY <1>9, PublishCiFrees DEF Queue!Next
  <1>10. CASE UNCHANGED vars
    <2>1. /\ UNCHANGED <<md_pi, modem_ci, internal_bufs, bd_m, held>>
          /\ ProducerCi' = ProducerCi
      BY <1>10 DEF vars, hostVars, modemVars, ProducerCi
    <2>2. QueueSlots' = QueueSlots /\ QueueDone' = QueueDone
      BY <2>1, QueueSlotsStay DEF IInv, QueueDone, Dist
    <2> QED
      BY <2>1, <2>2 DEF Queue!vars
  <1> QED
    BY <1>1, <1>2, <1>3, <1>4, <1>5, <1>6, <1>7, <1>8, <1>9, <1>10 DEF Next, Host, Modem

-------------------------------------------------------------------------------
(* The theorem. *)

\* The safety part of the bounded queue: whatever the two drivers do, messages
\* enter the queue at its end, are handed to the firmware once each and in
\* order, and their slots come back only after it has finished with them; at
\* most Depth - 1 are outstanding.  (enqueue_raw_op and dequeue_raw_op in
\* bbdev_la93xx.c, bbdev_ipc_dequeue_raw_op and bbdev_ipc_consume_raw_op.)
THEOREM Refinement == Spec => Queue!Init /\ [][Queue!Next]_(Queue!vars)
  <1>1. Init => IInv /\ MInv /\ Queue!Init
    BY InitInv, InitMInv, InitMaps
  <1>2. IInv /\ MInv /\ [Next]_vars => IInv' /\ MInv' /\ [Queue!Next]_(Queue!vars)
    BY NextInv, NextMInv, StepMaps
  <1> QED
    BY <1>1, <1>2, PTL DEF Spec
===============================================================================
