-------------------------- MODULE FrameScheduleProofs --------------------------
(***************************************************************************)
(* Safety of the VSPA's messages to the CM4, for queues of any length:     *)
(* the millisecond ticks are all counted (VspaReplies), also in the        *)
(* composition with a followed cell (FrameSchedule), whose steps are steps *)
(* of VspaReplies or leave it alone; vMibLoop reads the VSPA's output      *)
(* early only when another reply has crossed its own; and the clock it     *)
(* sets is the cell's, for frames and cycles of any length.                *)
(***************************************************************************)
EXTENDS FrameSchedule, ArithmeticLemmas, FiniteSetTheorems, SequenceTheorems, TLAPS

\* How many elements of a queue are of a kind.
Places(q, K) == {i \in 1 .. Len(q) : q[i] \in K}
Count(q, K) == Cardinality(Places(q, K))

LEMMA CountType ==
    ASSUME NEW S, NEW q \in Seq(S), NEW K
    PROVE  IsFiniteSet(Places(q, K)) /\ Count(q, K) \in Nat
  <1>1. IsFiniteSet(Places(q, K))
    <2>1. Len(q) \in Nat
      BY LenProperties
    <2>2. IsFiniteSet(1 .. Len(q)) /\ Places(q, K) \in SUBSET (1 .. Len(q))
      BY <2>1, FS_Interval DEF Places
    <2> QED
      BY <2>2, FS_Subset
  <1> QED
    BY <1>1, FS_CardinalityType DEF Count

LEMMA CountNone ==
    ASSUME NEW S, NEW q \in Seq(S), NEW K
    PROVE  Count(q, K) = 0 <=> \A i \in 1 .. Len(q) : q[i] \notin K
  <1>1. Count(q, K) = 0 <=> Places(q, K) = {}
    BY CountType, FS_EmptySet DEF Count
  <1>2. Places(q, K) = {} <=> \A i \in 1 .. Len(q) : q[i] \notin K
    BY DEF Places
  <1> QED
    BY <1>1, <1>2

LEMMA CountEmpty ==
    ASSUME NEW K PROVE Count(<<>>, K) = 0
  <1>1. Places(<<>>, K) = {}
    BY DEF Places
  <1> QED
    BY <1>1, FS_EmptySet DEF Count

LEMMA CountAppend ==
    ASSUME NEW S, NEW q \in Seq(S), NEW m \in S, NEW K
    PROVE  Count(Append(q, m), K) = Count(q, K) + (IF m \in K THEN 1 ELSE 0)
  <1> DEFINE p == Append(q, m)
             n == Len(q) + 1
  <1>1. /\ Len(q) \in Nat /\ Len(p) = n /\ p[n] = m
        /\ \A i \in 1 .. Len(q) : p[i] = q[i]
    BY AppendProperties, LenProperties
  <1>2. n \notin Places(q, K)
    BY <1>1 DEF Places
  <1>3. CASE m \in K
    <2>1. Places(p, K) = Places(q, K) \cup {n}
      BY <1>1, <1>3 DEF Places
    <2> QED
      BY <1>2, <1>3, <2>1, CountType, FS_AddElement DEF Count
  <1>4. CASE m \notin K
    <2>1. Places(p, K) = Places(q, K)
      BY <1>1, <1>4 DEF Places
    <2> QED
      BY <1>4, <2>1, CountType DEF Count
  <1> QED
    BY <1>3, <1>4

LEMMA CountTail ==
    ASSUME NEW S, NEW q \in Seq(S), q # <<>>, NEW K
    PROVE  Count(Tail(q), K) = Count(q, K) - (IF Head(q) \in K THEN 1 ELSE 0)
  <1> DEFINE t == Tail(q)
             Later == Places(q, K) \ {1}
             f == [i \in Places(t, K) |-> i + 1]
  <1>1. /\ t \in Seq(S) /\ Len(q) \in Nat /\ Len(q) > 0 /\ Len(t) = Len(q) - 1
        /\ Head(q) = q[1]
        /\ \A i \in 1 .. Len(t) : t[i] = q[i + 1]
    BY HeadTailProperties, LenProperties, EmptySeq
  <1>2. f \in Bijection(Places(t, K), Later)
    <2>1. f \in [Places(t, K) -> Later]
      BY <1>1 DEF Places
    <2>2. \A a, b \in Places(t, K) : f[a] = f[b] => a = b
      BY DEF Places
    <2>3. \A j \in Later : \E i \in Places(t, K) : f[i] = j
      <3> SUFFICES ASSUME NEW j \in Later PROVE \E i \in Places(t, K) : f[i] = j
        OBVIOUS
      <3>1. j - 1 \in Places(t, K) /\ (j - 1) + 1 = j
        BY <1>1 DEF Places
      <3>2. f[j - 1] = j
        BY <3>1
      <3> QED
        BY <3>1, <3>2
    <2> HIDE DEF f, Later
    <2> QED
      BY <2>1, <2>2, <2>3 DEF Bijection, Injection, Surjection, IsInjective
  <1>3. Cardinality(Later) = Count(t, K)
    <2>1. IsFiniteSet(Places(t, K))
      BY <1>1, CountType
    <2>2. ExistsBijection(Places(t, K), Later)
      BY <1>2 DEF ExistsBijection
    <2> QED
      BY <2>1, <2>2, FS_Bijection DEF Count
  <1>4. 1 \in Places(q, K) <=> Head(q) \in K
    BY <1>1 DEF Places
  <1>5. Cardinality(Later) = IF Head(q) \in K THEN Count(q, K) - 1 ELSE Count(q, K)
    <2>1. IsFiniteSet(Places(q, K))
      BY CountType
    <2> QED
      BY <1>4, <2>1, FS_RemoveElement DEF Count
  <1>6. Count(q, K) \in Nat
    BY CountType
  <1> QED
    BY <1>3, <1>5, <1>6

-------------------------------------------------------------------------------
(* The queue of mailbox 0. *)

Opcodes == {"MS_START", "MS_IND"}

\* vSchedularLoop leaves an empty queue behind when it blocks, and vRxLoop runs
\* only then.  A message that comes in for vRficCoreTask leaves it blocked, but
\* then vRficCoreTask, of a higher priority than both, takes it first.
Receivers ==
    /\ sched = "blocked" =>
          \/ VspaToCm4QMbox0 = <<>>
          \/ core = "receive" /\ Len(VspaToCm4QMbox0) = 1
    /\ core = "blocked" => VspaToCm4QMbox0 = <<>>

IInv == TypeOK /\ TicksCounted /\ Receivers

Ticks(q) == Count(q, {"MS_IND"})

LEMMA TicksCountedAs ==
    TicksCounted <=> tti + ind_lost + ind_taken + Ticks(VspaToCm4QMbox0) = ind_sent
  BY DEF TicksCounted, Ticks, Count, Places

LEMMA InitInv == Init => IInv
  <1> SUFFICES ASSUME Init PROVE IInv
    OBVIOUS
  <1>1. <<>> \in Seq(Opcodes) /\ Len(<<>>) = 0
    OBVIOUS
  <1>2. Ticks(<<>>) = 0
    BY CountEmpty DEF Ticks
  <1>3. TypeOK
    BY <1>1, QLenAssumption, MaxIndAssumption DEF Init, TypeOK, Opcodes
  <1> QED
    BY <1>2, <1>3, TicksCountedAs DEF Init, IInv, Receivers

LEMMA ArriveTypes ==
    ASSUME IInv, NEW msg \in Opcodes, Arrive(msg), Wake
    PROVE  /\ VspaToCm4QMbox0' \in Seq(Opcodes) /\ Len(VspaToCm4QMbox0)' <= QLen
           /\ Ticks(VspaToCm4QMbox0)' = Ticks(VspaToCm4QMbox0)
                 + (IF msg = "MS_IND" /\ Len(VspaToCm4QMbox0) < QLen THEN 1 ELSE 0)
           /\ Receivers'
           /\ core' \in {"idle", "receive", "blocked"} /\ sched' \in {"blocked", "ready", "send", "mutex"}
           /\ rx' \in {"idle", "sending", "receive", "blocked"} /\ (sched' = "mutex" => rx' = "sending")
  <1>1. /\ VspaToCm4QMbox0 \in Seq(Opcodes) /\ Len(VspaToCm4QMbox0) <= QLen
        /\ Len(VspaToCm4QMbox0) \in Nat
    BY LenProperties DEF IInv, TypeOK, Opcodes
  <1>2. /\ core' \in {"idle", "receive", "blocked"} /\ sched' \in {"blocked", "ready", "send", "mutex"}
        /\ rx' \in {"idle", "sending", "receive", "blocked"} /\ (sched' = "mutex" => rx' = "sending")
        /\ IF core = "blocked" THEN core' = "receive" ELSE core' = core /\ sched' # "blocked"
    BY DEF Wake, IInv, TypeOK
  <1>3. Ticks(VspaToCm4QMbox0) \in Nat
    BY <1>1, CountType DEF Ticks
  <1>4. core = "blocked" => VspaToCm4QMbox0 = <<>> /\ Len(VspaToCm4QMbox0) = 0
    BY EmptySeq DEF IInv, Receivers
  <1>5. CASE Len(VspaToCm4QMbox0) < QLen
    <2>1. VspaToCm4QMbox0' = Append(VspaToCm4QMbox0, msg)
      BY <1>5 DEF Arrive
    <2>2. VspaToCm4QMbox0' \in Seq(Opcodes) /\ Len(VspaToCm4QMbox0)' = Len(VspaToCm4QMbox0) + 1
      BY <1>1, <2>1, AppendProperties
    <2>3. Ticks(VspaToCm4QMbox0)' = Ticks(VspaToCm4QMbox0) + (IF msg = "MS_IND" THEN 1 ELSE 0)
      BY <1>1, <2>1, CountAppend DEF Ticks
    <2>4. Receivers'
      BY <1>2, <1>4, <2>2 DEF Receivers
    <2> QED
      BY <1>1, <1>2, <1>5, <2>2, <2>3, <2>4, QLenAssumption
  <1>6. CASE ~ (Len(VspaToCm4QMbox0) < QLen)
    <2>1. VspaToCm4QMbox0' = VspaToCm4QMbox0
      BY <1>6 DEF Arrive
    <2>2. core # "blocked"
      BY <1>4, <1>6, QLenAssumption
    <2>3. Receivers'
      BY <1>2, <2>2 DEF Receivers
    <2> QED
      BY <1>1, <1>2, <1>3, <1>6, <2>1, <2>3
  <1> QED
    BY <1>5, <1>6

LEMMA NextInv ==
    ASSUME IInv, [Next]_vars PROVE IInv'
  <1>0. /\ VspaToCm4QMbox0 \in Seq(Opcodes) /\ Len(VspaToCm4QMbox0) \in Nat
        /\ ind_sent \in Nat /\ ind_lost \in Nat /\ tti \in Nat /\ ind_taken \in Nat
        /\ Ticks(VspaToCm4QMbox0) \in Nat
        /\ tti + ind_lost + ind_taken + Ticks(VspaToCm4QMbox0) = ind_sent
    BY LenProperties, CountType, TicksCountedAs, MaxIndAssumption DEF IInv, TypeOK, Opcodes, Ticks
  <1>1. CASE MsInd
    <2>1. Arrive("MS_IND") /\ Wake /\ "MS_IND" \in Opcodes
      BY <1>1 DEF MsInd, Opcodes
    <2>2. /\ VspaToCm4QMbox0' \in Seq(Opcodes) /\ Len(VspaToCm4QMbox0)' <= QLen
          /\ Ticks(VspaToCm4QMbox0)' = Ticks(VspaToCm4QMbox0)
                + (IF Len(VspaToCm4QMbox0) < QLen THEN 1 ELSE 0)
          /\ Receivers'
          /\ core' \in {"idle", "receive", "blocked"} /\ sched' \in {"blocked", "ready", "send", "mutex"}
          /\ rx' \in {"idle", "sending", "receive", "blocked"} /\ (sched' = "mutex" => rx' = "sending")
      BY <2>1, ArriveTypes
    <2>3. /\ ind_sent' = ind_sent + 1 /\ ind_sent < MaxInd /\ UNCHANGED <<tti, ind_taken>>
          /\ ind_lost' = IF Len(VspaToCm4QMbox0) < QLen THEN ind_lost ELSE ind_lost + 1
      BY <1>1 DEF MsInd
    <2>4. (tti + ind_lost + ind_taken + Ticks(VspaToCm4QMbox0) = ind_sent)'
      BY <1>0, <2>2, <2>3
    <2>5. {ind_sent, ind_lost, tti, ind_taken}' \subseteq 0 .. MaxInd
      BY <1>0, <2>3, <2>4, <2>2, MaxIndAssumption DEF IInv, TypeOK
    <2>6. TypeOK'
      BY <2>2, <2>5 DEF TypeOK, Opcodes
    <2> QED
      BY <2>2, <2>4, <2>6, TicksCountedAs DEF IInv, TicksCounted, Ticks, Count, Places
  <1>2. CASE MsStart
    <2>1. Arrive("MS_START") /\ Wake /\ "MS_START" \in Opcodes
      BY <1>2 DEF MsStart, Opcodes
    <2>2. /\ VspaToCm4QMbox0' \in Seq(Opcodes) /\ Len(VspaToCm4QMbox0)' <= QLen
          /\ Ticks(VspaToCm4QMbox0)' = Ticks(VspaToCm4QMbox0)
          /\ Receivers'
          /\ core' \in {"idle", "receive", "blocked"} /\ sched' \in {"blocked", "ready", "send", "mutex"}
          /\ rx' \in {"idle", "sending", "receive", "blocked"} /\ (sched' = "mutex" => rx' = "sending")
      BY <1>0, <2>1, ArriveTypes
    <2>3. UNCHANGED <<ind_sent, ind_lost, tti, ind_taken>>
      BY <1>2 DEF MsStart
    <2>4. TypeOK'
      BY <2>2, <2>3 DEF TypeOK, Opcodes, IInv
    <2>5. (tti + ind_lost + ind_taken + Ticks(VspaToCm4QMbox0) = ind_sent)'
      BY <1>0, <2>2, <2>3
    <2> QED
      BY <2>2, <2>4, <2>5 DEF IInv, TicksCounted, Ticks, Count, Places
  <1>3. ASSUME NEW sends \in BOOLEAN, SchedReceive(sends) PROVE IInv'
    <2>1. /\ VspaToCm4QMbox0 # <<>> /\ VspaToCm4QMbox0' = Tail(VspaToCm4QMbox0)
          /\ tti' = IF Head(VspaToCm4QMbox0) = "MS_IND" THEN tti + 1 ELSE tti
          /\ sched' \in {"send", "ready"}
          /\ UNCHANGED <<core, rx, ind_sent, ind_lost, ind_taken>>
      BY <1>3 DEF SchedReceive
    <2>2. VspaToCm4QMbox0' \in Seq(Opcodes) /\ Len(VspaToCm4QMbox0)' = Len(VspaToCm4QMbox0) - 1
      BY <1>0, <2>1, HeadTailProperties
    <2>3. /\ Ticks(VspaToCm4QMbox0)' = Ticks(VspaToCm4QMbox0)
                - (IF Head(VspaToCm4QMbox0) = "MS_IND" THEN 1 ELSE 0)
          /\ Ticks(VspaToCm4QMbox0)' \in Nat
      BY <1>0, <2>1, <2>2, CountTail, CountType DEF Ticks
    <2>4. (tti + ind_lost + ind_taken + Ticks(VspaToCm4QMbox0) = ind_sent)'
      BY <1>0, <2>1, <2>3
    <2>5. tti' \in 0 .. MaxInd
      BY <1>0, <2>1, <2>3, <2>4, MaxIndAssumption DEF IInv, TypeOK
    <2>6. TypeOK'
      BY <1>0, <2>1, <2>2, <2>5, QLenAssumption DEF TypeOK, Opcodes, IInv
    <2>7. Receivers'
      BY <2>1 DEF IInv, Receivers
    <2> QED
      BY <2>4, <2>6, <2>7 DEF IInv, TicksCounted, Ticks, Count, Places
  <1>4. CASE SchedBlock
    BY <1>4 DEF SchedBlock, IInv, Receivers, TypeOK, TicksCounted
  <1>5. CASE SchedSend
    BY <1>5 DEF SchedSend, IInv, Receivers, TypeOK, TicksCounted
  <1>6. CASE CoreAsk \/ CoreGivesUp
    BY <1>6 DEF CoreAsk, CoreGivesUp, IInv, Receivers, TypeOK, TicksCounted
  <1>7. CASE CoreReceive /\ VspaToCm4QMbox0 = <<>>
    BY <1>7 DEF CoreReceive, IInv, Receivers, TypeOK, TicksCounted
  <1>8. CASE CoreReceive /\ VspaToCm4QMbox0 # <<>>
    <2>1. /\ VspaToCm4QMbox0' = Tail(VspaToCm4QMbox0) /\ core' = "idle"
          /\ ind_taken' = IF Head(VspaToCm4QMbox0) = "MS_IND" THEN ind_taken + 1 ELSE ind_taken
          /\ UNCHANGED <<sched, rx, ind_sent, ind_lost, tti>>
      BY <1>8 DEF CoreReceive
    <2>2. VspaToCm4QMbox0' \in Seq(Opcodes) /\ Len(VspaToCm4QMbox0)' = Len(VspaToCm4QMbox0) - 1
      BY <1>0, <1>8, <2>1, HeadTailProperties
    <2>3. /\ Ticks(VspaToCm4QMbox0)' = Ticks(VspaToCm4QMbox0)
                - (IF Head(VspaToCm4QMbox0) = "MS_IND" THEN 1 ELSE 0)
          /\ Ticks(VspaToCm4QMbox0)' \in Nat
      BY <1>0, <1>8, <2>1, <2>2, CountTail, CountType DEF Ticks
    <2>4. (tti + ind_lost + ind_taken + Ticks(VspaToCm4QMbox0) = ind_sent)'
      BY <1>0, <2>1, <2>3
    <2>5. ind_taken' \in 0 .. MaxInd
      BY <1>0, <2>1, <2>3, <2>4, MaxIndAssumption DEF IInv, TypeOK
    <2>6. TypeOK'
      BY <1>0, <2>1, <2>2, <2>5, QLenAssumption DEF TypeOK, Opcodes, IInv
    <2>7. Receivers'
      <3>1. sched = "blocked" => Len(VspaToCm4QMbox0) = 1
        BY <1>8 DEF IInv, Receivers
      <3>2. Len(VspaToCm4QMbox0)' = 0 => VspaToCm4QMbox0' = <<>>
        BY <2>2, EmptySeq
      <3> QED
        BY <2>1, <2>2, <3>1, <3>2 DEF Receivers
    <2> QED
      BY <2>4, <2>6, <2>7 DEF IInv, TicksCounted, Ticks, Count, Places
  <1>9. CASE RxSend \/ RxTimeout
    BY <1>9 DEF RxSend, RxTimeout, RxMayRun, IInv, Receivers, TypeOK, TicksCounted
  <1>10. CASE RxSent
    BY <1>10 DEF RxSent, RxMayRun, IInv, Receivers, TypeOK, TicksCounted
  <1>11. CASE RxReceive
    \* Whenever it runs the queue is empty.
    <2>1. VspaToCm4QMbox0 = <<>>
      BY <1>11 DEF RxReceive, RxMayRun, CoreWaits, IInv, Receivers, TypeOK
    <2> QED
      BY <1>11, <2>1 DEF RxReceive, RxMayRun, IInv, Receivers, TypeOK, TicksCounted
  <1>12. CASE UNCHANGED vars
    BY <1>12 DEF vars, IInv, Receivers, TypeOK, TicksCounted
  <1> QED
    BY <1>1, <1>2, <1>3, <1>4, <1>5, <1>6, <1>7, <1>8, <1>9, <1>10, <1>11, <1>12 DEF Next

LEMMA Inductive == Spec => []IInv
  BY InitInv, NextInv, PTL DEF Spec

\* The queue, the three tasks and the counters keep their types.
THEOREM TypeCorrect == Spec => []TypeOK
  <1>1. IInv => TypeOK
    BY DEF IInv
  <1> QED
    BY <1>1, Inductive, PTL

\* A followed cell uses the queue of mailbox 0 as VspaReplies says: each of its
\* steps is a step of that or leaves it as it is.
THEOREM FrameRefines == FrameSpec => Spec
  <1>1. FrameInit => Init
    BY DEF FrameInit
  <1>2. ASSUME [FrameNext]_<<vars, frameVars>> PROVE [Next]_vars
    <2>1. CASE Fire \/ Vspa
      BY <2>1 DEF Fire, Vspa, VspaTick, VspaRead, VspaScan, Next
    <2>2. CASE SchedTick
      <3>1. PICK sends \in BOOLEAN : SchedReceive(sends)
        BY <2>2 DEF SchedTick
      <3> QED
        BY <3>1 DEF Next
    <2>3. CASE SchedOther \/ SchedCommand \/ SchedBlock
      BY <2>3 DEF SchedOther, SchedCommand, Next
    <2>4. CASE vVSPALoop
      BY <2>4 DEF vVSPALoop, prvDoTrackingUpdate, prvDoCellFollowMIB, OtherReply, NextReply
    <2>5. CASE vMibLoop
      BY <2>5 DEF vMibLoop, MibUnlock, MibSearch, MibEstimate, MibInterpolate, MibEqualize,
                  MibDecode, MibCorrect, MibReply, MibCommand, MibStep
    <2>6. CASE RxCommand \/ RxFollow \/ RxFollowStop
      BY <2>6 DEF RxCommand, RxFollow, RxFollowStop, Next
    <2>7. CASE vRficCoreTask
      BY <2>7 DEF vRficCoreTask, CoreCommand, CoreAnswer, Next
    <2>8. CASE UNCHANGED <<vars, frameVars>>
      BY <2>8
    <2> QED
      BY <1>2, <2>1, <2>2, <2>3, <2>4, <2>5, <2>6, <2>7, <2>8 DEF FrameNext, vSchedularLoop
  <1> QED
    BY <1>1, <1>2, PTL DEF FrameSpec, Spec

\* Every indication that found room is counted, waits in the queue or was taken by
\* vRficCoreTask for the answer to a radio command, whatever the tasks of a followed
\* cell do: none is taken for the ACK of a command of vRxLoop.
THEOREM EveryTickCounted == FrameSpec => []TicksCounted
  <1>1. IInv => TicksCounted
    BY DEF IInv
  <1> QED
    BY <1>1, FrameRefines, Inductive, PTL

-------------------------------------------------------------------------------
(* The replies that vMibLoop waits for. *)

Reply == ({"SCAN", "SSB", "MIB"} \X BOOLEAN) \cup {<<"PBCH", TRUE>>}
PbchReply == {<<"PBCH", TRUE>>}

\* The places of vMibLoop at which the VSPA works for it.
Decoding == {"interpolate"} \cup Pbch

QueueTypes ==
    /\ to_vspa \in Seq(VspaCommand) /\ VspaToCm4QMbox1 \in Seq(Reply)
    /\ command \in VspaCommand \ Pbch
    /\ op_mode \in {"NO_CMD"} \cup (VspaCommand \ Pbch)
    /\ xSemVSPABusy \in BOOLEAN /\ crossed \in BOOLEAN /\ stale \in BOOLEAN

PbchCommands == Count(to_vspa, Pbch)
PbchReplies == Count(VspaToCm4QMbox1, PbchReply)

\* While no other reply comes in, the one command of vMibLoop is with the VSPA,
\* its reply is on its way, or the semaphore has been given for it: only one of
\* these, so that the semaphore cannot be taken while the command is unanswered.
OneAtATime ==
    mib_pc \in Decoding /\ ~ crossed =>
        PbchCommands + PbchReplies + (IF xSemVSPABusy THEN 1 ELSE 0) <= 1

OutInv == QueueTypes /\ OneAtATime /\ OutputReady

LEMMA Counts ==
    ASSUME QueueTypes
    PROVE  /\ PbchCommands \in Nat /\ PbchReplies \in Nat
           /\ Unanswered <=> PbchCommands # 0
           /\ <<"PBCH", TRUE>> \in Range(VspaToCm4QMbox1) <=> PbchReplies # 0
  <1>1. PbchCommands \in Nat /\ PbchReplies \in Nat
    BY CountType DEF QueueTypes, PbchCommands, PbchReplies
  <1>2. DOMAIN to_vspa = 1 .. Len(to_vspa) /\ DOMAIN VspaToCm4QMbox1 = 1 .. Len(VspaToCm4QMbox1)
    BY LenProperties DEF QueueTypes
  <1>3. PbchCommands = 0 <=> \A i \in 1 .. Len(to_vspa) : to_vspa[i] \notin Pbch
    BY CountNone DEF QueueTypes, PbchCommands
  <1>4. PbchReplies = 0 <=> \A i \in 1 .. Len(VspaToCm4QMbox1) : VspaToCm4QMbox1[i] \notin PbchReply
    BY CountNone DEF QueueTypes, PbchReplies
  <1> QED
    BY <1>1, <1>2, <1>3, <1>4 DEF Unanswered, Range, PbchReply

\* Where the semaphore is taken, the command before has been answered.
LEMMA TakenIsAnswered ==
    ASSUME OutInv, xSemVSPABusy, mib_pc \in Decoding, Unanswered PROVE crossed
  BY Counts DEF OutInv, OneAtATime, QueueTypes

LEMMA OutInit == FrameInit => OutInv
  <1> SUFFICES ASSUME FrameInit PROVE OutInv
    OBVIOUS
  <1>1. <<>> \in Seq(VspaCommand) /\ <<>> \in Seq(Reply)
    OBVIOUS
  <1> QED
    BY <1>1 DEF FrameInit, OutInv, QueueTypes, OneAtATime, OutputReady, VspaCommand, Pbch, Decoding

\* A step that moves no PBCH command, reply or semaphore leaves the invariant.
LEMMA OutSame ==
    ASSUME OutInv, QueueTypes', PbchCommands' + PbchReplies' = PbchCommands + PbchReplies,
           UNCHANGED <<xSemVSPABusy, mib_pc, crossed, stale>>
    PROVE  OutInv'
  BY DEF OutInv, OneAtATime, OutputReady

\* A command that is not for the PBCH is put into the mailbox.
LEMMA SendOther ==
    ASSUME NEW q \in Seq(VspaCommand), NEW c \in VspaCommand \ Pbch
    PROVE  /\ Append(q, c) \in Seq(VspaCommand) /\ q \o <<c>> = Append(q, c)
           /\ Count(Append(q, c), Pbch) = Count(q, Pbch)
  BY AppendProperties, AppendIsConcat, CountAppend, CountType

LEMMA ReplyCount ==
    ASSUME QueueTypes, NEW kind, NEW found, <<kind, found>> \in Reply, VspaReply(kind, found)
    PROVE  /\ VspaToCm4QMbox1' \in Seq(Reply)
           /\ PbchReplies' = PbchReplies + (IF kind = "PBCH" THEN 1 ELSE 0)
  <1>1. VspaToCm4QMbox1 \in Seq(Reply) /\ VspaToCm4QMbox1' = Append(VspaToCm4QMbox1, <<kind, found>>)
    BY DEF QueueTypes, VspaReply
  <1>2. <<kind, found>> \in PbchReply <=> kind = "PBCH"
    BY DEF Reply, PbchReply
  <1> QED
    BY <1>1, <1>2, AppendProperties, CountAppend DEF PbchReplies

\* A command leaves the mailbox when it is read, and for one of the PBCH a reply
\* is in the other in the same iteration.
LEMMA ExecuteCount ==
    ASSUME QueueTypes, NEW op \in {"NO_CMD"} \cup VspaCommand, NEW tick \in BOOLEAN, Execute(op, tick)
    PROVE  /\ VspaToCm4QMbox1' \in Seq(Reply) /\ op_mode' \in {"NO_CMD"} \cup (VspaCommand \ Pbch)
           /\ PbchReplies' = PbchReplies + (IF op \in Pbch THEN 1 ELSE 0)
  <1>0. PbchReplies \in Nat
    BY Counts
  <1>1. CASE op \in Pbch /\ VspaReply("PBCH", TRUE) /\ op_mode' = "NO_CMD"
    BY <1>1, ReplyCount DEF Reply
  <1>2. ASSUME NEW found \in BOOLEAN, op \in {"SSB", "MIB"}, VspaReply(op, found), op_mode' = "NO_CMD"
        PROVE  /\ VspaToCm4QMbox1' \in Seq(Reply) /\ op_mode' \in {"NO_CMD"} \cup (VspaCommand \ Pbch)
               /\ PbchReplies' = PbchReplies + (IF op \in Pbch THEN 1 ELSE 0)
    <2>1. <<op, found>> \in Reply /\ op # "PBCH" /\ op \notin Pbch
      BY <1>2 DEF Reply, Pbch
    <2> QED
      BY <1>0, <1>2, <2>1, ReplyCount
  <1>3. CASE op \notin Pbch /\ op_mode' = op /\ VspaToCm4QMbox1' = VspaToCm4QMbox1
    BY <1>0, <1>3 DEF QueueTypes, PbchReplies
  <1> QED
    BY <1>1, <1>2, <1>3 DEF Execute

LEMMA ReadCount ==
    ASSUME QueueTypes, to_vspa # <<>>
    PROVE  /\ Head(to_vspa) \in VspaCommand /\ Tail(to_vspa) \in Seq(VspaCommand)
           /\ Count(Tail(to_vspa), Pbch) = PbchCommands - (IF Head(to_vspa) \in Pbch THEN 1 ELSE 0)
  BY HeadTailProperties, CountTail DEF QueueTypes, PbchCommands

LEMMA VspaOut ==
    ASSUME OutInv, Vspa PROVE OutInv'
  <1>0. QueueTypes /\ PbchCommands \in Nat /\ PbchReplies \in Nat
    BY Counts DEF OutInv
  <1>1. CASE VspaTick
    <2> DEFINE reads == to_vspa # <<>> /\ Head(to_vspa) # "SCAN"
               op == IF reads THEN Head(to_vspa) ELSE op_mode
    <2>1. /\ to_vspa' = IF reads THEN Tail(to_vspa) ELSE to_vspa
          /\ Execute(op, TRUE)
          /\ UNCHANGED <<command, xSemVSPABusy, mib_pc, crossed, stale>>
      BY <1>1 DEF VspaTick, semVars, mibVars
    <2>2. op \in {"NO_CMD"} \cup VspaCommand /\ (~ reads => op \notin Pbch)
      BY <1>0, ReadCount DEF QueueTypes, Pbch
    <2>3. /\ VspaToCm4QMbox1' \in Seq(Reply) /\ op_mode' \in {"NO_CMD"} \cup (VspaCommand \ Pbch)
          /\ PbchReplies' = PbchReplies + (IF op \in Pbch THEN 1 ELSE 0)
      BY <1>0, <2>1, <2>2, ExecuteCount
    <2>4. /\ to_vspa' \in Seq(VspaCommand)
          /\ PbchCommands' = PbchCommands - (IF op \in Pbch THEN 1 ELSE 0)
      <3>1. CASE reads
        BY <1>0, <2>1, <3>1, ReadCount DEF PbchCommands
      <3>2. CASE ~ reads
        BY <1>0, <2>1, <2>2, <3>2 DEF QueueTypes, PbchCommands
      <3> QED
        BY <3>1, <3>2
    <2>5. QueueTypes'
      BY <1>0, <2>1, <2>3, <2>4 DEF QueueTypes
    <2>6. PbchCommands' + PbchReplies' = PbchCommands + PbchReplies
      BY <1>0, <2>3, <2>4
    <2> QED
      BY <2>1, <2>5, <2>6, OutSame
  <1>2. CASE VspaRead
    <2> DEFINE op == Head(to_vspa)
    <2>1. /\ to_vspa # <<>> /\ to_vspa' = Tail(to_vspa)
          /\ Execute(op, FALSE)
          /\ UNCHANGED <<command, xSemVSPABusy, mib_pc, crossed, stale>>
      BY <1>2 DEF VspaRead, semVars, mibVars
    <2>2. /\ op \in VspaCommand /\ to_vspa' \in Seq(VspaCommand)
          /\ PbchCommands' = PbchCommands - (IF op \in Pbch THEN 1 ELSE 0)
      BY <1>0, <2>1, ReadCount DEF PbchCommands
    <2>3. /\ VspaToCm4QMbox1' \in Seq(Reply) /\ op_mode' \in {"NO_CMD"} \cup (VspaCommand \ Pbch)
          /\ PbchReplies' = PbchReplies + (IF op \in Pbch THEN 1 ELSE 0)
      BY <1>0, <2>1, <2>2, ExecuteCount
    <2>4. QueueTypes'
      BY <1>0, <2>1, <2>2, <2>3 DEF QueueTypes
    <2>5. PbchCommands' + PbchReplies' = PbchCommands + PbchReplies
      BY <1>0, <2>2, <2>3
    <2> QED
      BY <2>1, <2>4, <2>5, OutSame
  <1>3. CASE VspaScan
    <2>1. /\ to_vspa # <<>> /\ Head(to_vspa) = "SCAN" /\ to_vspa' = Tail(to_vspa)
          /\ op_mode' = "NO_CMD"
          /\ UNCHANGED <<command, xSemVSPABusy, mib_pc, crossed, stale>>
      BY <1>3 DEF VspaScan, semVars, mibVars
    <2>2. PICK found \in BOOLEAN : VspaReply("SCAN", found)
      BY <1>3 DEF VspaScan
    <2>3. to_vspa' \in Seq(VspaCommand) /\ PbchCommands' = PbchCommands
      BY <1>0, <2>1, ReadCount DEF PbchCommands, Pbch
    <2>4. VspaToCm4QMbox1' \in Seq(Reply) /\ PbchReplies' = PbchReplies
      <3>1. <<"SCAN", found>> \in Reply
        BY DEF Reply
      <3>2. /\ VspaToCm4QMbox1' \in Seq(Reply)
            /\ PbchReplies' = PbchReplies + (IF "SCAN" = "PBCH" THEN 1 ELSE 0)
        BY <1>0, <2>2, <3>1, ReplyCount
      <3> QED
        BY <1>0, <3>2
    <2>5. QueueTypes'
      BY <1>0, <2>1, <2>3, <2>4 DEF QueueTypes
    <2> QED
      BY <1>0, <2>1, <2>3, <2>4, <2>5, OutSame
  <1> QED
    BY <1>1, <1>2, <1>3 DEF Vspa

\* vSchedularLoop, vRxLoop and vRficCoreTask put nothing for the PBCH into the
\* mailbox.
LEMMA CommandOut ==
    ASSUME OutInv, vSchedularLoop \/ Fire \/ RxCommand \/ RxFollow \/ RxFollowStop \/ vRficCoreTask
    PROVE  OutInv'
  <1> DEFINE None == to_vspa' = to_vspa
             Once == \E c \in VspaCommand \ Pbch : to_vspa' = Append(to_vspa, c)
             Twice == \E c, d \in VspaCommand \ Pbch : to_vspa' = Append(Append(to_vspa, c), d)
  <1>0. /\ QueueTypes /\ to_vspa \in Seq(VspaCommand) /\ command \in VspaCommand \ Pbch
        /\ "OTHER" \in VspaCommand \ Pbch /\ "SCAN" \in VspaCommand \ Pbch
    BY DEF OutInv, QueueTypes, VspaCommand, Pbch
  <1>1. UNCHANGED <<op_mode, VspaToCm4QMbox1, xSemVSPABusy, mib_pc, crossed, stale>>
    BY DEF vSchedularLoop, SchedTick, SchedOther, SchedCommand, Fire, RxCommand, RxFollow,
           RxFollowStop, vRficCoreTask, CoreCommand, CoreAnswer, frameVars, vspaVars, semVars, mibVars
  <1>2. command' \in VspaCommand \ Pbch
    <2>1. CASE SchedTick
      BY <1>0, <2>1 DEF SchedTick, VspaCommand, Pbch
    <2>2. CASE ~ SchedTick
      BY <1>0, <2>2 DEF vSchedularLoop, SchedOther, SchedCommand, Fire, RxCommand, RxFollow,
                        RxFollowStop, vRficCoreTask, CoreCommand, CoreAnswer, frameVars
    <2> QED
      BY <2>1, <2>2
  <1>3. None \/ Once \/ Twice
    <2>1. CASE SchedTick \/ SchedOther \/ UNCHANGED frameVars \/ Fire \/ RxFollowStop \/ CoreAnswer
      BY <2>1 DEF SchedTick, SchedOther, Fire, RxFollowStop, CoreAnswer, frameVars, vspaVars
    <2>2. CASE SchedCommand
      <3>1. None \/ to_vspa' = to_vspa \o <<command>>
        BY <2>2 DEF SchedCommand, Scheduled
      <3> QED
        BY <1>0, <3>1, SendOther
    <2>3. CASE RxCommand
      <3>1. \/ None
            \/ to_vspa' = Append(to_vspa, "OTHER")
            \/ to_vspa' = Append(to_vspa, "OTHER") \o <<command>>
        BY <2>3 DEF RxCommand, Scheduled
      <3>2. Append(to_vspa, "OTHER") \in Seq(VspaCommand)
        BY <1>0, SendOther
      <3>3. Append(to_vspa, "OTHER") \o <<command>> = Append(Append(to_vspa, "OTHER"), command)
        BY <1>0, <3>2, SendOther
      <3> QED
        BY <1>0, <3>1, <3>3
    <2>4. CASE RxFollow
      BY <1>0, <2>4 DEF RxFollow
    <2>5. CASE CoreCommand
      <3>1. \/ to_vspa' = Append(to_vspa, "OTHER")
            \/ to_vspa' = Append(Append(to_vspa, "OTHER"), "OTHER")
        BY <2>5 DEF CoreCommand
      <3> QED
        BY <1>0, <3>1
    <2> HIDE DEF None, Once, Twice
    <2> QED
      BY <2>1, <2>2, <2>3, <2>4, <2>5 DEF vSchedularLoop, vRficCoreTask
  <1>4. to_vspa' \in Seq(VspaCommand) /\ PbchCommands' = PbchCommands
    <2>1. CASE None
      BY <1>0, <2>1 DEF PbchCommands
    <2>2. CASE Once
      BY <1>0, <2>2, SendOther DEF PbchCommands
    <2>3. CASE Twice
      <3>1. PICK c \in VspaCommand \ Pbch, d \in VspaCommand \ Pbch : to_vspa' = Append(Append(to_vspa, c), d)
        BY <2>3
      <3>2. Append(to_vspa, c) \in Seq(VspaCommand) /\ Count(Append(to_vspa, c), Pbch) = PbchCommands
        BY <1>0, SendOther DEF PbchCommands
      <3> QED
        BY <3>1, <3>2, SendOther DEF PbchCommands
    <2> QED
      BY <1>3, <2>1, <2>2, <2>3
  <1>5. QueueTypes' /\ PbchReplies' = PbchReplies
    BY <1>0, <1>1, <1>2, <1>4 DEF QueueTypes, PbchReplies
  <1> QED
    BY <1>1, <1>4, <1>5, OutSame

\* A reply gives the semaphore; one that is not for vMibLoop crosses it.
LEMMA ReplyOut ==
    ASSUME OutInv, vVSPALoop PROVE OutInv'
  <1>1. PICK kind \in {"SCAN", "SSB", "MIB", "PBCH"} : NextReply(kind)
    BY DEF vVSPALoop, prvDoTrackingUpdate, prvDoCellFollowMIB, OtherReply
  <1>2. /\ VspaToCm4QMbox1 # <<>> /\ Head(VspaToCm4QMbox1)[1] = kind
        /\ VspaToCm4QMbox1' = Tail(VspaToCm4QMbox1)
        /\ xSemVSPABusy' = TRUE /\ crossed' = (crossed \/ kind # "PBCH")
        /\ UNCHANGED <<to_vspa, op_mode, command, mib_pc, stale>>
    BY <1>1 DEF NextReply, vspaVars, mibVars
  <1>3. QueueTypes /\ PbchCommands \in Nat /\ PbchReplies \in Nat
    BY Counts DEF OutInv
  <1>4. Head(VspaToCm4QMbox1) \in Reply /\ VspaToCm4QMbox1' \in Seq(Reply)
    BY <1>2, <1>3, HeadTailProperties DEF QueueTypes
  <1>5. PbchReplies' = PbchReplies - (IF Head(VspaToCm4QMbox1) \in PbchReply THEN 1 ELSE 0)
    BY <1>2, <1>3, CountTail DEF QueueTypes, PbchReplies
  <1>6. kind = "PBCH" => Head(VspaToCm4QMbox1) \in PbchReply
    BY <1>2, <1>4 DEF Reply, PbchReply
  <1>7. QueueTypes' /\ PbchCommands' = PbchCommands
    BY <1>2, <1>3, <1>4 DEF QueueTypes, PbchCommands
  <1>8. ASSUME mib_pc' \in Decoding, ~ crossed'
        PROVE  PbchCommands' + PbchReplies' + (IF xSemVSPABusy' THEN 1 ELSE 0) <= 1
    <2>1. kind = "PBCH" /\ ~ crossed /\ mib_pc \in Decoding
      BY <1>2, <1>3, <1>8 DEF QueueTypes
    <2>2. PbchCommands + PbchReplies <= 1
      BY <1>3, <2>1 DEF OutInv, OneAtATime
    <2>3. PbchReplies' = PbchReplies - 1
      BY <1>3, <1>5, <1>6, <2>1
    <2> QED
      BY <1>2, <1>3, <1>7, <2>2, <2>3
  <1> QED
    BY <1>2, <1>7, <1>8 DEF OutInv, OneAtATime, OutputReady, QueueTypes

LEMMA MibOut ==
    ASSUME OutInv, vMibLoop PROVE OutInv'
  <1>0. QueueTypes /\ PbchCommands \in Nat /\ PbchReplies \in Nat
    BY Counts DEF OutInv
  <1>1. UNCHANGED <<VspaToCm4QMbox1, op_mode, command>>
    BY DEF vMibLoop, MibUnlock, MibSearch, MibEstimate, MibInterpolate, MibEqualize,
           MibDecode, MibCorrect, MibReply, MibCommand, MibStep
  <1>2. PbchReplies' = PbchReplies
    BY <1>1 DEF PbchReplies
  <1>3. ASSUME NEW pc, NEW cmd \in Pbch, MibCommand(pc, cmd)
        PROVE  /\ to_vspa' \in Seq(VspaCommand) /\ PbchCommands' = PbchCommands + 1
               /\ xSemVSPABusy = TRUE /\ xSemVSPABusy' = FALSE /\ mib_pc = pc
    <2>1. to_vspa \in Seq(VspaCommand) /\ to_vspa' = Append(to_vspa, cmd) /\ cmd \in VspaCommand
      BY <1>0, <1>3 DEF MibCommand, QueueTypes, VspaCommand
    <2> QED
      BY <1>0, <1>3, <2>1, AppendProperties, CountAppend DEF MibCommand, MibStep, PbchCommands, QueueTypes
  <1>4. CASE MibUnlock \/ MibCorrect \/ MibReply
    <2>1. /\ UNCHANGED <<to_vspa, xSemVSPABusy, stale, crossed>> /\ mib_pc' \notin Decoding
      BY <1>4 DEF MibUnlock, MibCorrect, MibReply, MibStep, semVars, Decoding, Pbch
    <2> QED
      BY <1>0, <1>1, <2>1 DEF OutInv, QueueTypes, OneAtATime, OutputReady
  <1>5. CASE MibSearch
    <2>1. /\ to_vspa' \in Seq(VspaCommand) /\ PbchCommands' = PbchCommands + 1
          /\ xSemVSPABusy' = FALSE
      BY <1>3, <1>5 DEF MibSearch, Pbch
    <2>2. stale' = FALSE /\ crossed' = (PbchCommands # 0 \/ PbchReplies # 0)
      BY <1>0, <1>5, Counts DEF MibSearch
    <2>3. QueueTypes'
      BY <1>0, <1>1, <2>1, <2>2 DEF QueueTypes
    <2>4. ASSUME ~ crossed'
          PROVE  PbchCommands' + PbchReplies' + (IF xSemVSPABusy' THEN 1 ELSE 0) <= 1
      <3>1. PbchCommands = 0 /\ PbchReplies = 0
        BY <2>2, <2>4
      <3> QED
        BY <1>2, <2>1, <3>1
    <2> QED
      BY <2>2, <2>3, <2>4 DEF OutInv, OneAtATime, OutputReady
  <1>6. ASSUME NEW pc \in Decoding, NEW cmd \in Pbch, MibCommand(pc, cmd),
               stale' = (stale \/ Unanswered), crossed' = crossed
        PROVE  OutInv'
    <2>1. /\ to_vspa' \in Seq(VspaCommand) /\ PbchCommands' = PbchCommands + 1
          /\ xSemVSPABusy = TRUE /\ xSemVSPABusy' = FALSE /\ mib_pc = pc
      BY <1>3, <1>6
    <2>2. QueueTypes'
      BY <1>0, <1>1, <1>6, <2>1 DEF QueueTypes
    <2>3. OneAtATime'
      BY <1>0, <1>2, <1>6, <2>1 DEF OneAtATime, OutInv
    <2>4. OutputReady'
      BY <1>6, <2>1, TakenIsAnswered DEF OutputReady, OutInv
    <2> QED
      BY <2>2, <2>3, <2>4 DEF OutInv
  <1>7. CASE MibEstimate \/ MibEqualize
    BY <1>6, <1>7 DEF MibEstimate, MibEqualize, Decoding, Pbch
  <1>8. CASE MibInterpolate \/ MibDecode
    <2>1. /\ xSemVSPABusy /\ mib_pc \in Decoding /\ stale' = (stale \/ Unanswered)
          /\ UNCHANGED <<to_vspa, xSemVSPABusy, crossed>>
      BY <1>8 DEF MibInterpolate, MibDecode, MibStep, semVars, Decoding, Pbch
    <2>2. QueueTypes' /\ PbchCommands' = PbchCommands
      BY <1>0, <1>1, <2>1 DEF QueueTypes, PbchCommands
    <2>3. OneAtATime'
      BY <1>0, <1>2, <2>1, <2>2 DEF OneAtATime, OutInv
    <2>4. OutputReady'
      BY <2>1, TakenIsAnswered DEF OutputReady, OutInv
    <2> QED
      BY <2>2, <2>3, <2>4 DEF OutInv
  <1> QED
    BY <1>4, <1>5, <1>7, <1>8 DEF vMibLoop

LEMMA OutInductive == FrameSpec => []OutInv
  <1>1. ASSUME OutInv, [FrameNext]_<<vars, frameVars>> PROVE OutInv'
    <2>1. CASE UNCHANGED <<vars, frameVars>>
      BY <1>1, <2>1 DEF frameVars, vspaVars, semVars, mibVars, OutInv, QueueTypes, OneAtATime,
                        OutputReady, PbchCommands, PbchReplies
    <2> QED
      BY <1>1, <2>1, VspaOut, CommandOut, ReplyOut, MibOut DEF FrameNext
  <1> QED
    BY <1>1, OutInit, PTL DEF FrameSpec

\* vMibLoop reads the VSPA's output before the VSPA has answered only if a reply
\* to something else came while it decoded; with any length of the queues, any
\* frame and any number of requests.
THEOREM OutputInTime == FrameSpec => []OutputReady
  <1>1. OutInv => OutputReady
    BY DEF OutInv
  <1> QED
    BY <1>1, OutInductive, PTL

-------------------------------------------------------------------------------
(* Arithmetic of the two clocks: subframes and frames, and the whole cycle. *)

CycleTime == 0 .. Cycle - 1

\* The time one tick later, and how far a is ahead of b.
After(x) == IF x + 1 = Cycle THEN 0 ELSE x + 1
Ahead(a, b) == IF a >= b THEN a - b ELSE a - b + Cycle

\* The time that a frame and a subframe stand for.
TimeOf(sfn, sf) == sfn * SfPerFrame + sf

LEMMA CycleType == SfPerFrame \in Nat \ {0} /\ Frames \in Nat \ {0} /\ Cycle \in Nat \ {0}
  <1>1. SfPerFrame \in Nat \ {0} /\ Frames \in Nat \ {0}
    BY FramesAssumption
  <1>2. ASSUME NEW a \in Nat \ {0}, NEW b \in Nat \ {0} PROVE a * b \in Nat \ {0}
    BY SMT
  <1> QED
    BY <1>1, <1>2 DEF Cycle

LEMMA AfterIsMod ==
    ASSUME NEW x \in CycleTime
    PROVE  After(x) \in CycleTime /\ (x + 1) % Cycle = After(x)
  BY SuccessorMod, CycleType DEF After, CycleTime

LEMMA AheadType ==
    ASSUME NEW a \in CycleTime, NEW b \in CycleTime
    PROVE  /\ Ahead(a, b) \in CycleTime
           /\ Ahead(After(a), After(b)) = Ahead(a, b)
           /\ Ahead(a, b) = Ahead(a, a) <=> a = b
  BY CycleType, AfterIsMod DEF Ahead, After, CycleTime

\* Frame and subframe make a time of the cycle, and a tick moves it on.
LEMMA TimeOfType ==
    ASSUME NEW sfn \in 0 .. Frames - 1, NEW sf \in 0 .. SfPerFrame - 1
    PROVE  /\ TimeOf(sfn, sf) \in CycleTime
           /\ TimeOf(sfn, sf) + 1 = Cycle <=> sfn = Frames - 1 /\ sf = SfPerFrame - 1
  <1>1. /\ sfn * SfPerFrame \in Nat
        /\ (sfn + 1) * SfPerFrame = sfn * SfPerFrame + SfPerFrame
        /\ Frames * SfPerFrame = Cycle
        /\ sfn + 1 <= Frames => (sfn + 1) * SfPerFrame <= Frames * SfPerFrame
    BY Products, CycleType DEF Cycle
  <1>2. ASSUME sfn + 2 <= Frames PROVE (sfn + 2) * SfPerFrame <= Cycle
    BY <1>1, <1>2, Products, CycleType
  <1>3. (sfn + 2) * SfPerFrame = sfn * SfPerFrame + SfPerFrame + SfPerFrame
    BY <1>1, Products, CycleType
  <1> QED
    BY <1>1, <1>2, <1>3, CycleType DEF TimeOf, CycleTime

LEMMA TickTime ==
    ASSUME NEW sfn \in 0 .. Frames - 1, NEW sf \in 0 .. SfPerFrame - 1,
           NEW sf1, sf1 = (sf + 1) % SfPerFrame,
           NEW sfn1, sfn1 = IF sf1 = 0 THEN (sfn + 1) % Frames ELSE sfn
    PROVE  /\ sf1 \in 0 .. SfPerFrame - 1 /\ sfn1 \in 0 .. Frames - 1
           /\ TimeOf(sfn1, sf1) = After(TimeOf(sfn, sf))
  <1>1. sf1 = IF sf + 1 = SfPerFrame THEN 0 ELSE sf + 1
    BY SuccessorMod, CycleType
  <1>2. (sfn + 1) % Frames = IF sfn + 1 = Frames THEN 0 ELSE sfn + 1
    BY SuccessorMod, CycleType
  <1>3. sfn * SfPerFrame \in Nat /\ (sfn + 1) * SfPerFrame = sfn * SfPerFrame + SfPerFrame
        /\ 0 * SfPerFrame = 0
    BY Products, CycleType
  <1>4. sf1 \in 0 .. SfPerFrame - 1 /\ sfn1 \in 0 .. Frames - 1
    BY <1>1, <1>2, CycleType
  <1>5. TimeOf(sfn1, sf1) = After(TimeOf(sfn, sf))
    <2>1. CASE sf + 1 # SfPerFrame
      <3>1. sf1 = sf + 1 /\ sfn1 = sfn
        BY <1>1, <2>1, CycleType
      <3>2. TimeOf(sfn1, sf1) = TimeOf(sfn, sf) + 1
        BY <1>3, <3>1, CycleType DEF TimeOf
      <3>3. sf # SfPerFrame - 1
        BY <2>1, CycleType
      <3> QED
        BY <3>2, <3>3, TimeOfType DEF After
    <2>2. CASE sf + 1 = SfPerFrame /\ sfn + 1 # Frames
      <3>1. sf1 = 0 /\ sfn1 = sfn + 1
        BY <1>1, <1>2, <2>2
      <3>2. TimeOf(sfn1, sf1) = TimeOf(sfn, sf) + 1
        BY <1>3, <2>2, <3>1, CycleType DEF TimeOf
      <3>3. sfn # Frames - 1
        BY <2>2, CycleType
      <3> QED
        BY <3>2, <3>3, TimeOfType DEF After
    <2>3. CASE sf + 1 = SfPerFrame /\ sfn + 1 = Frames
      <3>1. sf1 = 0 /\ sfn1 = 0
        BY <1>1, <1>2, <2>3
      <3>2. TimeOf(sfn1, sf1) = 0
        BY <1>3, <3>1 DEF TimeOf
      <3>3. sfn = Frames - 1 /\ sf = SfPerFrame - 1
        BY <2>3, CycleType
      <3> QED
        BY <3>2, <3>3, TimeOfType DEF After
    <2> QED
      BY <2>1, <2>2, <2>3
  <1> QED
    BY <1>4, <1>5

\* The sum of a time and a delay, as vMibLoop computes it, frames and subframes
\* apart with a carry.
LEMMA SumTime ==
    ASSUME NEW x \in CycleTime, NEW d \in CycleTime,
           NEW sf, sf = (x % SfPerFrame) + (d % SfPerFrame),
           NEW sfn, sfn = (x \div SfPerFrame) + (d \div SfPerFrame)
    PROVE  /\ sf % SfPerFrame \in 0 .. SfPerFrame - 1
           /\ (sfn + Carry(sf)) % Frames \in 0 .. Frames - 1
           /\ TimeOf((sfn + Carry(sf)) % Frames, sf % SfPerFrame)
                 = IF x + d < Cycle THEN x + d ELSE x + d - Cycle
  <1>1. PICK q \in Nat : q = sfn + Carry(sf)
    BY QuotientRemainder, CycleType DEF CycleTime, Carry
  <1>2. PICK r \in 0 .. SfPerFrame - 1 : r = sf % SfPerFrame /\ x + d = q * SfPerFrame + r
    <2>1. /\ x \in Nat /\ d \in Nat
          /\ x \div SfPerFrame \in Nat /\ d \div SfPerFrame \in Nat
          /\ x % SfPerFrame \in 0 .. SfPerFrame - 1 /\ d % SfPerFrame \in 0 .. SfPerFrame - 1
          /\ x = SfPerFrame * (x \div SfPerFrame) + (x % SfPerFrame)
          /\ d = SfPerFrame * (d \div SfPerFrame) + (d % SfPerFrame)
      <3>1. x \in Nat /\ d \in Nat
        BY CycleType DEF CycleTime
      <3> QED
        BY ONLY <3>1, QuotientRemainder, CycleType
    <2>2. PICK xq \in Nat : xq = x \div SfPerFrame
      BY <2>1
    <2>3. PICK dq \in Nat : dq = d \div SfPerFrame
      BY <2>1
    <2>4. PICK xr \in 0 .. SfPerFrame - 1 : xr = x % SfPerFrame
      BY <2>1
    <2>5. PICK dr \in 0 .. SfPerFrame - 1 : dr = d % SfPerFrame
      BY <2>1
    <2>6. x = SfPerFrame * xq + xr /\ d = SfPerFrame * dq + dr /\ sf = xr + dr /\ sfn = xq + dq
      BY <2>1, <2>2, <2>3, <2>4, <2>5
    <2>7. SfPerFrame * xq = xq * SfPerFrame /\ SfPerFrame * dq = dq * SfPerFrame
      BY Products, CycleType
    <2>8. /\ xq * SfPerFrame \in Nat /\ dq * SfPerFrame \in Nat
          /\ sfn \in Nat /\ sfn * SfPerFrame = xq * SfPerFrame + dq * SfPerFrame
      BY <2>6, Products, CycleType
    <2>9. sf \in Nat /\ sf < 2 * SfPerFrame
      BY <2>4, <2>5, <2>6, CycleType
    <2>10. sf % SfPerFrame = IF sf < SfPerFrame THEN sf ELSE sf - SfPerFrame
      BY <2>9, OnceAround, CycleType
    <2>11. x + d = sfn * SfPerFrame + sf
      BY <2>6, <2>7, <2>8
    <2>12. CASE sf < SfPerFrame
      <3>1. q = sfn /\ sf % SfPerFrame = sf
        BY <1>1, <2>8, <2>9, <2>10, <2>12, CycleType DEF Carry
      <3> QED
        BY <2>9, <2>11, <2>12, <3>1, CycleType
    <2>13. CASE sf >= SfPerFrame
      <3>1. q = sfn + 1 /\ sf % SfPerFrame = sf - SfPerFrame
        BY <1>1, <2>8, <2>9, <2>10, <2>13, CycleType DEF Carry
      <3>2. (sfn + 1) * SfPerFrame = sfn * SfPerFrame + SfPerFrame
        BY <2>8, Products, CycleType
      <3> QED
        BY <2>8, <2>9, <2>11, <2>13, <3>1, <3>2, CycleType
    <2> QED
      BY <2>9, <2>12, <2>13, CycleType
  <1>3. q * SfPerFrame \in Nat /\ Frames * SfPerFrame = Cycle /\ Cycle \in Nat
    BY Products, CycleType DEF Cycle
  <1>4. q < 2 * Frames
    <2>1. q >= 2 * Frames => q * SfPerFrame >= (2 * Frames) * SfPerFrame
      BY Products, CycleType
    <2>2. (2 * Frames) * SfPerFrame = 2 * Cycle
      <3>1. (Frames + Frames) * SfPerFrame = Frames * SfPerFrame + Frames * SfPerFrame
        BY Products, CycleType
      <3> QED
        BY <1>3, <3>1, CycleType
    <2> QED
      BY <1>2, <1>3, <2>1, <2>2, CycleType DEF CycleTime
  <1>5. q % Frames = IF q < Frames THEN q ELSE q - Frames
    BY <1>4, OnceAround, CycleType
  <1>6. q >= Frames => (q - Frames) * SfPerFrame = q * SfPerFrame - Cycle
    BY <1>3, Products, CycleType
  <1>7. q < Frames => q * SfPerFrame + SfPerFrame <= Cycle
    <2>1. q + 1 <= Frames => (q + 1) * SfPerFrame <= Cycle
      BY <1>3, Products, CycleType
    <2>2. (q + 1) * SfPerFrame = q * SfPerFrame + SfPerFrame
      BY Products, CycleType
    <2> QED
      BY <2>1, <2>2, CycleType
  <1>8. q >= Frames => q * SfPerFrame >= Cycle
    BY <1>3, Products, CycleType
  <1>9. PICK f \in 0 .. Frames - 1 : f = q % Frames
    BY <1>4, <1>5, CycleType
  <1>10. TimeOf(f, r) = IF x + d < Cycle THEN x + d ELSE x + d - Cycle
    BY <1>2, <1>3, <1>5, <1>6, <1>7, <1>8, <1>9, CycleType DEF TimeOf, CycleTime
  <1> QED
    BY <1>1, <1>2, <1>9, <1>10

-------------------------------------------------------------------------------
(* The tick that goes round, and room for the command it may bring. *)

One(b) == IF b THEN 1 ELSE 0

\* One tick at a time is with the VSPA, in the queue, or counted with its command
\* still to be sent.
TickCount == One(go) + Ticks(VspaToCm4QMbox0) + One(sched \in {"send", "mutex"})

\* A MIB that waits in the mailbox is read before the tick after; and a tick is
\* with the VSPA only when no message waits for the tasks.
MibCommands == Count(to_vspa, {"MIB"})

TickInv ==
    /\ TickCount <= 1
    /\ go => sched = "blocked" /\ VspaToCm4QMbox0 = <<>> /\ MibCommands = 0

Room == Len(to_vspa) + TickCount <= QLen

\* What is known of every state already.
Known == IInv /\ QueueTypes

LEMMA KnownTypes ==
    ASSUME Known
    PROVE  /\ Ticks(VspaToCm4QMbox0) \in Nat /\ MibCommands \in Nat
           /\ Len(to_vspa) \in Nat /\ Len(VspaToCm4QMbox0) \in Nat
           /\ CoreWaits /\ sched = "blocked" => VspaToCm4QMbox0 = <<>>
           /\ VspaToCm4QMbox0 = <<>> => Len(VspaToCm4QMbox0) = 0 /\ Ticks(VspaToCm4QMbox0) = 0
           /\ to_vspa = <<>> => Len(to_vspa) = 0
  <1>1. VspaToCm4QMbox0 \in Seq(Opcodes) /\ to_vspa \in Seq(VspaCommand)
    BY DEF Known, IInv, TypeOK, Opcodes, QueueTypes
  <1>2. CoreWaits /\ sched = "blocked" => VspaToCm4QMbox0 = <<>>
    BY DEF Known, IInv, Receivers, CoreWaits
  <1> QED
    BY <1>1, <1>2, CountType, CountEmpty, LenProperties DEF Ticks, MibCommands

LEMMA KnownNext ==
    ASSUME Known'
    PROVE  /\ Ticks(VspaToCm4QMbox0)' \in Nat /\ MibCommands' \in Nat
           /\ Len(to_vspa)' \in Nat /\ Len(VspaToCm4QMbox0)' \in Nat
  <1>1. VspaToCm4QMbox0' \in Seq(Opcodes) /\ to_vspa' \in Seq(VspaCommand)
    BY DEF Known, IInv, TypeOK, Opcodes, QueueTypes
  <1> QED
    BY <1>1, CountType, LenProperties DEF Ticks, MibCommands

\* The mailbox to the VSPA, of which the VSPA reads the head and the tasks append.
LEMMA MailboxRead ==
    ASSUME Known, to_vspa # <<>>
    PROVE  /\ Tail(to_vspa) \in Seq(VspaCommand) /\ Len(Tail(to_vspa)) = Len(to_vspa) - 1
           /\ Count(Tail(to_vspa), {"MIB"}) = MibCommands - One(Head(to_vspa) = "MIB")
  <1>1. to_vspa \in Seq(VspaCommand)
    BY DEF Known, QueueTypes
  <1> QED
    BY <1>1, HeadTailProperties, CountTail DEF MibCommands, One

LEMMA MailboxSend ==
    ASSUME NEW q \in Seq(VspaCommand), NEW c \in VspaCommand
    PROVE  /\ Append(q, c) \in Seq(VspaCommand) /\ Len(Append(q, c)) = Len(q) + 1
           /\ Count(Append(q, c), {"MIB"}) = Count(q, {"MIB"}) + One(c = "MIB")
           /\ q \o <<c>> = Append(q, c)
  BY AppendProperties, AppendIsConcat, CountAppend DEF One

\* What the scheduler's and the VSPA's steps do to the queue of mailbox 0.
LEMMA TicksReceived ==
    ASSUME Known, NEW sends, SchedReceive(sends)
    PROVE  Ticks(VspaToCm4QMbox0)' = Ticks(VspaToCm4QMbox0) - One(Head(VspaToCm4QMbox0) = "MS_IND")
  <1>1. VspaToCm4QMbox0 \in Seq(Opcodes) /\ VspaToCm4QMbox0 # <<>> /\ VspaToCm4QMbox0' = Tail(VspaToCm4QMbox0)
    BY DEF Known, IInv, TypeOK, Opcodes, SchedReceive
  <1> QED
    BY <1>1, CountTail DEF Ticks, One

LEMMA TickTaken ==
    ASSUME Known, CoreReceive, VspaToCm4QMbox0 # <<>>
    PROVE  /\ Ticks(VspaToCm4QMbox0)' = Ticks(VspaToCm4QMbox0) - One(Head(VspaToCm4QMbox0) = "MS_IND")
           /\ ind_taken' # ind_taken <=> Head(VspaToCm4QMbox0) = "MS_IND"
  <1>1. /\ VspaToCm4QMbox0 \in Seq(Opcodes) /\ VspaToCm4QMbox0' = Tail(VspaToCm4QMbox0)
        /\ ind_taken' = IF Head(VspaToCm4QMbox0) = "MS_IND" THEN ind_taken + 1 ELSE ind_taken
        /\ ind_taken \in Nat
    BY MaxIndAssumption DEF Known, IInv, TypeOK, Opcodes, CoreReceive
  <1> QED
    BY <1>1, CountTail DEF Ticks, One

LEMMA TickArrives ==
    ASSUME Known, sched = "blocked", VspaToCm4QMbox0 = <<>>, MsInd
    PROVE  /\ Ticks(VspaToCm4QMbox0) = 0 /\ Ticks(VspaToCm4QMbox0)' = 1
           /\ sched' \in {"blocked", "ready"}
  <1>1. MsInd => Arrive("MS_IND") /\ Wake /\ "MS_IND" \in Opcodes
    BY DEF MsInd, Opcodes
  <1>2. VspaToCm4QMbox0 = <<>> /\ Ticks(VspaToCm4QMbox0) = 0 /\ Len(VspaToCm4QMbox0) < QLen
    BY KnownTypes, QLenAssumption
  <1>3. Ticks(VspaToCm4QMbox0)' = 1
    BY <1>1, <1>2, ArriveTypes DEF Known
  <1> QED
    BY <1>1, <1>2, <1>3 DEF Wake

LEMMA StartArrives ==
    ASSUME Known, MsStart
    PROVE  /\ Ticks(VspaToCm4QMbox0)' = Ticks(VspaToCm4QMbox0)
           /\ sched' \in {sched, "ready"}
  <1>1. MsStart => Arrive("MS_START") /\ Wake /\ "MS_START" \in Opcodes
    BY DEF MsStart, Opcodes
  <1> QED
    BY <1>1, KnownTypes, ArriveTypes DEF Known, Wake

\* A step that takes no tick from one place to another and puts no command into
\* the mailbox.
LEMMA TickSame ==
    ASSUME TickInv, Room, UNCHANGED <<go, sched, VspaToCm4QMbox0, to_vspa>>
    PROVE  TickInv' /\ Room'
  BY DEF TickInv, Room, TickCount, MibCommands, Ticks

LEMMA VspaTicks ==
    ASSUME Known, Known', TickInv, Room, Fire \/ Vspa
    PROVE  TickInv' /\ Room'
  <1>0. /\ Ticks(VspaToCm4QMbox0) \in Nat /\ MibCommands \in Nat /\ MibCommands' \in Nat
        /\ Len(to_vspa) \in Nat /\ QLen \in Nat \ {0} /\ Ticks(VspaToCm4QMbox0)' \in Nat
    BY KnownTypes, KnownNext, QLenAssumption
  <1>1. CASE Fire
    <2>1. /\ CoreWaits /\ sched = "blocked" /\ to_vspa = <<>> /\ go' = TRUE
          /\ UNCHANGED <<sched, VspaToCm4QMbox0, to_vspa>>
      BY <1>1 DEF Fire, vars, vspaVars
    <2>2. VspaToCm4QMbox0' = <<>> /\ Ticks(VspaToCm4QMbox0)' = 0 /\ MibCommands' = 0
      BY <2>1, KnownTypes, CountEmpty DEF MibCommands
    <2>3. Len(to_vspa) = 0
      BY <2>1, KnownTypes
    <2> QED
      BY <1>0, <2>1, <2>2, <2>3 DEF TickInv, Room, TickCount, One
  <1>2. ASSUME Vspa
        PROVE  \/ to_vspa' = to_vspa
               \/ to_vspa # <<>> /\ to_vspa' = Tail(to_vspa)
    BY <1>2 DEF Vspa, VspaTick, VspaRead, VspaScan
  <1>3. ASSUME Vspa PROVE Len(to_vspa') <= Len(to_vspa) /\ Len(to_vspa') \in Nat
    <2>1. CASE to_vspa' = to_vspa
      BY <1>0, <2>1
    <2>2. CASE to_vspa # <<>> /\ to_vspa' = Tail(to_vspa)
      <3>1. Len(Tail(to_vspa)) = Len(to_vspa) - 1
        BY <2>2, MailboxRead
      <3>2. Len(to_vspa') \in Nat
        BY <2>2, MailboxRead, LenProperties
      <3> QED
        BY <1>0, <2>2, <3>1, <3>2
    <2> QED
      BY <1>2, <1>3, <2>1, <2>2
  <1>4. CASE VspaTick
    <2>1. /\ go /\ go' = FALSE /\ MsInd /\ sched = "blocked" /\ VspaToCm4QMbox0 = <<>>
      BY <1>4 DEF VspaTick, TickInv
    <2>2. /\ Ticks(VspaToCm4QMbox0) = 0 /\ Ticks(VspaToCm4QMbox0)' = 1
          /\ sched' \in {"blocked", "ready"}
      BY <2>1, TickArrives
    <2> QED
      BY <1>0, <1>3, <1>4, <2>1, <2>2 DEF Vspa, TickInv, Room, TickCount, One
  <1>5. CASE VspaRead
    <2>1. ~ go /\ UNCHANGED <<go, sched, VspaToCm4QMbox0>>
      BY <1>5 DEF VspaRead, vars, timerVars
    <2> QED
      BY <1>0, <1>3, <1>5, <2>1 DEF Vspa, TickInv, Room, TickCount, One, Ticks
  <1>6. CASE VspaScan
    <2>1. ~ go /\ go' = go /\ (MsStart \/ UNCHANGED vars)
      BY <1>6 DEF VspaScan, timerVars
    <2>2. Ticks(VspaToCm4QMbox0)' = Ticks(VspaToCm4QMbox0) /\ sched' \in {sched, "ready"}
      BY <2>1, StartArrives DEF vars, Ticks
    <2> QED
      BY <1>0, <1>3, <1>6, <2>1, <2>2 DEF Vspa, TickInv, Room, TickCount, One
  <1> QED
    BY <1>1, <1>4, <1>5, <1>6 DEF Vspa

LEMMA SchedTicks ==
    ASSUME Known, Known', TickInv, Room, vSchedularLoop
    PROVE  TickInv' /\ Room'
  <1>0. /\ Ticks(VspaToCm4QMbox0) \in Nat /\ MibCommands \in Nat
        /\ Len(to_vspa) \in Nat /\ QLen \in Nat \ {0}
        /\ to_vspa \in Seq(VspaCommand) /\ command \in VspaCommand
    BY KnownTypes, QLenAssumption DEF Known, QueueTypes
  <1>1. CASE SchedTick \/ SchedOther
    <2>1. PICK sends \in BOOLEAN : SchedReceive(sends)
      BY <1>1 DEF SchedTick, SchedOther
    <2>2. UNCHANGED <<go, to_vspa>>
      BY <1>1 DEF SchedTick, SchedOther, vspaVars
    <2>3. /\ sched = "ready" /\ sched' \in {"ready", "send"}
          /\ sched' = "send" => Head(VspaToCm4QMbox0) = "MS_IND"
      BY <2>1 DEF SchedReceive
    <2>4. /\ Ticks(VspaToCm4QMbox0)' = Ticks(VspaToCm4QMbox0) - One(Head(VspaToCm4QMbox0) = "MS_IND")
          /\ Ticks(VspaToCm4QMbox0)' \in Nat
      BY <2>1, TicksReceived, KnownNext
    <2>5. TickCount' <= TickCount
      BY <1>0, <2>2, <2>3, <2>4 DEF TickCount, One
    <2>6. ~ go
      BY <2>3 DEF TickInv
    <2>7. TickCount \in Nat /\ TickCount' \in Nat
      BY <1>0, <2>4 DEF TickCount, One
    <2> QED
      BY <1>0, <2>2, <2>5, <2>6, <2>7 DEF TickInv, Room
  <1>2. CASE SchedCommand
    <2>1. /\ sched = "send" /\ sched' \in {"mutex", "ready"} /\ UNCHANGED <<go, VspaToCm4QMbox0>>
          /\ to_vspa' = IF sched' = "ready" THEN to_vspa \o <<command>> ELSE to_vspa
      BY <1>2 DEF SchedCommand, SchedSend, Scheduled, timerVars
    <2>2. ~ go
      BY <2>1 DEF TickInv
    <2>3. Len(to_vspa') = IF sched' = "ready" THEN Len(to_vspa) + 1 ELSE Len(to_vspa)
      BY <1>0, <2>1, MailboxSend
    <2> QED
      BY <1>0, <2>1, <2>2, <2>3 DEF TickInv, Room, TickCount, One, Ticks
  <1>3. CASE SchedBlock /\ UNCHANGED frameVars
    <2>1. sched = "ready" /\ sched' = "blocked" /\ UNCHANGED <<go, VspaToCm4QMbox0, to_vspa>>
      BY <1>3 DEF SchedBlock, frameVars, timerVars, vspaVars
    <2> QED
      BY <1>0, <2>1 DEF TickInv, Room, TickCount, One, Ticks, MibCommands
  <1> QED
    BY <1>1, <1>2, <1>3 DEF vSchedularLoop

\* The other tasks leave room for the command of the tick.
LEMMA TaskTicks ==
    ASSUME Known, Known', TickInv, Room, vVSPALoop \/ vMibLoop \/ RxCommand \/ RxFollow \/ RxFollowStop
    PROVE  TickInv' /\ Room'
  <1>0. /\ Ticks(VspaToCm4QMbox0) \in Nat /\ MibCommands \in Nat
        /\ Len(to_vspa) \in Nat /\ QLen \in Nat \ {0}
        /\ to_vspa \in Seq(VspaCommand) /\ command \in VspaCommand
        /\ "OTHER" \in VspaCommand /\ "SCAN" \in VspaCommand /\ Pbch \subseteq VspaCommand
    BY KnownTypes, QLenAssumption DEF Known, QueueTypes, VspaCommand
  <1>1. UNCHANGED go
    BY DEF vVSPALoop, prvDoTrackingUpdate, prvDoCellFollowMIB, OtherReply, NextReply,
           vMibLoop, MibUnlock, MibSearch, MibEstimate, MibInterpolate, MibEqualize, MibDecode,
           MibCorrect, MibReply, MibCommand, MibStep, RxCommand, RxFollow, RxFollowStop, timerVars
  <1>2. ASSUME UNCHANGED <<sched, VspaToCm4QMbox0>>, NEW c \in VspaCommand \ {"MIB"},
               to_vspa' = Append(to_vspa, c), Len(to_vspa) + 1 < QLen
        PROVE  TickInv' /\ Room'
    <2>1. Len(to_vspa') = Len(to_vspa) + 1 /\ MibCommands' = MibCommands
      BY <1>0, <1>2, MailboxSend DEF MibCommands, One
    <2>2. TickCount' = TickCount /\ TickCount \in Nat
      BY <1>0, <1>1, <1>2 DEF TickCount, One, Ticks
    <2> QED
      BY <1>0, <1>1, <1>2, <2>1, <2>2 DEF TickInv, Room
  <1>3. CASE vVSPALoop \/ RxFollowStop
    <2>1. UNCHANGED <<sched, VspaToCm4QMbox0, to_vspa>>
      BY <1>3 DEF vVSPALoop, prvDoTrackingUpdate, prvDoCellFollowMIB, OtherReply, NextReply,
                  RxFollowStop, vars, vspaVars
    <2> QED
      BY <1>1, <2>1, TickSame
  <1>4. CASE vMibLoop
    <2>1. UNCHANGED <<sched, VspaToCm4QMbox0>>
      BY <1>4 DEF vMibLoop, MibUnlock, MibSearch, MibEstimate, MibInterpolate, MibEqualize,
                  MibDecode, MibCorrect, MibReply, MibCommand, MibStep, vars
    <2>2. \/ UNCHANGED to_vspa
          \/ \E c \in Pbch : to_vspa' = Append(to_vspa, c) /\ Len(to_vspa) + 1 < QLen
      BY <1>4 DEF vMibLoop, MibUnlock, MibSearch, MibEstimate, MibInterpolate, MibEqualize,
                  MibDecode, MibCorrect, MibReply, MibCommand, Pbch
    <2>3. Pbch \subseteq VspaCommand \ {"MIB"}
      BY <1>0 DEF Pbch
    <2> QED
      BY <1>1, <1>2, <2>1, <2>2, <2>3, TickSame
  <1>5. CASE RxFollow
    BY <1>0, <1>2, <1>5 DEF RxFollow, vars
  <1>6. CASE RxCommand /\ RxSent /\ sched = "mutex"
    <2>1. /\ sched' = "ready" /\ UNCHANGED VspaToCm4QMbox0 /\ Len(to_vspa) + 1 < QLen
          /\ to_vspa' = Append(to_vspa, "OTHER") \o <<command>>
      BY <1>6 DEF RxCommand, RxSend, RxReceive, RxTimeout, RxSent, Scheduled
    <2>2. Append(to_vspa, "OTHER") \in Seq(VspaCommand) /\ Len(Append(to_vspa, "OTHER")) = Len(to_vspa) + 1
      BY <1>0, MailboxSend
    <2>3. Len(to_vspa') = Len(to_vspa) + 2
      BY <1>0, <2>1, <2>2, MailboxSend
    <2>4. ~ go
      BY <1>6 DEF TickInv
    <2> QED
      BY <1>0, <1>1, <1>6, <2>1, <2>3, <2>4 DEF TickInv, Room, TickCount, One, Ticks
  <1>7. CASE RxCommand /\ RxSent /\ sched # "mutex"
    <2>1. /\ UNCHANGED <<sched, VspaToCm4QMbox0>> /\ Len(to_vspa) + 1 < QLen
          /\ to_vspa' = Append(to_vspa, "OTHER")
      BY <1>7 DEF RxCommand, RxSend, RxReceive, RxTimeout, RxSent
    <2> QED
      BY <1>0, <1>2, <2>1
  <1>8. CASE RxCommand /\ ~ RxSent
    <2>1. UNCHANGED to_vspa /\ (RxSend \/ RxReceive \/ RxTimeout)
      BY <1>8 DEF RxCommand
    <2>2. UNCHANGED sched
      BY <2>1 DEF RxSend, RxReceive, RxTimeout
    <2>3. UNCHANGED VspaToCm4QMbox0
      <3>1. CASE RxReceive
        <4>1. CoreWaits /\ sched = "blocked"
          BY <3>1 DEF RxReceive, RxMayRun, Known, IInv, TypeOK
        <4> QED
          BY <3>1, <4>1, KnownTypes DEF RxReceive
      <3> QED
        BY <2>1, <3>1 DEF RxSend, RxTimeout
    <2> QED
      BY <1>1, <2>1, <2>2, <2>3, TickSame
  <1> QED
    BY <1>3, <1>4, <1>5, <1>6, <1>7, <1>8

\* A command of vRficCoreTask sends vSchedularLoop back to the mutex, and leaves room
\* for it.
LEMMA CoreTicks ==
    ASSUME Known, Known', TickInv, Room, vRficCoreTask
    PROVE  TickInv' /\ Room'
  <1>0. /\ Ticks(VspaToCm4QMbox0) \in Nat /\ MibCommands \in Nat
        /\ Len(to_vspa) \in Nat /\ QLen \in Nat \ {0}
        /\ to_vspa \in Seq(VspaCommand) /\ "OTHER" \in VspaCommand \ {"MIB"}
    BY KnownTypes, QLenAssumption DEF Known, QueueTypes, VspaCommand
  <1>1. UNCHANGED go
    BY DEF vRficCoreTask, CoreCommand, CoreAnswer, frameVars, timerVars
  <1>2. CASE CoreCommand
    <2> DEFINE sent == IF rx = "sending" THEN Append(to_vspa, "OTHER") ELSE to_vspa
    <2>1. /\ to_vspa' = Append(sent, "OTHER") /\ Len(sent) + 1 < QLen
          /\ sched' = IF sched = "mutex" THEN "send" ELSE sched
          /\ UNCHANGED VspaToCm4QMbox0
      BY <1>2 DEF CoreCommand, CoreAsk
    <2>2. sent \in Seq(VspaCommand) /\ Len(sent) \in Nat /\ Count(sent, {"MIB"}) = MibCommands
      BY <1>0, MailboxSend, LenProperties DEF MibCommands, One
    <2> HIDE DEF sent
    <2>3. Len(to_vspa') = Len(sent) + 1 /\ MibCommands' = MibCommands
      BY <1>0, <2>1, <2>2, MailboxSend DEF MibCommands, One
    <2>4. TickCount' = TickCount /\ TickCount \in Nat
      BY <1>0, <1>1, <2>1 DEF TickCount, One, Ticks
    <2>5. go => sched' = "blocked"
      BY <2>1 DEF TickInv
    <2> QED
      BY <1>0, <1>1, <2>1, <2>2, <2>3, <2>4, <2>5 DEF TickInv, Room
  <1>3. CASE CoreAnswer /\ VspaToCm4QMbox0 # <<>>
    <2>1. UNCHANGED <<sched, to_vspa>> /\ ~ go
      BY <1>3 DEF CoreAnswer, CoreReceive, vspaVars, TickInv
    <2>2. Ticks(VspaToCm4QMbox0)' <= Ticks(VspaToCm4QMbox0) /\ Ticks(VspaToCm4QMbox0)' \in Nat
      BY <1>0, <1>3, TickTaken, KnownNext DEF CoreAnswer, One
    <2> QED
      BY <1>0, <1>1, <2>1, <2>2 DEF TickInv, Room, TickCount, One
  <1>4. CASE (CoreAnswer /\ VspaToCm4QMbox0 = <<>>) \/ (CoreGivesUp /\ UNCHANGED frameVars)
    <2>1. UNCHANGED <<sched, VspaToCm4QMbox0, to_vspa>>
      BY <1>4 DEF CoreAnswer, CoreReceive, CoreGivesUp, frameVars, vspaVars
    <2> QED
      BY <1>1, <2>1, TickSame
  <1> QED
    BY <1>2, <1>3, <1>4 DEF vRficCoreTask

-------------------------------------------------------------------------------
(* The types of a followed cell's state. *)

ClockTypes ==
    /\ {ue, cell, mib_cell, mib_time, mib_scheduled_tti_cnt} \subseteq CycleTime
    /\ gnb_sfn \in 0 .. Frames - 1
    /\ gnb_sf \in 0 .. SfPerFrame - 1

TaskTypes ==
    /\ {armed, go, synced, xSemMIBTaskUnlock} \subseteq BOOLEAN
    /\ schedule_mib \in {"MIB_NOT_SCHEDULE", "MIB_ENABLE", "MIB_SCHEDULE"}
    /\ cons_msd_ssb_det \in 0 .. MaxMissed - 1
    /\ command \in {"SSB", "MIB"}
    /\ Len(VspaToCm4QMbox1) <= QLen
    /\ mib_pc \in {"unlock", "busy", "correct", "reply"} \cup Pbch \cup {"interpolate"}
    /\ requests \in 0 .. MaxRequests
    /\ spoilt \subseteq {"interrupted", "wrapped", "raced"}

LEMMA FrameTypes ==
    ASSUME Known, TickInv, Room, ClockTypes, TaskTypes
    PROVE  FrameTypeOK
  <1>1. Len(to_vspa) <= QLen
    <2>1. TickCount \in Nat /\ Len(to_vspa) \in Nat /\ QLen \in Nat
      BY KnownTypes, QLenAssumption DEF TickCount, One
    <2> QED
      BY <2>1 DEF Room
  <1>2. VspaToCm4QMbox1 \in Seq({"SCAN", "SSB", "MIB", "PBCH"} \X BOOLEAN)
    <2>1. ASSUME NEW r \in Reply PROVE r \in {"SCAN", "SSB", "MIB", "PBCH"} \X BOOLEAN
      <3>1. CASE r \in {"SCAN", "SSB", "MIB"} \X BOOLEAN
        BY <3>1
      <3>2. CASE r = <<"PBCH", TRUE>>
        BY <3>2
      <3> QED
        BY <2>1, <3>1, <3>2 DEF Reply
    <2> QED
      BY <2>1, SeqMonotonic DEF Known, QueueTypes
  <1> QED
    BY <1>1, <1>2 DEF Known, IInv, QueueTypes, ClockTypes, TaskTypes, FrameTypeOK, CycleTime

LEMMA Zeros ==
    0 \in CycleTime /\ 0 \in 0 .. Frames - 1 /\ 0 \in 0 .. SfPerFrame - 1 /\ 0 \in 0 .. MaxMissed - 1
  BY CycleType, FramesAssumption DEF CycleTime

\* The clock is set to zero or left as it is when a follow ends or a reply comes.
LEMMA StopTypes ==
    ASSUME ClockTypes, UNCHANGED <<cell, mib_cell, mib_time>>,
           \/ UNCHANGED <<clockVars, mib_scheduled_tti_cnt>>
           \/ StopFollow
    PROVE  ClockTypes'
  BY Zeros DEF ClockTypes, clockVars, StopFollow

\* The ticks that vMibLoop adds: those since the MIB was scheduled, or one less
\* when the tick count has wrapped.
LEMMA DelayType ==
    ASSUME ClockTypes
    PROVE  /\ mib_proc_delay \in CycleTime
           /\ mib_proc_delay = IF ue < mib_scheduled_tti_cnt
                               THEN Ahead(ue, mib_scheduled_tti_cnt) - 1
                               ELSE Ahead(ue, mib_scheduled_tti_cnt)
  BY CycleType DEF ClockTypes, mib_proc_delay, Ahead, CycleTime

\* What vMibLoop sets the clock to: the time of the MIB, of which gnb_sf is
\* already set, and the ticks since.
LEMMA CorrectedClock ==
    ASSUME ClockTypes, MibCorrect, gnb_sf = mib_time % SfPerFrame
    PROVE  TimeOf(gnb_sfn, gnb_sf)' = IF mib_time + mib_proc_delay < Cycle
                                      THEN mib_time + mib_proc_delay
                                      ELSE mib_time + mib_proc_delay - Cycle
  <1> DEFINE sf == gnb_sf + (mib_proc_delay % SfPerFrame)
             sfn == (mib_time \div SfPerFrame) + (mib_proc_delay \div SfPerFrame)
  <1>1. mib_time \in CycleTime /\ mib_proc_delay \in CycleTime
    BY DelayType DEF ClockTypes
  <1>2. gnb_sf' = sf % SfPerFrame /\ gnb_sfn' = (sfn + Carry(sf)) % Frames
    BY DEF MibCorrect
  <1>3. sf = (mib_time % SfPerFrame) + (mib_proc_delay % SfPerFrame)
    OBVIOUS
  <1> HIDE DEF sf
  <1>4. TimeOf((sfn + Carry(sf)) % Frames, sf % SfPerFrame)
           = IF mib_time + mib_proc_delay < Cycle THEN mib_time + mib_proc_delay
             ELSE mib_time + mib_proc_delay - Cycle
    BY <1>1, <1>3, SumTime
  <1> QED
    BY <1>2, <1>4 DEF TimeOf

LEMMA ClockTypesStep ==
    ASSUME Known, ClockTypes, FrameNext PROVE ClockTypes'
  <1>1. CASE UNCHANGED <<clockVars, cell, mib_cell, mib_time, mib_scheduled_tti_cnt>>
    BY <1>1 DEF ClockTypes, clockVars
  <1>2. CASE Fire \/ VspaScan \/ SchedOther \/ (SchedBlock /\ UNCHANGED frameVars) \/ RxFollow
            \/ vRficCoreTask
    BY <1>1, <1>2 DEF Fire, VspaScan, SchedOther, RxFollow, vRficCoreTask, CoreCommand, CoreAnswer,
                      frameVars, scheduleVars, vspaVars, mibVars
  <1>3. CASE VspaTick \/ VspaRead
    <2>1. PICK op, tick : Execute(op, tick)
      BY <1>3 DEF VspaTick, VspaRead
    <2>2. mib_cell' \in CycleTime
      BY <2>1 DEF Execute, ClockTypes
    <2>3. cell' \in CycleTime
      <3>1. cell' = cell \/ cell' = (cell + 1) % Cycle
        BY <1>3 DEF VspaTick, VspaRead
      <3> QED
        BY <3>1, AfterIsMod DEF ClockTypes
    <2>4. UNCHANGED <<clockVars, mib_time, mib_scheduled_tti_cnt>>
      BY <1>3 DEF VspaTick, VspaRead, scheduleVars, mibVars
    <2> QED
      BY <2>2, <2>3, <2>4 DEF ClockTypes, clockVars
  <1>4. CASE SchedTick
    <2>1. /\ ue' = (ue + 1) % Cycle /\ gnb_sf' = (gnb_sf + 1) % SfPerFrame
          /\ gnb_sfn' = IF gnb_sf' = 0 THEN (gnb_sfn + 1) % Frames ELSE gnb_sfn
          /\ UNCHANGED <<cell, mib_cell, mib_time, mib_scheduled_tti_cnt>>
      BY <1>4 DEF SchedTick, scheduleVars, vspaVars, mibVars
    <2>2. gnb_sf' \in 0 .. SfPerFrame - 1 /\ gnb_sfn' \in 0 .. Frames - 1
      BY <2>1, TickTime DEF ClockTypes
    <2>3. ue' \in CycleTime
      BY <2>1, AfterIsMod DEF ClockTypes
    <2> QED
      BY <2>1, <2>2, <2>3 DEF ClockTypes
  <1>5. CASE SchedCommand \/ RxCommand
    BY <1>5 DEF SchedCommand, RxCommand, Scheduled, ClockTypes, clockVars, mibVars, historyVars
  <1>6. CASE vVSPALoop \/ RxFollowStop
    <2>1. UNCHANGED <<clockVars, mib_scheduled_tti_cnt>> \/ StopFollow
      BY <1>6 DEF vVSPALoop, prvDoTrackingUpdate, prvDoCellFollowMIB, OtherReply, Missed, Tracked,
                  RxFollowStop, scheduleVars
    <2>2. UNCHANGED <<cell, mib_cell, mib_time>>
      BY <1>6 DEF vVSPALoop, prvDoTrackingUpdate, prvDoCellFollowMIB, OtherReply, NextReply,
                  RxFollowStop, vspaVars, mibVars
    <2> QED
      BY <2>1, <2>2, StopTypes
  <1>7. CASE MibUnlock \/ MibSearch \/ MibEstimate \/ MibInterpolate \/ MibEqualize \/ MibReply
    BY <1>7 DEF MibUnlock, MibSearch, MibEstimate, MibInterpolate, MibEqualize, MibReply,
                MibCommand, MibStep, scheduleVars, ClockTypes
  <1>8. CASE MibDecode
    <2>1. /\ UNCHANGED <<ue, cell, mib_cell, mib_time, mib_scheduled_tti_cnt, gnb_sfn>>
          /\ gnb_sf' = gnb_sf \/ gnb_sf' = mib_time % SfPerFrame
      BY <1>8 DEF MibDecode, MibStep, scheduleVars
    <2>2. mib_time % SfPerFrame \in 0 .. SfPerFrame - 1
      BY CycleType, RemainderType DEF ClockTypes, CycleTime
    <2> QED
      BY <2>1, <2>2 DEF ClockTypes
  <1>9. CASE MibCorrect
    <2> DEFINE sf == gnb_sf + (mib_proc_delay % SfPerFrame)
               sfn == (mib_time \div SfPerFrame) + (mib_proc_delay \div SfPerFrame)
    <2>1. gnb_sf' = sf % SfPerFrame /\ gnb_sfn' = (sfn + Carry(sf)) % Frames
      BY <1>9 DEF MibCorrect
    <2>2. mib_time \in Nat /\ mib_proc_delay \in Nat /\ gnb_sf \in Nat
      BY DelayType, CycleType DEF ClockTypes, CycleTime
    <2>3. /\ mib_proc_delay % SfPerFrame \in 0 .. SfPerFrame - 1
          /\ mib_time \div SfPerFrame \in Nat /\ mib_proc_delay \div SfPerFrame \in Nat
      BY <2>2, CycleType, QuotientRemainder
    <2>4. sf \in Nat /\ sfn + Carry(sf) \in Nat
      BY <2>2, <2>3, CycleType DEF Carry
    <2> HIDE DEF sf, sfn
    <2>5. gnb_sf' \in 0 .. SfPerFrame - 1 /\ gnb_sfn' \in 0 .. Frames - 1
      BY <2>1, <2>4, CycleType, RemainderType
    <2> QED
      BY <1>9, <2>5 DEF MibCorrect, MibStep, scheduleVars, ClockTypes
  <1> QED
    BY <1>2, <1>3, <1>4, <1>5, <1>6, <1>7, <1>8, <1>9 DEF FrameNext, Vspa, vSchedularLoop, vMibLoop

\* The reply of the VSPA finds room.
LEMMA ReplyFits ==
    ASSUME Known, NEW kind, NEW found, <<kind, found>> \in Reply, VspaReply(kind, found)
    PROVE  Len(VspaToCm4QMbox1') <= QLen
  <1>1. /\ VspaToCm4QMbox1 \in Seq(Reply) /\ Len(VspaToCm4QMbox1) < QLen
        /\ VspaToCm4QMbox1' = Append(VspaToCm4QMbox1, <<kind, found>>)
    BY DEF Known, QueueTypes, VspaReply
  <1>2. Len(VspaToCm4QMbox1') = Len(VspaToCm4QMbox1) + 1 /\ Len(VspaToCm4QMbox1) \in Nat
    BY <1>1, AppendProperties, LenProperties
  <1> QED
    BY <1>1, <1>2, QLenAssumption

LEMMA ExecuteFits ==
    ASSUME Known, NEW op, NEW tick, Execute(op, tick), Len(VspaToCm4QMbox1) <= QLen
    PROVE  Len(VspaToCm4QMbox1') <= QLen
  <1>1. CASE VspaReply("PBCH", TRUE)
    BY <1>1, ReplyFits DEF Reply
  <1>2. ASSUME NEW found \in BOOLEAN, op \in {"SSB", "MIB"}, VspaReply(op, found)
        PROVE  Len(VspaToCm4QMbox1') <= QLen
    BY <1>2, ReplyFits DEF Reply
  <1>3. CASE UNCHANGED VspaToCm4QMbox1
    BY <1>3
  <1> QED
    BY <1>1, <1>2, <1>3 DEF Execute

LEMMA VspaTaskTypes ==
    ASSUME Known, TaskTypes, Fire \/ Vspa PROVE TaskTypes'
  <1>1. UNCHANGED <<scheduleVars, command, xSemMIBTaskUnlock, mib_pc, requests>>
    BY DEF Fire, Vspa, VspaTick, VspaRead, VspaScan, semVars, mibVars
  <1>2. {armed, go}' \subseteq BOOLEAN
    BY DEF Fire, Vspa, VspaTick, VspaRead, VspaScan, timerVars, TaskTypes
  <1>3. synced' \in BOOLEAN /\ spoilt' \subseteq {"interrupted", "wrapped", "raced"}
    BY DEF Fire, Vspa, VspaTick, VspaRead, VspaScan, VoidClock, historyVars, TaskTypes
  <1>4. Len(VspaToCm4QMbox1') <= QLen
    <2>1. CASE Fire
      BY <2>1 DEF Fire, TaskTypes
    <2>2. CASE VspaTick \/ VspaRead
      BY <2>2, ExecuteFits DEF VspaTick, VspaRead, TaskTypes
    <2>3. CASE VspaScan
      BY <2>3, ReplyFits DEF VspaScan, Reply
    <2> QED
      BY <2>1, <2>2, <2>3 DEF Vspa
  <1> QED
    BY <1>1, <1>2, <1>3, <1>4 DEF TaskTypes, scheduleVars

LEMMA SchedTaskTypes ==
    ASSUME TaskTypes, vSchedularLoop \/ RxCommand \/ RxFollow \/ vRficCoreTask PROVE TaskTypes'
  <1>1. UNCHANGED <<go, cons_msd_ssb_det, VspaToCm4QMbox1, xSemMIBTaskUnlock, mib_pc>>
    BY DEF vSchedularLoop, SchedTick, SchedOther, SchedCommand, RxCommand, RxFollow,
           vRficCoreTask, CoreCommand, CoreAnswer, frameVars, timerVars, scheduleVars, semVars, mibVars
  <1>2. armed' \in BOOLEAN /\ command' \in {"SSB", "MIB"}
    BY DEF vSchedularLoop, SchedTick, SchedOther, SchedCommand, RxCommand, RxFollow,
           vRficCoreTask, CoreCommand, CoreAnswer, frameVars, timerVars, TaskTypes
  <1>3. /\ schedule_mib' \in {"MIB_NOT_SCHEDULE", "MIB_ENABLE", "MIB_SCHEDULE"}
        /\ requests' \in 0 .. MaxRequests
    <2>1. CASE RxFollow \/ CoreCommand
      <3>1. MaxRequests \in Nat
        BY FramesAssumption
      <3> QED
        BY <2>1, <3>1 DEF RxFollow, CoreCommand, scheduleVars, TaskTypes
    <2>2. CASE vSchedularLoop \/ RxCommand \/ CoreAnswer \/ UNCHANGED frameVars
      BY <2>2 DEF vSchedularLoop, SchedTick, SchedOther, SchedCommand, RxCommand, CoreAnswer, frameVars,
                  scheduleVars, TaskTypes
    <2> QED
      BY <2>1, <2>2 DEF vRficCoreTask
  <1>4. synced' \in BOOLEAN /\ spoilt' \subseteq {"interrupted", "wrapped", "raced"}
    <2>1. MibUnderWay \in BOOLEAN
      BY DEF MibUnderWay
    <2> QED
      BY <2>1 DEF vSchedularLoop, SchedTick, SchedOther, SchedCommand, RxCommand, RxFollow, Scheduled,
           vRficCoreTask, CoreCommand, CoreAnswer, VoidClock, frameVars, historyVars, TaskTypes
  <1> QED
    BY <1>1, <1>2, <1>3, <1>4 DEF TaskTypes

LEMMA TrackTaskTypes ==
    ASSUME Known, TaskTypes, vVSPALoop \/ RxFollowStop PROVE TaskTypes'
  <1>1. UNCHANGED <<go, command, mib_pc, requests>>
    BY DEF vVSPALoop, prvDoTrackingUpdate, prvDoCellFollowMIB, OtherReply, NextReply, RxFollowStop,
           mibVars
  <1>2. /\ armed' \in BOOLEAN /\ synced' \in BOOLEAN
        /\ schedule_mib' \in {"MIB_NOT_SCHEDULE", "MIB_ENABLE", "MIB_SCHEDULE"}
        /\ cons_msd_ssb_det' \in 0 .. MaxMissed - 1
        /\ spoilt' \subseteq {"interrupted", "wrapped", "raced"}
    <2>1. CASE UNCHANGED <<armed, scheduleVars, historyVars>>
      BY <2>1 DEF scheduleVars, historyVars, TaskTypes
    <2>2. CASE StopFollow
      BY <2>2, Zeros DEF StopFollow, VoidClock, TaskTypes
    <2>3. CASE \E precise \in BOOLEAN : Tracked(precise)
      BY <2>3, Zeros DEF Tracked, historyVars, TaskTypes
    <2>4. CASE Missed
      <3>1. CASE cons_msd_ssb_det + 1 # MaxMissed
        <4>1. MaxMissed \in Nat \ {0}
          BY FramesAssumption
        <4>2. cons_msd_ssb_det + 1 \in 0 .. MaxMissed - 1
          BY <3>1, <4>1 DEF TaskTypes
        <4> QED
          BY <2>4, <3>1, <4>2 DEF Missed, historyVars, TaskTypes
      <3> QED
        BY <2>2, <2>4, <3>1 DEF Missed
    <2> QED
      BY <2>1, <2>2, <2>3, <2>4 DEF vVSPALoop, prvDoTrackingUpdate, prvDoCellFollowMIB, OtherReply,
         RxFollowStop
  <1>3. Len(VspaToCm4QMbox1') <= QLen
    <2>1. CASE RxFollowStop
      BY <2>1 DEF RxFollowStop, TaskTypes
    <2>2. CASE vVSPALoop
      <3>1. VspaToCm4QMbox1 # <<>> /\ VspaToCm4QMbox1' = Tail(VspaToCm4QMbox1)
        BY <2>2 DEF vVSPALoop, prvDoTrackingUpdate, prvDoCellFollowMIB, OtherReply, NextReply
      <3>2. /\ VspaToCm4QMbox1 \in Seq(Reply) /\ Len(VspaToCm4QMbox1) \in Nat
            /\ Len(VspaToCm4QMbox1') = Len(VspaToCm4QMbox1) - 1
        BY <3>1, HeadTailProperties, LenProperties DEF Known, QueueTypes
      <3> QED
        BY <3>2, QLenAssumption DEF TaskTypes
    <2> QED
      BY <2>1, <2>2
  <1>4. xSemMIBTaskUnlock' \in BOOLEAN
    BY DEF vVSPALoop, prvDoTrackingUpdate, prvDoCellFollowMIB, OtherReply, RxFollowStop, semVars, TaskTypes
  <1> QED
    BY <1>1, <1>2, <1>3, <1>4 DEF TaskTypes

LEMMA MibTaskTypes ==
    ASSUME TaskTypes, vMibLoop PROVE TaskTypes'
  <1>1. UNCHANGED <<armed, go, command, VspaToCm4QMbox1, requests>>
    BY DEF vMibLoop, MibUnlock, MibSearch, MibEstimate, MibInterpolate, MibEqualize, MibDecode,
           MibCorrect, MibReply, MibCommand, MibStep, timerVars
  <1>2. /\ schedule_mib' \in {"MIB_NOT_SCHEDULE", "MIB_ENABLE", "MIB_SCHEDULE"}
        /\ cons_msd_ssb_det' \in 0 .. MaxMissed - 1
    BY Zeros DEF vMibLoop, MibUnlock, MibSearch, MibEstimate, MibInterpolate, MibEqualize, MibDecode,
           MibCorrect, MibReply, MibCommand, scheduleVars, TaskTypes
  <1>3. mib_pc' \in {"unlock", "busy", "correct", "reply"} \cup Pbch \cup {"interpolate"}
    BY DEF vMibLoop, MibUnlock, MibSearch, MibEstimate, MibInterpolate, MibEqualize, MibDecode,
           MibCorrect, MibReply, MibCommand, MibStep, Pbch
  <1>4. /\ synced' \in BOOLEAN /\ xSemMIBTaskUnlock' \in BOOLEAN
        /\ spoilt' \subseteq {"interrupted", "wrapped", "raced"}
    BY DEF vMibLoop, MibUnlock, MibSearch, MibEstimate, MibInterpolate, MibEqualize, MibDecode,
           MibCorrect, MibReply, MibCommand, semVars, historyVars, TaskTypes
  <1> QED
    BY <1>1, <1>2, <1>3, <1>4 DEF TaskTypes

LEMMA TypesStep ==
    ASSUME Known, ClockTypes, TaskTypes, FrameNext
    PROVE  ClockTypes' /\ TaskTypes'
  BY ClockTypesStep, VspaTaskTypes, SchedTaskTypes, TrackTaskTypes, MibTaskTypes DEF FrameNext

-------------------------------------------------------------------------------
(* The clock of the cell.                                                  *)
(*                                                                         *)
(* A MIB goes through three places, at one of which it is: it waits in the *)
(* mailbox or with the VSPA for the next tick; it is captured, its reply   *)
(* under way to vMibLoop or the semaphore given for it; it is in the hands *)
(* of vMibLoop.  On this way the distance between the cell's time and the  *)
(* firmware's tick count is what it was at the capture, so that the ticks  *)
(* counted since are the time the MIB is old.                              *)

Capture == {<<"MIB", TRUE>>}
MibReplies == Count(VspaToCm4QMbox1, Capture)
Captures == MibReplies + One(xSemMIBTaskUnlock)

Waiting == MibCommands # 0 \/ op_mode = "MIB"
Captured == Captures # 0
InHand == mib_pc # "unlock"
Undone == Waiting \/ Captured \/ (InHand /\ mib_pc # "reply")

\* A time that the firmware keeps, when the tick in the queue will be counted.
Lag == Ticks(VspaToCm4QMbox0) # 0
Due(x) == IF Lag THEN After(x) ELSE x

Before(x) == IF x = 0 THEN Cycle - 1 ELSE x - 1
Clock == TimeOf(gnb_sfn, gnb_sf)

Clean == spoilt \subseteq {"wrapped"}

OneMib ==
    /\ Captures <= 1
    /\ ~ (Waiting /\ Captured) /\ ~ (Waiting /\ InHand) /\ ~ (Captured /\ InHand)

Elapsed ==
    /\ Waiting => mib_scheduled_tti_cnt = ue /\ ~ Lag
    /\ Captured => Ahead(cell, Due(ue)) = Ahead(mib_cell, mib_scheduled_tti_cnt)
    /\ InHand /\ mib_pc # "reply" => Ahead(cell, Due(ue)) = Ahead(mib_time, mib_scheduled_tti_cnt)
    /\ mib_pc = "correct" => gnb_sf = mib_time % SfPerFrame

ClockRight ==
    /\ Undone => spoilt = {} /\ ~ synced
    /\ synced => Due(Clock) = IF spoilt = {} THEN cell ELSE Before(cell)

MibInv == Clean => OneMib /\ Elapsed /\ ClockRight

LEMMA BeforeIsMod ==
    ASSUME NEW x \in CycleTime
    PROVE  /\ Before(x) \in CycleTime /\ (x + Cycle - 1) % Cycle = Before(x)
           /\ After(Before(x)) = x /\ Before(After(x)) = x
  <1>1. Cycle \in Nat \ {0} /\ x \in 0 .. Cycle - 1
    BY CycleType DEF CycleTime
  <1>2. PICK y \in Nat : y = x + Cycle - 1
    BY <1>1
  <1>3. y < 2 * Cycle
    BY <1>1, <1>2
  <1>4. y % Cycle = IF y < Cycle THEN y ELSE y - Cycle
    BY <1>1, <1>3, OnceAround
  <1> QED
    BY <1>1, <1>2, <1>4 DEF Before, After, CycleTime

\* An element is in a queue when it counts there.
LEMMA RangeCount ==
    ASSUME NEW S, NEW q \in Seq(S), NEW m
    PROVE  /\ Count(q, {m}) \in Nat
           /\ m \in Range(q) <=> Count(q, {m}) # 0
  <1>1. DOMAIN q = 1 .. Len(q)
    BY LenProperties
  <1>2. Count(q, {m}) = 0 <=> \A i \in 1 .. Len(q) : q[i] \notin {m}
    BY CountNone
  <1> QED
    BY <1>1, <1>2, CountType DEF Range

LEMMA UnderWay ==
    ASSUME Known, TaskTypes
    PROVE  /\ MibReplies \in Nat /\ Captures \in Nat
           /\ MibUnderWay <=> Waiting \/ Captured \/ InHand
  <1>1. /\ MibCommands \in Nat /\ ("MIB" \in Range(to_vspa) <=> MibCommands # 0)
    BY RangeCount DEF Known, QueueTypes, MibCommands
  <1>2. MibReplies \in Nat /\ (<<"MIB", TRUE>> \in Range(VspaToCm4QMbox1) <=> MibReplies # 0)
    BY RangeCount DEF Known, QueueTypes, MibReplies, Capture
  <1>3. Captures \in Nat /\ (Captures # 0 <=> MibReplies # 0 \/ xSemMIBTaskUnlock)
    BY <1>2 DEF Captures, One, TaskTypes
  <1> QED
    BY <1>1, <1>2, <1>3 DEF MibUnderWay, Waiting, Captured, InHand

LEMMA MibReplyCount ==
    ASSUME Known, NEW kind, NEW found \in BOOLEAN, <<kind, found>> \in Reply, VspaReply(kind, found)
    PROVE  MibReplies' = MibReplies + One(kind = "MIB" /\ found)
  <1>1. VspaToCm4QMbox1 \in Seq(Reply) /\ VspaToCm4QMbox1' = Append(VspaToCm4QMbox1, <<kind, found>>)
    BY DEF Known, QueueTypes, VspaReply
  <1>2. <<kind, found>> \in Capture <=> kind = "MIB" /\ found
    BY DEF Capture
  <1>3. MibReplies' = MibReplies + (IF <<kind, found>> \in Capture THEN 1 ELSE 0)
    BY <1>1, CountAppend DEF MibReplies
  <1> QED
    BY <1>2, <1>3 DEF One

\* A step after which no more is on the way than before, and that touches no time.
LEMMA MibSame ==
    ASSUME Known, Known', TaskTypes, TaskTypes', MibInv, Waiting' => Waiting, Captures' <= Captures,
           Ticks(VspaToCm4QMbox0)' = Ticks(VspaToCm4QMbox0),
           UNCHANGED <<ue, gnb_sfn, gnb_sf, cell, mib_cell, mib_time, mib_scheduled_tti_cnt,
                       mib_pc, synced, spoilt>>
    PROVE  MibInv'
  <1>1. Captures \in Nat
    BY UnderWay
  <1>2. MibReplies' \in Nat
    BY RangeCount DEF Known, QueueTypes, MibReplies, Capture
  <1>3. Captures' \in Nat
    <2>1. One(xSemMIBTaskUnlock)' \in {0, 1}
      BY DEF One
    <2> QED
      BY <1>2, <2>1 DEF Captures
  <1>4. UNCHANGED <<Lag, Due(ue), Due(Clock)>>
    BY DEF Lag, Due, Clock
  <1>5. (Captured' => Captured) /\ (Undone' => Undone) /\ InHand' = InHand
    BY <1>1, <1>3 DEF Captured, Undone, InHand
  <1>6. (Clean /\ OneMib => OneMib') /\ Clean' = Clean
    BY <1>1, <1>3, <1>5 DEF OneMib, Clean
  <1>7. Elapsed => Elapsed'
    BY <1>4, <1>5 DEF Elapsed
  <1>8. ClockRight => ClockRight'
    BY <1>4, <1>5 DEF ClockRight
  <1> QED
    BY <1>6, <1>7, <1>8 DEF MibInv

\* The clock is void: no MIB is under way, or it is no longer clean.
LEMMA MibVoid ==
    ASSUME Known, Known', TaskTypes, TaskTypes', VoidClock,
           Waiting' => Waiting, Captures' <= Captures, mib_pc' = mib_pc
    PROVE  MibInv'
  <1>1. Captures \in Nat
    BY UnderWay
  <1>2. MibReplies' \in Nat
    BY RangeCount DEF Known, QueueTypes, MibReplies, Capture
  <1>3. Captures' \in Nat
    <2>1. One(xSemMIBTaskUnlock)' \in {0, 1}
      BY DEF One
    <2> QED
      BY <1>2, <2>1 DEF Captures
  <1>4. CASE MibUnderWay
    BY <1>4 DEF VoidClock, MibInv, Clean
  <1>5. CASE ~ MibUnderWay
    <2>1. ~ Waiting' /\ Captures' = 0 /\ mib_pc' = "unlock" /\ synced' = FALSE
      BY <1>1, <1>3, <1>5, UnderWay DEF VoidClock, Captured, InHand
    <2> QED
      BY <2>1 DEF MibInv, OneMib, Elapsed, ClockRight, Undone, Captured, InHand
  <1> QED
    BY <1>4, <1>5

\* A command other than a MIB leaves what is waiting as it was.
LEMMA WaitSend ==
    ASSUME NEW q \in Seq(VspaCommand), NEW c \in VspaCommand \ {"MIB"}
    PROVE  Count(Append(q, c), {"MIB"}) = Count(q, {"MIB"})
  <1>1. Count(Append(q, c), {"MIB"}) = Count(q, {"MIB"}) + One(c = "MIB") /\ Count(q, {"MIB"}) \in Nat
    BY MailboxSend, CountType
  <1> QED
    BY <1>1 DEF One

\* The VSPA reads its mailbox between two ticks: a MIB goes on waiting.
LEMMA MibVspaRead ==
    ASSUME Known, Known', TaskTypes, TaskTypes', MibInv, VspaRead PROVE MibInv'
  <1> DEFINE op == Head(to_vspa)
  <1>1. /\ to_vspa # <<>> /\ to_vspa' = Tail(to_vspa) /\ Execute(op, FALSE)
        /\ UNCHANGED <<VspaToCm4QMbox0, ue, gnb_sfn, gnb_sf, cell, mib_time, mib_scheduled_tti_cnt,
                       mib_pc, synced, spoilt, xSemMIBTaskUnlock>>
    BY DEF VspaRead, vars, clockVars, scheduleVars, mibVars, semVars, historyVars
  <1>2. MibCommands' = MibCommands - One(op = "MIB") /\ MibCommands \in Nat /\ MibCommands' \in Nat
    BY <1>1, MailboxRead, KnownTypes, KnownNext DEF MibCommands
  <1>3. CASE op \in Pbch
    <2>1. VspaReply("PBCH", TRUE) /\ op_mode' = "NO_CMD" /\ mib_cell' = mib_cell
      BY <1>1, <1>3 DEF Execute
    <2>2. MibReplies' = MibReplies + One("PBCH" = "MIB" /\ TRUE) /\ MibReplies \in Nat
      BY <2>1, MibReplyCount, UnderWay DEF Reply
    <2>3. MibReplies' = MibReplies
      BY <2>2 DEF One
    <2>4. Waiting' => Waiting
      BY <1>2, <2>1 DEF Waiting, One
    <2>5. Captures' <= Captures /\ Ticks(VspaToCm4QMbox0)' = Ticks(VspaToCm4QMbox0)
      BY <1>1, <2>3, UnderWay DEF Captures, Ticks
    <2> QED
      BY <1>1, <2>1, <2>4, <2>5, MibSame
  <1>4. CASE op \notin Pbch
    <2>1. op_mode' = op /\ UNCHANGED <<VspaToCm4QMbox1, mib_cell>>
      BY <1>1, <1>4 DEF Execute
    <2>2. Waiting' => Waiting
      BY <1>2, <2>1 DEF Waiting, One
    <2>3. Captures' = Captures /\ Captures \in Nat /\ Ticks(VspaToCm4QMbox0)' = Ticks(VspaToCm4QMbox0)
      BY <1>1, <2>1, UnderWay DEF Captures, MibReplies, Ticks
    <2>4. Captures' <= Captures
      BY <2>3
    <2> QED
      BY <1>1, <2>1, <2>2, <2>3, <2>4, MibSame
  <1> QED
    BY <1>3, <1>4

LEMMA MibVspaScan ==
    ASSUME Known, Known', TaskTypes, TaskTypes', MibInv, VspaScan PROVE MibInv'
  <1>1. /\ to_vspa # <<>> /\ to_vspa' = Tail(to_vspa) /\ op_mode' = "NO_CMD" /\ VoidClock
        /\ UNCHANGED <<mib_pc, xSemMIBTaskUnlock>>
    BY DEF VspaScan, mibVars, semVars
  <1>2. Waiting' => Waiting
    <2>1. MibCommands' = MibCommands - One(Head(to_vspa) = "MIB") /\ MibCommands \in Nat /\ MibCommands' \in Nat
      BY <1>1, MailboxRead, KnownTypes, KnownNext DEF MibCommands
    <2> QED
      BY <1>1, <2>1 DEF Waiting, One
  <1>3. Captures' <= Captures
    <2>1. PICK found \in BOOLEAN : VspaReply("SCAN", found)
      BY DEF VspaScan
    <2>2. MibReplies' = MibReplies + One("SCAN" = "MIB" /\ found) /\ MibReplies \in Nat
      BY <2>1, MibReplyCount, UnderWay DEF Reply
    <2>3. MibReplies' = MibReplies
      BY <2>2 DEF One
    <2> QED
      BY <1>1, <2>3, UnderWay DEF Captures
  <1> QED
    BY <1>1, <1>2, <1>3, MibVoid

\* The tick on which the VSPA captures the MIB.  The tick count has not counted
\* it, but will.
LEMMA MibVspaTick ==
    ASSUME Known, Known', ClockTypes, TaskTypes, TaskTypes', TickInv, MibInv, VspaTick
    PROVE  MibInv'
  <1> DEFINE reads == to_vspa # <<>> /\ Head(to_vspa) # "SCAN"
             op == IF reads THEN Head(to_vspa) ELSE op_mode
  <1>1. /\ go /\ MsInd /\ cell' = (cell + 1) % Cycle
        /\ to_vspa' = IF reads THEN Tail(to_vspa) ELSE to_vspa
        /\ Execute(op, TRUE)
        /\ UNCHANGED <<ue, gnb_sfn, gnb_sf, mib_time, mib_scheduled_tti_cnt, mib_pc, synced, spoilt,
                       xSemMIBTaskUnlock>>
    BY DEF VspaTick, clockVars, scheduleVars, mibVars, semVars, historyVars
  <1>2. sched = "blocked" /\ VspaToCm4QMbox0 = <<>> /\ MibCommands = 0
    BY <1>1 DEF TickInv
  <1>3. ~ Lag /\ Lag'
    BY <1>1, <1>2, TickArrives DEF Lag
  <1>4. /\ {cell, ue, mib_cell, mib_time, mib_scheduled_tti_cnt, Clock} \subseteq CycleTime
        /\ cell' = After(cell)
    BY <1>1, AfterIsMod, TimeOfType DEF ClockTypes, Clock
  <1>5. /\ Due(ue) = ue /\ Due(ue)' = After(ue)
        /\ Due(Clock) = Clock /\ Due(Clock)' = After(Clock)
    BY <1>1, <1>3 DEF Due, Clock
  <1>6. MibCommands' = 0 /\ (op = "MIB" => op_mode = "MIB")
    <2>1. CASE reads
      <3>1. /\ MibCommands' = MibCommands - One(Head(to_vspa) = "MIB") /\ MibCommands' \in Nat
        BY <1>1, <2>1, MailboxRead, KnownNext DEF MibCommands
      <3>2. Head(to_vspa) # "MIB" /\ MibCommands' = 0
        <4>1. CASE Head(to_vspa) = "MIB"
          <5>1. One(Head(to_vspa) = "MIB") = 1
            BY <4>1 DEF One
          <5>2. MibCommands' = -1 /\ MibCommands' \in Nat
            BY <1>2, <3>1, <5>1
          <5> QED
            BY <5>2
        <4>2. CASE Head(to_vspa) # "MIB"
          <5>1. One(Head(to_vspa) = "MIB") = 0
            BY <4>2 DEF One
          <5> QED
            BY <1>2, <3>1, <4>2, <5>1
        <4> QED
          BY <4>1, <4>2
      <3> QED
        BY <2>1, <3>2
    <2>2. CASE ~ reads
      BY <1>1, <1>2, <2>2 DEF MibCommands
    <2> QED
      BY <2>1, <2>2
  <1>7. op_mode' # "MIB"
    <2> HIDE DEF op
    <2> QED
      BY <1>1 DEF Execute
  <1>8. ~ Waiting'
    BY <1>6, <1>7 DEF Waiting
  \* Either the MIB is captured now, or nothing is.
  <1>9. \/ Captures' = Captures /\ mib_cell' = mib_cell
        \/ Captures' = Captures + 1 /\ mib_cell' = cell /\ Waiting
    <2> HIDE DEF op
    <2>1. ASSUME NEW kind, NEW found \in BOOLEAN, <<kind, found>> \in Reply, VspaReply(kind, found)
          PROVE  Captures' = Captures + One(kind = "MIB" /\ found)
      BY <1>1, <2>1, MibReplyCount, UnderWay DEF Captures, One
    <2>2. CASE op \in Pbch
      <3>1. VspaReply("PBCH", TRUE) /\ mib_cell' = mib_cell /\ <<"PBCH", TRUE>> \in Reply
        BY <1>1, <2>2 DEF Execute, Pbch, Reply
      <3>2. Captures' = Captures + One("PBCH" = "MIB" /\ TRUE)
        BY <2>1, <3>1
      <3> QED
        BY <3>1, <3>2, UnderWay DEF One
    <2>3. CASE op \in {"SSB", "MIB"}
      <3>1. PICK found \in BOOLEAN : /\ VspaReply(op, found)
                                     /\ mib_cell' = IF op = "MIB" /\ found THEN cell ELSE mib_cell
        BY <1>1, <2>3 DEF Execute, Pbch
      <3>2. <<op, found>> \in Reply
        BY <2>3 DEF Reply
      <3>3. Captures' = Captures + One(op = "MIB" /\ found)
        BY <2>1, <3>1, <3>2
      <3> QED
        BY <1>6, <3>1, <3>3, UnderWay DEF One, Waiting
    <2>4. CASE op \notin Pbch \cup {"SSB", "MIB"}
      <3>1. UNCHANGED <<VspaToCm4QMbox1, mib_cell>>
        BY <1>1, <2>4 DEF Execute
      <3> QED
        BY <1>1, <3>1 DEF Captures, MibReplies
    <2> QED
      BY <2>2, <2>3, <2>4
  <1>10. SUFFICES ASSUME Clean' PROVE OneMib' /\ Elapsed' /\ ClockRight'
    BY DEF MibInv
  <1>11. OneMib /\ Elapsed /\ ClockRight /\ Captures \in Nat /\ InHand' = InHand
    BY <1>1, <1>10, UnderWay DEF MibInv, Clean, InHand
  <1>12. OneMib'
    BY <1>8, <1>9, <1>11 DEF OneMib, Captured
  <1>13. Undone' => Undone
    BY <1>1, <1>8, <1>9, <1>11 DEF Undone, Captured
  <1>14. Ahead(cell', Due(ue)') = Ahead(cell, ue)
    BY <1>4, <1>5, AheadType
  <1>15. Elapsed'
    <2>1. ASSUME Captured'
          PROVE  Ahead(cell', Due(ue)') = Ahead(mib_cell', mib_scheduled_tti_cnt')
      <3>1. CASE Captures' = Captures /\ mib_cell' = mib_cell
        BY <1>1, <1>5, <1>4, <1>11, <1>14, <2>1, <3>1 DEF Elapsed, Captured
      <3>2. CASE mib_cell' = cell /\ Waiting
        BY <1>1, <1>4, <1>11, <1>14, <3>2 DEF Elapsed
      <3> QED
        BY <1>9, <3>1, <3>2
    <2>2. InHand /\ mib_pc # "reply" => Ahead(cell', Due(ue)') = Ahead(mib_time, mib_scheduled_tti_cnt)
      BY <1>4, <1>5, <1>11, <1>14 DEF Elapsed
    <2> QED
      BY <1>1, <1>8, <1>11, <2>1, <2>2 DEF Elapsed
  <1>16. ClockRight'
    <2>1. Undone' => spoilt' = {} /\ ~ synced'
      BY <1>1, <1>11, <1>13 DEF ClockRight
    <2>2. ASSUME synced'
          PROVE  Due(Clock)' = IF spoilt' = {} THEN cell' ELSE Before(cell')
      <3>1. Clock = IF spoilt = {} THEN cell ELSE Before(cell)
        BY <1>1, <1>5, <1>11, <2>2 DEF ClockRight
      <3>2. After(Before(cell)) = cell /\ Before(After(cell)) = cell
        BY <1>4, BeforeIsMod
      <3> QED
        BY <1>1, <1>4, <1>5, <3>1, <3>2
    <2> QED
      BY <2>1, <2>2 DEF ClockRight
  <1> QED
    BY <1>12, <1>15, <1>16

\* A tick is counted: the clocks and the tick count move on by the one that was due.
LEMMA MibSchedTick ==
    ASSUME Known, Known', ClockTypes, TaskTypes, TaskTypes', TickInv, MibInv, SchedTick
    PROVE  MibInv'
  <1>1. /\ VspaToCm4QMbox0 # <<>> /\ Head(VspaToCm4QMbox0) = "MS_IND"
        /\ ue' = (ue + 1) % Cycle /\ gnb_sf' = (gnb_sf + 1) % SfPerFrame
        /\ gnb_sfn' = IF gnb_sf' = 0 THEN (gnb_sfn + 1) % Frames ELSE gnb_sfn
        /\ spoilt' = IF mib_pc = "correct" THEN spoilt \cup {"raced"} ELSE spoilt
        /\ UNCHANGED <<to_vspa, op_mode, VspaToCm4QMbox1, xSemMIBTaskUnlock, mib_pc, mib_time, mib_cell,
                       mib_scheduled_tti_cnt, cell, synced>>
    BY DEF SchedTick, vspaVars, semVars, mibVars, scheduleVars
  <1>2. Lag /\ ~ Lag'
    <2>1. /\ Ticks(VspaToCm4QMbox0)' = Ticks(VspaToCm4QMbox0) - 1
          /\ Ticks(VspaToCm4QMbox0) \in Nat /\ Ticks(VspaToCm4QMbox0)' \in Nat
      <3>1. PICK sends \in BOOLEAN : SchedReceive(sends)
        BY DEF SchedTick
      <3>2. Ticks(VspaToCm4QMbox0)' = Ticks(VspaToCm4QMbox0) - One(Head(VspaToCm4QMbox0) = "MS_IND")
        BY <3>1, TicksReceived
      <3> QED
        BY <1>1, <3>2, KnownTypes, KnownNext DEF One
    <2>2. Ticks(VspaToCm4QMbox0) <= 1
      BY <2>1 DEF TickInv, TickCount, One
    <2> QED
      BY <2>1, <2>2 DEF Lag
  <1>3. ue' = After(ue) /\ Clock' = After(Clock)
    BY <1>1, AfterIsMod, TickTime DEF ClockTypes, Clock
  <1>4. Due(ue)' = Due(ue) /\ Due(Clock)' = Due(Clock)
    BY <1>2, <1>3 DEF Due
  <1>5. UNCHANGED <<Waiting, Captures, Captured, InHand, Undone>>
    BY <1>1 DEF Waiting, MibCommands, Captures, MibReplies, Captured, InHand, Undone
  <1>6. SUFFICES ASSUME Clean' PROVE OneMib' /\ Elapsed' /\ ClockRight'
    BY DEF MibInv
  <1>7. OneMib /\ Elapsed /\ ClockRight /\ mib_pc # "correct" /\ spoilt' = spoilt
    BY <1>1, <1>6 DEF MibInv, Clean
  <1>8. OneMib'
    BY <1>5, <1>7 DEF OneMib
  <1>9. Elapsed'
    BY <1>1, <1>2, <1>4, <1>5, <1>7 DEF Elapsed
  <1>10. ClockRight'
    BY <1>1, <1>4, <1>5, <1>7 DEF ClockRight
  <1> QED
    BY <1>8, <1>9, <1>10

\* The command of a tick goes into the mailbox, after q.  A MIB starts anew: the
\* clock is void, and clean unless another one is under way.
LEMMA MibScheduled ==
    ASSUME Known, Known', TaskTypes, TaskTypes', TickInv, MibInv,
           NEW q \in Seq(VspaCommand), Count(q, {"MIB"}) = MibCommands, Scheduled(q),
           sched \in {"send", "mutex"},
           UNCHANGED <<VspaToCm4QMbox0, ue, gnb_sfn, gnb_sf, cell, mib_cell, mib_time, mib_pc, op_mode,
                       VspaToCm4QMbox1, xSemMIBTaskUnlock>>
    PROVE  MibInv'
  <1>1. to_vspa' = Append(q, command) /\ command \in VspaCommand /\ command \in {"SSB", "MIB"}
    BY MailboxSend DEF Scheduled, Known, QueueTypes, TaskTypes
  <1>2. UNCHANGED <<Captures, Captured, InHand>> /\ Ticks(VspaToCm4QMbox0)' = Ticks(VspaToCm4QMbox0)
    BY DEF Captures, MibReplies, Captured, InHand, Ticks
  <1>3. CASE command # "MIB"
    <2>1. MibCommands' = MibCommands
      BY <1>1, <1>3, WaitSend DEF MibCommands
    <2>2. Waiting' => Waiting
      BY <2>1 DEF Waiting
    <2>3. Captures' <= Captures
      BY <1>2, UnderWay
    <2>4. UNCHANGED <<mib_scheduled_tti_cnt, synced, spoilt>>
      BY <1>3 DEF Scheduled, historyVars
    <2> QED
      BY <1>2, <2>2, <2>3, <2>4, MibSame
  <1>4. CASE command = "MIB" /\ MibUnderWay
    BY <1>4 DEF Scheduled, MibInv, Clean
  <1>5. CASE command = "MIB" /\ ~ MibUnderWay
    <2>1. /\ mib_scheduled_tti_cnt' = ue' /\ spoilt' = {} /\ ~ synced'
      BY <1>5 DEF Scheduled
    <2>2. ~ Captured /\ ~ InHand /\ Captures = 0 /\ mib_pc = "unlock"
      BY <1>5, UnderWay DEF Captured, InHand
    <2>3. ~ Lag'
      <3>1. Ticks(VspaToCm4QMbox0) = 0
        BY KnownTypes DEF TickInv, TickCount, One
      <3> QED
        BY <1>2, <3>1 DEF Lag
    <2>4. OneMib'
      BY <1>2, <2>2 DEF OneMib
    <2>5. Elapsed'
      BY <1>2, <2>1, <2>2, <2>3 DEF Elapsed
    <2>6. ClockRight'
      BY <2>1 DEF ClockRight
    <2> QED
      BY <2>4, <2>5, <2>6 DEF MibInv
  <1> QED
    BY <1>3, <1>4, <1>5

LEMMA MibSchedStep ==
    ASSUME Known, Known', ClockTypes, TaskTypes, TaskTypes', TickInv, MibInv, Fire \/ vSchedularLoop
    PROVE  MibInv'
  <1>1. ASSUME UNCHANGED <<to_vspa, op_mode, VspaToCm4QMbox1, xSemMIBTaskUnlock>>
        PROVE  (Waiting' => Waiting) /\ Captures' <= Captures
    <2>1. UNCHANGED <<Waiting, Captures>>
      BY <1>1 DEF Waiting, MibCommands, Captures, MibReplies
    <2> QED
      BY <2>1, UnderWay
  <1>2. CASE Fire \/ SchedOther \/ (SchedBlock /\ UNCHANGED frameVars)
    <2>1. UNCHANGED <<to_vspa, op_mode, VspaToCm4QMbox1, xSemMIBTaskUnlock, ue, gnb_sfn, gnb_sf, cell,
                      mib_cell, mib_time, mib_scheduled_tti_cnt, mib_pc, synced, spoilt>>
      BY <1>2 DEF Fire, SchedOther, frameVars, clockVars, scheduleVars, vspaVars, semVars, mibVars,
                  historyVars
    <2>2. Ticks(VspaToCm4QMbox0)' = Ticks(VspaToCm4QMbox0)
      <3>1. CASE SchedOther
        <4>1. Ticks(VspaToCm4QMbox0)' = Ticks(VspaToCm4QMbox0) - One(Head(VspaToCm4QMbox0) = "MS_IND")
          BY <3>1, TicksReceived DEF SchedOther
        <4> QED
          BY <3>1, <4>1, KnownTypes DEF One, SchedOther
      <3>2. CASE UNCHANGED VspaToCm4QMbox0
        BY <3>2 DEF Ticks
      <3> QED
        BY <1>2, <3>1, <3>2 DEF Fire, SchedBlock, vars
    <2> QED
      BY <1>1, <2>1, <2>2, MibSame
  <1>3. CASE SchedTick
    BY <1>3, MibSchedTick
  <1>4. CASE SchedCommand
    <2>1. /\ sched = "send"
          /\ UNCHANGED <<VspaToCm4QMbox0, ue, gnb_sfn, gnb_sf, cell, mib_cell, mib_time, mib_pc, op_mode,
                         VspaToCm4QMbox1, xSemMIBTaskUnlock>>
      BY <1>4 DEF SchedCommand, SchedSend, clockVars, mibVars, semVars
    <2>2. CASE sched' = "ready"
      <3>1. Scheduled(to_vspa) /\ to_vspa \in Seq(VspaCommand) /\ Count(to_vspa, {"MIB"}) = MibCommands
        BY <1>4, <2>2 DEF SchedCommand, Known, QueueTypes, MibCommands
      <3> QED
        BY <2>1, <3>1, MibScheduled
    <2>3. CASE sched' # "ready"
      <3>1. UNCHANGED <<to_vspa, mib_scheduled_tti_cnt, synced, spoilt>>
        BY <1>4, <2>3 DEF SchedCommand, historyVars
      <3>2. Ticks(VspaToCm4QMbox0)' = Ticks(VspaToCm4QMbox0)
        BY <2>1 DEF Ticks
      <3> QED
        BY <1>1, <2>1, <3>1, <3>2, MibSame
    <2> QED
      BY <2>2, <2>3
  <1> QED
    BY <1>2, <1>3, <1>4 DEF vSchedularLoop

LEMMA ReplyParts ==
    ASSUME NEW r \in Reply
    PROVE  r[2] \in BOOLEAN /\ (r \in Capture <=> r[1] = "MIB" /\ r[2] = TRUE)
  <1>1. CASE r = <<"PBCH", TRUE>>
    BY <1>1 DEF Capture
  <1>2. CASE r \in {"SCAN", "SSB", "MIB"} \X BOOLEAN
    <2>1. PICK k \in {"SCAN", "SSB", "MIB"}, f \in BOOLEAN : r = <<k, f>>
      BY <1>2
    <2> QED
      BY <2>1 DEF Capture
  <1> QED
    BY <1>1, <1>2 DEF Reply

\* A reply that is not of a captured MIB.
LEMMA OtherReplyRead ==
    ASSUME Known, TaskTypes, NEW kind, NextReply(kind), UNCHANGED xSemMIBTaskUnlock,
           kind # "MIB" \/ ~ Head(VspaToCm4QMbox1)[2]
    PROVE  /\ Waiting' => Waiting
           /\ Captures' <= Captures
           /\ UNCHANGED <<VspaToCm4QMbox0, cell, mib_cell, mib_time, mib_pc>>
  <1>1. /\ VspaToCm4QMbox1 # <<>> /\ VspaToCm4QMbox1' = Tail(VspaToCm4QMbox1)
        /\ Head(VspaToCm4QMbox1)[1] = kind /\ VspaToCm4QMbox1 \in Seq(Reply)
        /\ UNCHANGED <<VspaToCm4QMbox0, cell, mib_cell, mib_time, mib_pc, to_vspa, op_mode>>
    BY DEF NextReply, vars, vspaVars, mibVars, Known, QueueTypes
  <1>2. Head(VspaToCm4QMbox1) \notin Capture
    <2>1. Head(VspaToCm4QMbox1) \in Reply
      BY <1>1, HeadTailProperties
    <2> QED
      BY <1>1, <2>1, ReplyParts
  <1>3. MibReplies' = MibReplies
    BY <1>1, <1>2, CountTail, UnderWay DEF MibReplies
  <1>4. UNCHANGED <<Waiting, Captures>>
    BY <1>1, <1>3 DEF Waiting, MibCommands, Captures
  <1> QED
    BY <1>1, <1>4, UnderWay

LEMMA MibVspaLoop ==
    ASSUME Known, Known', TaskTypes, TaskTypes', MibInv, vVSPALoop PROVE MibInv'
  <1>1. PICK kind \in {"SCAN", "SSB", "MIB", "PBCH"} : NextReply(kind)
    BY DEF vVSPALoop, prvDoTrackingUpdate, prvDoCellFollowMIB, OtherReply
  <1>2. ASSUME kind # "MIB" \/ ~ Head(VspaToCm4QMbox1)[2], UNCHANGED xSemMIBTaskUnlock,
               UNCHANGED <<clockVars, mib_scheduled_tti_cnt, historyVars>> \/ StopFollow
        PROVE  MibInv'
    <2>1. /\ Waiting' => Waiting
          /\ Captures' <= Captures
          /\ UNCHANGED <<VspaToCm4QMbox0, cell, mib_cell, mib_time, mib_pc>>
      BY <1>1, <1>2, OtherReplyRead
    <2>2. CASE StopFollow
      BY <2>1, <2>2, MibVoid DEF StopFollow
    <2>3. CASE UNCHANGED <<clockVars, mib_scheduled_tti_cnt, historyVars>>
      <3>1. UNCHANGED <<ue, gnb_sfn, gnb_sf, mib_scheduled_tti_cnt, synced, spoilt>>
        BY <2>3 DEF clockVars, historyVars
      <3>2. Ticks(VspaToCm4QMbox0)' = Ticks(VspaToCm4QMbox0)
        BY <2>1 DEF Ticks
      <3> QED
        BY <2>1, <3>1, <3>2, MibSame
    <2> QED
      BY <1>2, <2>2, <2>3
  <1>3. CASE prvDoTrackingUpdate
    <2>1. UNCHANGED <<clockVars, mib_scheduled_tti_cnt, historyVars>> \/ StopFollow
      BY <1>3 DEF prvDoTrackingUpdate, Missed, Tracked, scheduleVars
    <2>2. kind = "SSB" /\ UNCHANGED xSemMIBTaskUnlock
      BY <1>1, <1>3 DEF prvDoTrackingUpdate, NextReply
    <2> QED
      BY <1>2, <2>1, <2>2
  <1>4. CASE OtherReply
    <2>1. kind # "MIB" /\ UNCHANGED xSemMIBTaskUnlock
      BY <1>1, <1>4 DEF OtherReply, NextReply
    <2>2. UNCHANGED <<clockVars, mib_scheduled_tti_cnt, historyVars>>
      BY <1>4 DEF OtherReply, scheduleVars
    <2> QED
      BY <1>2, <2>1, <2>2
  <1>5. CASE prvDoCellFollowMIB
    <2>1. /\ NextReply("MIB") /\ kind = "MIB"
          /\ xSemMIBTaskUnlock' = (xSemMIBTaskUnlock \/ Head(VspaToCm4QMbox1)[2])
          /\ UNCHANGED <<clockVars, mib_scheduled_tti_cnt, historyVars>>
      BY <1>1, <1>5 DEF prvDoCellFollowMIB, NextReply, scheduleVars
    <2>2. /\ VspaToCm4QMbox1 # <<>> /\ VspaToCm4QMbox1' = Tail(VspaToCm4QMbox1)
          /\ Head(VspaToCm4QMbox1)[1] = "MIB" /\ VspaToCm4QMbox1 \in Seq(Reply)
          /\ UNCHANGED <<VspaToCm4QMbox0, cell, mib_cell, mib_time, mib_pc, to_vspa, op_mode>>
      BY <2>1 DEF NextReply, vars, vspaVars, mibVars, Known, QueueTypes
    <2>3. Head(VspaToCm4QMbox1) \in Reply
      BY <2>2, HeadTailProperties
    <2>4. Head(VspaToCm4QMbox1)[2] \in BOOLEAN
      BY <2>3, ReplyParts
    <2>5. CASE Head(VspaToCm4QMbox1)[2] = FALSE
      BY <1>2, <2>1, <2>5 DEF TaskTypes
    <2>6. CASE Head(VspaToCm4QMbox1)[2] = TRUE
      \* The semaphore is given for the reply.
      <3>1. Head(VspaToCm4QMbox1) \in Capture
        BY <2>2, <2>3, <2>6, ReplyParts
      <3>2. MibReplies' = MibReplies - 1 /\ MibReplies \in Nat
        BY <2>2, <3>1, CountTail, UnderWay DEF MibReplies
      <3>3. xSemMIBTaskUnlock' = TRUE
        BY <2>1, <2>6
      <3>4. Captures' <= Captures
        BY <3>2, <3>3 DEF Captures, One
      <3>5. Waiting' => Waiting
        BY <2>2 DEF Waiting, MibCommands
      <3>6. Ticks(VspaToCm4QMbox0)' = Ticks(VspaToCm4QMbox0)
        BY <2>2 DEF Ticks
      <3>7. UNCHANGED <<ue, gnb_sfn, gnb_sf, mib_scheduled_tti_cnt, synced, spoilt>>
        BY <2>1 DEF clockVars, historyVars
      <3> QED
        BY <2>2, <3>4, <3>5, <3>6, <3>7, MibSame
    <2> QED
      BY <2>4, <2>5, <2>6
  <1> QED
    BY <1>3, <1>4, <1>5 DEF vVSPALoop

\* The tasks of vRxLoop's commands.
LEMMA MibRx ==
    ASSUME Known, Known', ClockTypes, TaskTypes, TaskTypes', TickInv, MibInv,
           RxCommand \/ RxFollow \/ RxFollowStop
    PROVE  MibInv'
  <1>0. /\ to_vspa \in Seq(VspaCommand)
        /\ "OTHER" \in VspaCommand \ {"MIB"} /\ "SCAN" \in VspaCommand \ {"MIB"}
    BY DEF Known, QueueTypes, VspaCommand
  <1>1. UNCHANGED <<VspaToCm4QMbox1, xSemMIBTaskUnlock, op_mode, cell, mib_cell, mib_time, mib_pc>>
    BY DEF RxCommand, RxFollow, RxFollowStop, vspaVars, semVars, mibVars
  <1>2. Captures' = Captures /\ Captures' <= Captures
    BY <1>1, UnderWay DEF Captures, MibReplies
  <1>3. ASSUME UNCHANGED <<VspaToCm4QMbox0, ue, gnb_sfn, gnb_sf, mib_scheduled_tti_cnt, synced, spoilt>>,
               \/ UNCHANGED to_vspa
               \/ \E c \in VspaCommand \ {"MIB"} : to_vspa' = Append(to_vspa, c)
        PROVE  MibInv'
    <2>1. MibCommands' = MibCommands
      BY <1>0, <1>3, WaitSend DEF MibCommands
    <2>2. (Waiting' => Waiting) /\ Ticks(VspaToCm4QMbox0)' = Ticks(VspaToCm4QMbox0)
      BY <1>1, <1>3, <2>1 DEF Waiting, Ticks
    <2> QED
      BY <1>1, <1>2, <1>3, <2>2, MibSame
  <1>4. CASE RxFollow
    BY <1>0, <1>3, <1>4 DEF RxFollow, vars, clockVars, historyVars
  <1>5. CASE RxFollowStop
    <2>1. VoidClock /\ UNCHANGED to_vspa
      BY <1>5 DEF RxFollowStop, StopFollow, vspaVars
    <2>2. Waiting' => Waiting
      BY <1>1, <2>1 DEF Waiting, MibCommands
    <2> QED
      BY <1>1, <1>2, <2>1, <2>2, MibVoid
  <1>6. CASE RxCommand
    <2>1. UNCHANGED <<ue, gnb_sfn, gnb_sf>>
      BY <1>6 DEF RxCommand, clockVars
    <2>2. UNCHANGED VspaToCm4QMbox0
      <3>1. CASE RxReceive
        <4>1. CoreWaits /\ sched = "blocked"
          BY <3>1 DEF RxReceive, RxMayRun, Known, IInv, TypeOK
        <4> QED
          BY <3>1, <4>1, KnownTypes DEF RxReceive
      <3> QED
        BY <1>6, <3>1 DEF RxCommand, RxSend, RxSent, RxTimeout
    <2>3. CASE RxSent /\ sched = "mutex"
      <3>1. Scheduled(Append(to_vspa, "OTHER"))
        BY <1>6, <2>3 DEF RxCommand, RxSend, RxReceive, RxTimeout, RxSent
      <3>2. /\ Append(to_vspa, "OTHER") \in Seq(VspaCommand)
            /\ Count(Append(to_vspa, "OTHER"), {"MIB"}) = MibCommands
        BY <1>0, MailboxSend, WaitSend DEF MibCommands
      <3> HIDE DEF MibCommands
      <3> QED
        BY <1>1, <2>1, <2>2, <2>3, <3>1, <3>2, MibScheduled
    <2>4. CASE ~ (RxSent /\ sched = "mutex")
      <3>1. /\ UNCHANGED <<mib_scheduled_tti_cnt, synced, spoilt>>
            /\ UNCHANGED to_vspa \/ to_vspa' = Append(to_vspa, "OTHER")
        BY <1>6, <2>4 DEF RxCommand, historyVars
      <3> QED
        BY <1>0, <1>3, <2>1, <2>2, <3>1
    <2> QED
      BY <2>3, <2>4
  <1> QED
    BY <1>4, <1>5, <1>6

\* vRficCoreTask: a tick that it takes makes the clock void.
LEMMA MibCore ==
    ASSUME Known, Known', TaskTypes, TaskTypes', MibInv, vRficCoreTask
    PROVE  MibInv'
  <1>1. UNCHANGED <<VspaToCm4QMbox1, xSemMIBTaskUnlock, op_mode, ue, gnb_sfn, gnb_sf, cell, mib_cell,
                    mib_time, mib_pc, mib_scheduled_tti_cnt>>
    BY DEF vRficCoreTask, CoreCommand, CoreAnswer, frameVars, clockVars, scheduleVars, vspaVars,
           semVars, mibVars
  <1>2. Captures' <= Captures
    BY <1>1, UnderWay DEF Captures, MibReplies
  <1>3. MibCommands' = MibCommands
    <2>1. CASE CoreCommand
      <3> DEFINE sent == IF rx = "sending" THEN Append(to_vspa, "OTHER") ELSE to_vspa
      <3>1. to_vspa' = Append(sent, "OTHER")
        BY <2>1 DEF CoreCommand
      <3>2. to_vspa \in Seq(VspaCommand) /\ "OTHER" \in VspaCommand \ {"MIB"}
        BY DEF Known, QueueTypes, VspaCommand
      <3>3. sent \in Seq(VspaCommand) /\ Count(sent, {"MIB"}) = MibCommands
        BY <3>2, MailboxSend, WaitSend DEF MibCommands
      <3> HIDE DEF sent
      <3> QED
        BY <3>1, <3>2, <3>3, WaitSend DEF MibCommands
    <2>2. CASE CoreAnswer \/ UNCHANGED frameVars
      BY <2>2 DEF CoreAnswer, frameVars, vspaVars, MibCommands
    <2> QED
      BY <2>1, <2>2 DEF vRficCoreTask
  <1>4. Waiting' => Waiting
    BY <1>1, <1>3 DEF Waiting
  <1>5. CASE CoreAnswer /\ ind_taken' # ind_taken
    BY <1>1, <1>2, <1>4, <1>5, MibVoid DEF CoreAnswer
  <1>6. CASE ~ (CoreAnswer /\ ind_taken' # ind_taken)
    <2>1. UNCHANGED <<synced, spoilt>>
      BY <1>6 DEF vRficCoreTask, CoreCommand, CoreAnswer, frameVars, historyVars
    <2>2. Ticks(VspaToCm4QMbox0)' = Ticks(VspaToCm4QMbox0)
      <3>1. CASE UNCHANGED VspaToCm4QMbox0
        BY <3>1 DEF Ticks
      <3>2. CASE CoreAnswer /\ VspaToCm4QMbox0 # <<>>
        BY <1>6, <3>2, TickTaken, KnownTypes DEF CoreAnswer, One
      <3> QED
        BY <3>1, <3>2 DEF vRficCoreTask, CoreCommand, CoreAsk, CoreAnswer, CoreReceive, CoreGivesUp
    <2> QED
      BY <1>1, <1>2, <1>4, <2>1, <2>2, MibSame
  <1> QED
    BY <1>5, <1>6

\* vMibLoop takes the MIB into its hands, works on it, and is done.
LEMMA MibVMibLoop ==
    ASSUME Known, Known', ClockTypes, ClockTypes', TaskTypes, TaskTypes', MibInv, vMibLoop
    PROVE  MibInv'
  <1>1. /\ CoreWaits /\ sched = "blocked"
        /\ UNCHANGED <<VspaToCm4QMbox0, ue, mib_scheduled_tti_cnt, op_mode, mib_cell, VspaToCm4QMbox1, cell>>
    BY DEF vMibLoop, MibUnlock, MibSearch, MibEstimate, MibInterpolate, MibEqualize, MibDecode,
           MibCorrect, MibReply, MibCommand, MibStep, vars
  <1>2. ~ Lag /\ ~ Lag'
    BY <1>1, KnownTypes DEF Lag, Ticks
  <1>3. Due(ue) = ue /\ Due(ue)' = ue /\ Due(Clock) = Clock /\ Due(Clock)' = Clock'
    BY <1>1, <1>2 DEF Due
  <1>4. MibCommands' = MibCommands
    <2>1. \/ UNCHANGED to_vspa
          \/ \E c \in Pbch : to_vspa' = Append(to_vspa, c)
      BY DEF vMibLoop, MibUnlock, MibSearch, MibEstimate, MibInterpolate, MibEqualize, MibDecode,
             MibCorrect, MibReply, MibCommand, Pbch
    <2>2. to_vspa \in Seq(VspaCommand) /\ Pbch \subseteq VspaCommand \ {"MIB"}
      BY DEF Known, QueueTypes, VspaCommand, Pbch
    <2> QED
      BY <2>1, <2>2, WaitSend DEF MibCommands
  <1>5. Waiting' = Waiting /\ MibReplies' = MibReplies /\ MibReplies \in Nat /\ Captures \in Nat
    BY <1>1, <1>4, UnderWay DEF Waiting, MibReplies
  <1>6. SUFFICES ASSUME Clean' PROVE OneMib' /\ Elapsed' /\ ClockRight'
    BY DEF MibInv
  <1>7. OneMib /\ Elapsed /\ ClockRight
    <2>1. spoilt \subseteq spoilt'
      BY DEF vMibLoop, MibUnlock, MibSearch, MibEstimate, MibInterpolate, MibEqualize, MibDecode,
             MibCorrect, MibReply, MibCommand, historyVars
    <2> QED
      BY <1>6, <2>1 DEF MibInv, Clean
  <1>8. CASE MibUnlock
    <2>1. /\ xSemMIBTaskUnlock /\ ~ xSemMIBTaskUnlock' /\ mib_pc = "unlock" /\ mib_pc' = "busy"
          /\ mib_time' = mib_cell /\ UNCHANGED <<synced, spoilt, gnb_sfn, gnb_sf>>
      BY <1>8 DEF MibUnlock, MibStep, historyVars
    <2>2. Captures = MibReplies + 1 /\ Captures' = MibReplies
      BY <1>5, <2>1 DEF Captures, One
    <2>3. Captured /\ ~ Waiting /\ Captures' = 0
      BY <1>5, <1>7, <2>2 DEF OneMib, Captured
    <2>4. OneMib'
      BY <1>5, <2>3 DEF OneMib, Captured
    <2>5. Elapsed'
      BY <1>1, <1>3, <1>5, <1>7, <2>1, <2>3 DEF Elapsed, Captured, InHand
    <2>6. ClockRight'
      BY <1>7, <2>1, <2>3 DEF ClockRight, Undone
    <2> QED
      BY <2>4, <2>5, <2>6
  <1>9. ASSUME UNCHANGED <<xSemMIBTaskUnlock, mib_time>>, mib_pc \notin {"unlock", "correct", "reply"},
               mib_pc' # "unlock" /\ mib_pc' # "reply",
               UNCHANGED <<synced, spoilt>>, mib_pc' = "correct" => gnb_sf' = mib_time % SfPerFrame
        PROVE  OneMib' /\ Elapsed' /\ ClockRight'
    <2>1. Captures' = Captures /\ InHand /\ InHand'
      BY <1>5, <1>9 DEF Captures, InHand
    <2>2. OneMib'
      BY <1>5, <1>7, <2>1 DEF OneMib, Captured
    <2>3. Elapsed'
      BY <1>1, <1>3, <1>5, <1>7, <1>9, <2>1 DEF Elapsed, OneMib, Captured
    <2>4. ClockRight'
      BY <1>7, <1>9, <2>1 DEF ClockRight, Undone
    <2> QED
      BY <2>2, <2>3, <2>4
  \* The decoding fails, or the host is told of the MIB.
  <1>10. ASSUME UNCHANGED <<xSemMIBTaskUnlock, gnb_sfn, gnb_sf, synced, spoilt>>, mib_pc' = "unlock",
                mib_pc # "unlock"
         PROVE  OneMib' /\ Elapsed' /\ ClockRight'
    <2>1. Captures' = Captures /\ InHand /\ ~ InHand'
      BY <1>5, <1>10 DEF Captures, InHand
    <2>2. ~ Waiting' /\ Captures' = 0
      BY <1>5, <1>7, <2>1 DEF OneMib, Captured
    <2>3. OneMib'
      BY <2>1, <2>2 DEF OneMib, Captured
    <2>4. Elapsed'
      BY <1>10, <2>1, <2>2 DEF Elapsed, Captured
    <2>5. Clock' = Clock /\ ~ Undone'
      BY <1>10, <2>1, <2>2 DEF Clock, Undone, Captured
    <2>6. ClockRight'
      BY <1>1, <1>3, <1>7, <1>10, <2>5 DEF ClockRight
    <2> QED
      BY <2>3, <2>4, <2>6
  <1>11. CASE MibSearch \/ MibEstimate \/ MibInterpolate \/ MibEqualize
    BY <1>9, <1>11 DEF MibSearch, MibEstimate, MibInterpolate, MibEqualize, MibCommand, MibStep,
       historyVars, semVars
  <1>12. CASE MibDecode
    <2>1. /\ UNCHANGED <<xSemMIBTaskUnlock, mib_time, gnb_sfn, synced, spoilt>>
          /\ mib_pc = "PBCH_CHANNEL_EQUALIZER"
      BY <1>12 DEF MibDecode, MibStep, semVars, historyVars
    <2>2. \/ mib_pc' = "unlock" /\ UNCHANGED gnb_sf
          \/ mib_pc' = "correct" /\ gnb_sf' = mib_time % SfPerFrame
      BY <1>12 DEF MibDecode, MibStep
    <2> QED
      BY <1>9, <1>10, <2>1, <2>2
  <1>13. CASE MibReply
    BY <1>10, <1>13 DEF MibReply, MibStep, semVars, historyVars
  <1>14. CASE MibCorrect
    <2>1. /\ mib_pc = "correct" /\ mib_pc' = "reply" /\ synced' = TRUE
          /\ UNCHANGED <<xSemMIBTaskUnlock, mib_time>>
          /\ spoilt' = IF ue < mib_scheduled_tti_cnt THEN spoilt \cup {"wrapped"} ELSE spoilt
      BY <1>14 DEF MibCorrect, MibStep, semVars
    <2>2. InHand /\ InHand' /\ Undone /\ spoilt = {} /\ Captures' = Captures
      BY <1>5, <1>7, <2>1 DEF InHand, Undone, ClockRight, Captures
    <2>3. ~ Waiting' /\ Captures' = 0
      BY <1>5, <1>7, <2>2 DEF OneMib, Captured
    <2>4. OneMib'
      BY <2>3 DEF OneMib, Captured
    <2>5. Elapsed'
      BY <2>1, <2>3 DEF Elapsed, Captured
    <2>6. ~ Undone'
      BY <2>1, <2>3 DEF Undone, Captured
    \* Both clocks have come on by the same since the capture.
    <2>7. /\ gnb_sf = mib_time % SfPerFrame
          /\ Ahead(cell, ue) = Ahead(mib_time, mib_scheduled_tti_cnt)
      BY <1>3, <1>7, <2>1, <2>2 DEF Elapsed
    <2>8. Clock' = IF mib_time + mib_proc_delay < Cycle THEN mib_time + mib_proc_delay
                   ELSE mib_time + mib_proc_delay - Cycle
      BY <1>14, <2>7, CorrectedClock DEF Clock
    <2>9. /\ {cell, ue, mib_time, mib_scheduled_tti_cnt} \subseteq 0 .. Cycle - 1
          /\ Cycle \in Nat \ {0}
      BY CycleType DEF ClockTypes, CycleTime
    <2>10. cell = IF mib_time + Ahead(ue, mib_scheduled_tti_cnt) < Cycle
                  THEN mib_time + Ahead(ue, mib_scheduled_tti_cnt)
                  ELSE mib_time + Ahead(ue, mib_scheduled_tti_cnt) - Cycle
      BY <2>7, <2>9 DEF Ahead
    <2>11. CASE ue < mib_scheduled_tti_cnt
      <3>1. mib_proc_delay = Ahead(ue, mib_scheduled_tti_cnt) - 1
        BY <2>11, DelayType
      <3>2. Ahead(ue, mib_scheduled_tti_cnt) \in 1 .. Cycle - 1
        BY <2>9, <2>11 DEF Ahead
      <3>3. Clock' = Before(cell)
        BY <2>8, <2>9, <2>10, <3>1, <3>2 DEF Before
      <3>4. spoilt' # {}
        BY <2>1, <2>11
      <3> QED
        BY <1>1, <1>3, <2>4, <2>5, <2>6, <3>3, <3>4 DEF ClockRight
    <2>12. CASE ~ (ue < mib_scheduled_tti_cnt)
      <3>1. mib_proc_delay = Ahead(ue, mib_scheduled_tti_cnt)
        BY <2>12, DelayType
      <3>2. Clock' = cell
        BY <2>8, <2>10, <3>1
      <3>3. spoilt' = {}
        BY <2>1, <2>2, <2>12
      <3> QED
        BY <1>1, <1>3, <2>4, <2>5, <2>6, <3>2, <3>3 DEF ClockRight
    <2> QED
      BY <2>11, <2>12
  <1> QED
    BY <1>8, <1>11, <1>12, <1>13, <1>14 DEF vMibLoop

-------------------------------------------------------------------------------
(* The inductive invariant of a followed cell. *)

FrameInv == ClockTypes /\ TaskTypes /\ TickInv /\ Room /\ MibInv

LEMMA FrameInvInit == FrameInit => FrameInv
  <1> SUFFICES ASSUME FrameInit PROVE FrameInv
    OBVIOUS
  <1>1. to_vspa = <<>> /\ VspaToCm4QMbox0 = <<>> /\ VspaToCm4QMbox1 = <<>> /\ Len(<<>>) = 0
    BY DEF FrameInit, Init
  <1>2. Ticks(VspaToCm4QMbox0) = 0 /\ MibCommands = 0 /\ MibReplies = 0
    BY <1>1, CountEmpty DEF Ticks, MibCommands, MibReplies
  <1>3. ClockTypes
    BY Zeros DEF FrameInit, ClockTypes, CycleTime
  <1>4. TaskTypes
    <2>1. Len(VspaToCm4QMbox1) <= QLen
      BY <1>1, QLenAssumption
    <2>2. 0 \in 0 .. MaxRequests
      <3>1. MaxRequests \in Nat
        BY FramesAssumption
      <3> QED
        BY <3>1
    <2> QED
      BY <2>1, <2>2, Zeros DEF FrameInit, TaskTypes
  <1>5. TickCount = 0 /\ TickInv /\ Room
    BY <1>1, <1>2, QLenAssumption DEF FrameInit, Init, TickCount, TickInv, Room, One
  <1>6. Captures = 0 /\ ~ Waiting /\ mib_pc = "unlock" /\ ~ synced
    BY <1>2 DEF FrameInit, Captures, Waiting, One
  <1>7. MibInv
    BY <1>6 DEF MibInv, OneMib, Elapsed, ClockRight, Undone, Captured, InHand
  <1> QED
    BY <1>3, <1>4, <1>5, <1>7 DEF FrameInv

LEMMA FrameInvStep ==
    ASSUME Known, Known', FrameInv, [FrameNext]_<<vars, frameVars>>
    PROVE  FrameInv'
  <1>1. CASE UNCHANGED <<vars, frameVars>>
    <2>1. UNCHANGED <<VspaToCm4QMbox0, sched>>
      BY <1>1 DEF vars
    <2>2. UNCHANGED <<timerVars, clockVars, scheduleVars, command, vspaVars, VspaToCm4QMbox1, semVars,
                      mibVars, requests, cell, historyVars>>
      BY <1>1 DEF frameVars
    <2>3. ClockTypes' /\ TaskTypes'
      BY <2>2 DEF FrameInv, ClockTypes, TaskTypes, timerVars, clockVars, scheduleVars, vspaVars,
                  semVars, mibVars, historyVars
    <2>4. TickInv' /\ Room'
      BY <2>1, <2>2, TickSame DEF FrameInv, timerVars, vspaVars
    <2>5. MibInv'
      <3>1. UNCHANGED <<to_vspa, op_mode, xSemMIBTaskUnlock, ue, gnb_sfn, gnb_sf, mib_cell, mib_time,
                        mib_scheduled_tti_cnt, mib_pc, synced, spoilt>>
        BY <2>2 DEF clockVars, scheduleVars, vspaVars, semVars, mibVars, historyVars
      <3>2. UNCHANGED <<Waiting, Captures>> /\ Ticks(VspaToCm4QMbox0)' = Ticks(VspaToCm4QMbox0)
        BY <2>1, <2>2, <3>1 DEF Waiting, MibCommands, Captures, MibReplies, Ticks
      <3>3. Captures' <= Captures
        BY <3>2, UnderWay DEF FrameInv
      <3> QED
        BY <2>2, <2>3, <3>1, <3>2, <3>3, MibSame DEF FrameInv
    <2> QED
      BY <2>3, <2>4, <2>5 DEF FrameInv
  <1>2. CASE FrameNext
    <2>1. ClockTypes' /\ TaskTypes'
      BY <1>2, TypesStep DEF FrameInv
    <2>2. TickInv' /\ Room'
      BY <1>2, VspaTicks, SchedTicks, TaskTicks, CoreTicks DEF FrameInv, FrameNext
    <2>3. MibInv'
      <3>1. CASE Fire \/ vSchedularLoop
        BY <2>1, <3>1, MibSchedStep DEF FrameInv
      <3>2. CASE Vspa
        BY <2>1, <3>2, MibVspaTick, MibVspaRead, MibVspaScan DEF FrameInv, Vspa
      <3>3. CASE vVSPALoop
        BY <2>1, <3>3, MibVspaLoop DEF FrameInv
      <3>4. CASE vMibLoop
        BY <2>1, <3>4, MibVMibLoop DEF FrameInv
      <3>5. CASE RxCommand \/ RxFollow \/ RxFollowStop
        BY <2>1, <3>5, MibRx DEF FrameInv
      <3>6. CASE vRficCoreTask
        BY <2>1, <3>6, MibCore DEF FrameInv
      <3> QED
        BY <1>2, <3>1, <3>2, <3>3, <3>4, <3>5, <3>6 DEF FrameNext
    <2> QED
      BY <2>1, <2>2, <2>3 DEF FrameInv
  <1> QED
    BY <1>1, <1>2

LEMMA FrameInductive == FrameSpec => [](Known /\ FrameInv)
  <1>1. IInv /\ OutInv => Known
    BY DEF OutInv, Known
  <1>2. FrameSpec => []Known
    BY <1>1, FrameRefines, Inductive, OutInductive, PTL
  <1>3. ASSUME Known, Known', FrameInv, [FrameNext]_<<vars, frameVars>> PROVE FrameInv'
    BY <1>3, FrameInvStep
  <1> QED
    BY <1>2, <1>3, FrameInvInit, PTL DEF FrameSpec

\* Every variable of a followed cell keeps its type: no queue overflows, no clock
\* leaves its range and the task that counts the ticks leaves room for its command.
THEOREM FrameTypeCorrect == FrameSpec => []FrameTypeOK
  <1>1. Known /\ FrameInv => FrameTypeOK
    BY FrameTypes DEF FrameInv
  <1> QED
    BY <1>1, FrameInductive, PTL

\* The clock that vMibLoop has set shows the time of the cell, whatever tasks, ticks
\* and commands come in between, with any number of subframes and frames; when the
\* tick count has wrapped while the MIB was decoded it is behind by exactly one.  A
\* tick that vRficCoreTask has taken leaves it void.
THEOREM ClockIsRight == FrameSpec => []GnbTime
  <1>1. ASSUME Known, FrameInv, ClockSet, spoilt \subseteq {"wrapped"}
        PROVE  gnb_sfn * SfPerFrame + gnb_sf
                   = (IF spoilt = {} THEN cell ELSE (cell + Cycle - 1) % Cycle)
    <2>1. ClockRight /\ synced /\ CoreWaits /\ sched = "blocked"
      BY <1>1 DEF FrameInv, MibInv, Clean, ClockSet
    <2>2. ~ Lag
      BY <1>1, <2>1, KnownTypes DEF Lag
    <2>3. Clock = IF spoilt = {} THEN cell ELSE Before(cell)
      BY <2>1, <2>2 DEF ClockRight, Due
    <2>4. (cell + Cycle - 1) % Cycle = Before(cell)
      BY <1>1, BeforeIsMod DEF FrameInv, ClockTypes
    <2> QED
      BY <2>3, <2>4 DEF Clock, TimeOf
  <1>2. Known /\ FrameInv => GnbTime
    BY <1>1 DEF GnbTime
  <1> QED
    BY <1>2, FrameInductive, PTL
===============================================================================
