---------------------------- MODULE AviMailboxProofs ----------------------------
(***************************************************************************)
(* Safety of the mailbox from the CM4 to the VSPA, for any tasks, messages *)
(* and length of the queue, with a prompt and with a late interrupt.       *)
(***************************************************************************)
EXTENDS AviMailbox, SequenceTheorems, TLAPS

\* A task has its message from the call until it is queued or written, the
\* handler from the queue until it is written.
Hands ==
    /\ \A t \in Task : mbox[t] \in Msg <=> pc[t] \notin {"idle", "give"}
    /\ vspambox \in Msg <=> isr_pc \in {"msb", "lsb"}

\* No message is in two places.
Distinct ==
    /\ \A t, u \in Task : mbox[t] \in Msg /\ mbox[t] = mbox[u] => t = u
    /\ \A t \in Task : mbox[t] \in Msg => mbox[t] # vspambox /\ mbox[t] \notin Range(Cm4ToVspaQMbox0)
    /\ vspambox \notin Range(Cm4ToVspaQMbox0)
    /\ \A i, j \in 1 .. Len(Cm4ToVspaQMbox0) : Cm4ToVspaQMbox0[i] = Cm4ToVspaQMbox0[j] => i = j
    /\ host_mbox_status =>
          /\ host_out_lsb \in Msg /\ host_out_lsb # vspambox
          /\ host_out_lsb \notin Range(Cm4ToVspaQMbox0)
          /\ \A t \in Task : host_out_lsb # mbox[t]

\* Whatever has been accepted and is still on its way has not been read.
Accepted ==
    /\ Range(Cm4ToVspaQMbox0) \subseteq unread
    /\ vspambox \in Msg => vspambox \in unread
    /\ host_mbox_status => host_out_lsb \in unread

\* With a prompt handler: who is about to write the registers has them to
\* itself, be it a task or the handler.
Exclusive ==
    /\ isr_pc # "idle" => cm4_mbox_status
    /\ prompt =>
          /\ \A t \in Task : pc[t] \in {"msb", "lsb"} => ~ host_mbox_status /\ ~ cm4_mbox_status
          /\ isr_pc \in {"msb", "lsb"} => ~ host_mbox_status
          /\ isr_pc = "idle" /\ cm4_mbox_status => ~ host_mbox_status

IInv == TypeOK /\ Hands /\ Distinct /\ Accepted /\ Exclusive

-------------------------------------------------------------------------------
(* The queue. *)

LEMMA RangeAppend ==
    ASSUME NEW S, NEW q \in Seq(S), NEW m \in S
    PROVE  /\ Range(Append(q, m)) = Range(q) \cup {m}
           /\ Append(q, m) \in Seq(S) /\ Len(Append(q, m)) = Len(q) + 1 /\ Len(q) \in Nat
  <1> DEFINE p == Append(q, m)
  <1>1. /\ p \in Seq(S) /\ Len(p) = Len(q) + 1 /\ Len(q) \in Nat
        /\ \A i \in 1 .. Len(q) : p[i] = q[i]
        /\ p[Len(q) + 1] = m
    BY AppendProperties, LenProperties
  <1>2. DOMAIN p = 1 .. Len(q) + 1 /\ DOMAIN q = 1 .. Len(q)
    BY <1>1, LenProperties
  <1>3. ASSUME NEW x PROVE x \in Range(p) <=> x \in Range(q) \cup {m}
    <2>1. x \in Range(p) <=> \E i \in 1 .. Len(q) + 1 : x = p[i]
      BY <1>2 DEF Range
    <2>2. x \in Range(q) <=> \E i \in 1 .. Len(q) : x = q[i]
      BY <1>2 DEF Range
    <2> HIDE DEF p
    <2> QED
      BY <1>1, <2>1, <2>2
  <1> QED
    BY <1>1, <1>3

LEMMA RangeType ==
    ASSUME NEW S, NEW q \in Seq(S) PROVE Range(q) \subseteq S
  BY ElementOfSeq, LenProperties DEF Range

LEMMA RangeTail ==
    ASSUME NEW S, NEW q \in Seq(S), q # <<>>,
           \A i, j \in 1 .. Len(q) : q[i] = q[j] => i = j
    PROVE  /\ Range(Tail(q)) = Range(q) \ {Head(q)} /\ Head(q) \in Range(q) /\ Head(q) \in S
           /\ Tail(q) \in Seq(S) /\ Len(Tail(q)) = Len(q) - 1 /\ Len(q) \in Nat
           /\ \A i, j \in 1 .. Len(Tail(q)) : Tail(q)[i] = Tail(q)[j] => i = j
  <1> DEFINE t == Tail(q)
  <1>1. /\ t \in Seq(S) /\ Len(q) \in Nat /\ Len(q) > 0 /\ Len(t) = Len(q) - 1
        /\ Head(q) = q[1] /\ Head(q) \in S
        /\ \A i \in 1 .. Len(t) : t[i] = q[i + 1]
    BY HeadTailProperties, LenProperties, EmptySeq
  <1>2. DOMAIN t = 1 .. Len(q) - 1 /\ DOMAIN q = 1 .. Len(q)
    BY <1>1, LenProperties
  <1> HIDE DEF t
  <1>3. ASSUME NEW x PROVE x \in Range(t) <=> x \in Range(q) /\ x # q[1]
    <2>1. x \in Range(t) <=> \E i \in 1 .. Len(q) - 1 : x = q[i + 1]
      BY <1>1, <1>2 DEF Range
    <2>2. x \in Range(q) <=> \E i \in 1 .. Len(q) : x = q[i]
      BY <1>2 DEF Range
    <2>3. ASSUME NEW i \in 1 .. Len(q), i # 1, x = q[i] PROVE \E k \in 1 .. Len(q) - 1 : x = q[k + 1]
      <3>1. i - 1 \in 1 .. Len(q) - 1 /\ (i - 1) + 1 = i
        BY <1>1, <2>3
      <3> QED
        BY <2>3, <3>1
    <2>4. \A k \in 1 .. Len(q) - 1 : k + 1 \in 1 .. Len(q) /\ k + 1 # 1
      BY <1>1
    <2>5. 1 \in 1 .. Len(q)
      BY <1>1
    <2> QED
      BY <2>1, <2>2, <2>3, <2>4, <2>5
  <1>4. q[1] \in Range(q)
    BY <1>1, <1>2 DEF Range
  <1>5. \A i, j \in 1 .. Len(t) : t[i] = t[j] => i = j
    BY <1>1
  <1> QED
    BY <1>1, <1>3, <1>4, <1>5 DEF t

LEMMA InjectiveAppend ==
    ASSUME NEW S, NEW q \in Seq(S), NEW m \in S, m \notin Range(q),
           \A i, j \in 1 .. Len(q) : q[i] = q[j] => i = j
    PROVE  \A i, j \in 1 .. Len(Append(q, m)) : Append(q, m)[i] = Append(q, m)[j] => i = j
  <1> DEFINE p == Append(q, m)
  <1>1. /\ Len(p) = Len(q) + 1 /\ Len(q) \in Nat
        /\ \A i \in 1 .. Len(q) : p[i] = q[i]
        /\ p[Len(q) + 1] = m
    BY AppendProperties, LenProperties
  <1>2. \A i \in 1 .. Len(q) : q[i] # m
    BY LenProperties DEF Range
  <1> HIDE DEF p
  <1>3. \A i, j \in 1 .. Len(p) : p[i] = p[j] => i = j
    BY <1>1, <1>2
  <1> QED
    BY <1>3 DEF p

-------------------------------------------------------------------------------
(* The invariant. *)

LEMMA InitInv == Init => IInv
  <1> SUFFICES ASSUME Init PROVE IInv
    OBVIOUS
  <1>1. <<>> \in Seq(Msg) /\ Len(<<>>) = 0 /\ Range(<<>>) = {}
    BY DEF Range
  <1>2. TypeOK
    <2>1. /\ Cm4ToVspaQMbox0 \in Seq(Msg) /\ Len(Cm4ToVspaQMbox0) <= QLen
          /\ pc \in [Task -> {"idle", "take", "test", "queue", "msb", "lsb", "give"}]
          /\ mbox \in [Task -> Msg \cup {NoMsg}]
          /\ \A t \in Task : pc[t] = "idle"
      BY <1>1, QLenAssumption DEF Init
    <2> QED
      BY <2>1 DEF Init, TypeOK
  <1>3. Hands /\ Accepted /\ Exclusive
    BY <1>1, NoMsgAssumption DEF Init, Hands, Accepted, Exclusive
  <1>4. Distinct
    BY <1>1, NoMsgAssumption DEF Init, Distinct
  <1> QED
    BY <1>2, <1>3, <1>4 DEF IInv

LEMMA CallInv ==
    ASSUME IInv, NEW t \in Task, NEW m \in Msg, Call(t, m) PROVE IInv'
  <1> USE DEF Call, Running, Goto, IInv, registers, isrVars
  <1>1. /\ \A u \in Task : mbox[u] # m
        /\ vspambox # m /\ m \notin Range(Cm4ToVspaQMbox0)
        /\ host_mbox_status => m # host_out_lsb
    <2>1. DOMAIN mbox = Task
      BY DEF TypeOK
    <2> QED
      BY <2>1 DEF InHands, Range
  <1>2. TypeOK'
    BY DEF TypeOK
  <1>3. Hands'
    BY DEF TypeOK, Hands
  <1>4. Distinct'
    BY <1>1, NoMsgAssumption DEF TypeOK, Distinct
  <1>5. Accepted' /\ Exclusive'
    BY DEF TypeOK, Accepted, Exclusive
  <1> QED
    BY <1>2, <1>3, <1>4, <1>5

LEMMA MutexInv ==
    ASSUME IInv, NEW t \in Task, TakeMutex(t) \/ TestStatus(t) \/ GiveMutex(t) PROVE IInv'
  <1> USE DEF TakeMutex, TestStatus, GiveMutex, Running, Goto, IInv, registers, isrVars
  <1>1. UNCHANGED <<registers, Cm4ToVspaQMbox0, mbox, isrVars, unread>>
    OBVIOUS
  <1>2. TypeOK'
    BY NoMsgAssumption DEF TypeOK
  <1>3. Hands'
    BY DEF TypeOK, Hands
  <1>4. Distinct' /\ Accepted'
    BY <1>1 DEF Distinct, Accepted
  <1>5. Exclusive'
    BY DEF TypeOK, Exclusive
  <1> QED
    BY <1>2, <1>3, <1>4, <1>5

LEMMA EnqueueInv ==
    ASSUME IInv, NEW t \in Task, Enqueue(t) PROVE IInv'
  <1> USE DEF Enqueue, Running, Goto, IInv, registers, isrVars
  <1>1. /\ pc[t] = "queue" /\ mbox[t] \in Msg /\ mbox' = [mbox EXCEPT ![t] = NoMsg]
        /\ pc' = [pc EXCEPT ![t] = "give"]
        /\ UNCHANGED <<registers, Cm4ToVspaQMutex0, isrVars>>
    BY DEF Hands
  <1>2. CASE ~ (Len(Cm4ToVspaQMbox0) < QLen)
    <2>1. UNCHANGED <<Cm4ToVspaQMbox0, unread>>
      BY <1>2
    <2>2. TypeOK' /\ Hands' /\ Accepted' /\ Exclusive'
      BY <1>1, <2>1, NoMsgAssumption DEF TypeOK, Hands, Accepted, Exclusive
    <2>3. Distinct'
      BY <1>1, <2>1, NoMsgAssumption DEF TypeOK, Distinct
    <2> QED
      BY <2>2, <2>3
  <1>3. CASE Len(Cm4ToVspaQMbox0) < QLen
    <2>1. /\ Cm4ToVspaQMbox0' = Append(Cm4ToVspaQMbox0, mbox[t])
          /\ unread' = unread \cup {mbox[t]}
      BY <1>3
    <2>2. /\ Range(Cm4ToVspaQMbox0)' = Range(Cm4ToVspaQMbox0) \cup {mbox[t]}
          /\ Cm4ToVspaQMbox0' \in Seq(Msg) /\ Len(Cm4ToVspaQMbox0)' <= QLen
      <3>1. Cm4ToVspaQMbox0 \in Seq(Msg)
        BY DEF TypeOK
      <3>2. /\ Range(Cm4ToVspaQMbox0)' = Range(Cm4ToVspaQMbox0) \cup {mbox[t]}
            /\ Cm4ToVspaQMbox0' \in Seq(Msg) /\ Len(Cm4ToVspaQMbox0)' = Len(Cm4ToVspaQMbox0) + 1
            /\ Len(Cm4ToVspaQMbox0) \in Nat
        BY <1>1, <2>1, <3>1, RangeAppend
      <3> QED
        BY <1>3, <3>2, QLenAssumption
    <2>3. TypeOK'
      BY <1>1, <2>1, <2>2, NoMsgAssumption DEF TypeOK
    <2>4. Hands' /\ Exclusive'
      BY <1>1, NoMsgAssumption DEF TypeOK, Hands, Exclusive
    <2>5. Accepted'
      BY <1>1, <2>1, <2>2 DEF Accepted
    <2>6. \A i, j \in 1 .. Len(Cm4ToVspaQMbox0') : Cm4ToVspaQMbox0'[i] = Cm4ToVspaQMbox0'[j] => i = j
      BY <1>1, <2>1, InjectiveAppend DEF TypeOK, Distinct
    <2>7. Distinct'
      BY <1>1, <2>2, <2>6, NoMsgAssumption DEF TypeOK, Distinct
    <2> QED
      BY <2>3, <2>4, <2>5, <2>7
  <1> QED
    BY <1>2, <1>3

LEMMA WriteInv ==
    ASSUME IInv, NEW t \in Task, WriteMsb(t) \/ WriteLsb(t) PROVE IInv'
  <1> USE DEF Running, Goto, IInv, isrVars
  <1>1. CASE WriteMsb(t)
    <2> USE <1>1 DEF WriteMsb
    <2>1. TypeOK' /\ Hands' /\ Exclusive'
      BY DEF TypeOK, Hands, Exclusive
    <2>2. Distinct' /\ Accepted'
      BY DEF Distinct, Accepted
    <2> QED
      BY <2>1, <2>2
  <1>2. CASE WriteLsb(t)
    <2> USE <1>2 DEF WriteLsb
    <2>1. mbox[t] \in Msg
      BY DEF Hands
    <2>2. TypeOK'
      BY <2>1, NoMsgAssumption DEF TypeOK
    <2>3. Hands'
      BY <2>1, NoMsgAssumption DEF TypeOK, Hands
    <2>4. Exclusive'
      BY DEF TypeOK, Exclusive
    <2>5. Distinct'
      BY <2>1, NoMsgAssumption DEF TypeOK, Distinct
    <2>6. Accepted'
      BY <2>1 DEF Accepted
    <2> QED
      BY <2>2, <2>3, <2>4, <2>5, <2>6
  <1> QED
    BY <1>1, <1>2

LEMMA IsrInv ==
    ASSUME IInv, Isr PROVE IInv'
  <1> USE DEF IInv, registers, taskVars
  <1>1. CASE IsrDequeue /\ Cm4ToVspaQMbox0 = <<>>
    <2> USE <1>1 DEF IsrDequeue
    <2>1. TypeOK' /\ Hands' /\ Exclusive'
      BY DEF TypeOK, Hands, Exclusive
    <2>2. Distinct' /\ Accepted'
      BY DEF Distinct, Accepted
    <2> QED
      BY <2>1, <2>2
  <1>2. CASE IsrDequeue /\ Cm4ToVspaQMbox0 # <<>>
    <2> USE <1>2 DEF IsrDequeue
    <2>1. /\ isr_pc = "idle" /\ cm4_mbox_status /\ isr_pc' = "msb"
          /\ vspambox' = Head(Cm4ToVspaQMbox0) /\ Cm4ToVspaQMbox0' = Tail(Cm4ToVspaQMbox0)
          /\ UNCHANGED <<registers, taskVars, unread>>
      OBVIOUS
    <2>2. /\ Range(Cm4ToVspaQMbox0)' = Range(Cm4ToVspaQMbox0) \ {vspambox'}
          /\ vspambox' \in Range(Cm4ToVspaQMbox0) /\ vspambox' \in Msg
          /\ Cm4ToVspaQMbox0' \in Seq(Msg) /\ Len(Cm4ToVspaQMbox0)' <= QLen
          /\ \A i, j \in 1 .. Len(Cm4ToVspaQMbox0') : Cm4ToVspaQMbox0'[i] = Cm4ToVspaQMbox0'[j] => i = j
      BY <2>1, RangeTail, QLenAssumption DEF TypeOK, Distinct
    <2>3. TypeOK' /\ Hands' /\ Exclusive'
      BY <2>1, <2>2 DEF TypeOK, Hands, Exclusive
    <2>4. Distinct'
      BY <2>1, <2>2 DEF Distinct
    <2>5. Accepted'
      BY <2>1, <2>2 DEF Accepted
    <2> QED
      BY <2>3, <2>4, <2>5
  <1>3. CASE IsrMsb
    <2> USE <1>3 DEF IsrMsb
    <2>1. TypeOK' /\ Hands' /\ Exclusive'
      BY DEF TypeOK, Hands, Exclusive
    <2>2. Distinct' /\ Accepted'
      BY DEF Distinct, Accepted
    <2> QED
      BY <2>1, <2>2
  <1>4. CASE IsrLsb
    <2> USE <1>4 DEF IsrLsb
    <2>1. vspambox \in Msg
      BY DEF Hands
    <2>2. TypeOK' /\ Hands' /\ Exclusive'
      BY <2>1, NoMsgAssumption DEF TypeOK, Hands, Exclusive
    <2>3. Distinct'
      <3>1. NoMsg \notin Range(Cm4ToVspaQMbox0)
        BY RangeType, NoMsgAssumption DEF TypeOK
      <3> QED
        BY <2>1, <3>1, NoMsgAssumption DEF Distinct
    <2>4. Accepted'
      BY <2>1, NoMsgAssumption DEF Accepted
    <2> QED
      BY <2>2, <2>3, <2>4
  <1>5. CASE IsrClear
    <2> USE <1>5 DEF IsrClear
    <2>1. TypeOK' /\ Hands' /\ Exclusive'
      BY DEF TypeOK, Hands, Exclusive
    <2>2. Distinct' /\ Accepted'
      BY DEF Distinct, Accepted
    <2> QED
      BY <2>1, <2>2
  <1> QED
    BY <1>1, <1>2, <1>3, <1>4, <1>5 DEF Isr

LEMMA VspaReadInv ==
    ASSUME IInv, VspaRead PROVE IInv'
  <1> USE DEF VspaRead, IInv, taskVars, isrVars
  <1>1. TypeOK'
    BY DEF TypeOK
  <1>2. Hands' /\ Distinct'
    BY DEF Hands, Distinct
  <1>3. Exclusive'
    BY DEF TypeOK, Exclusive
  <1>4. Accepted'
    BY DEF Distinct, Accepted
  <1> QED
    BY <1>1, <1>2, <1>3, <1>4

LEMMA NextInv ==
    ASSUME IInv, [Next]_vars PROVE IInv'
  <1>1. CASE UNCHANGED vars
    BY <1>1 DEF vars, registers, taskVars, isrVars, IInv, TypeOK, Hands, Distinct, Accepted, Exclusive
  <1>2. ASSUME NEW t \in Task, (\E m \in Msg : Call(t, m)) \/ Send(t) PROVE IInv'
    BY <1>2, CallInv, MutexInv, EnqueueInv, WriteInv DEF Send
  <1> QED
    BY <1>1, <1>2, IsrInv, VspaReadInv DEF Next

\* The invariant holds whatever the tasks, the messages and the queue's length.
THEOREM Inductive == Spec => []IInv
  BY InitInv, NextInv, PTL DEF Spec

\* Every variable keeps its type, and the holder of the mutex is the one task in
\* the send.
THEOREM TypeCorrect == Spec => []TypeOK
  <1>1. IInv => TypeOK
    BY DEF IInv
  <1> QED
    BY <1>1, Inductive, PTL

\* The VSPA reads no message twice.
THEOREM NoneReadTwice == Spec => ReadOnce
  <1>1. IInv => (host_mbox_status => host_out_lsb \in unread)
    BY DEF IInv, Accepted
  <1>2. IInv => [ host_mbox_status /\ ~ host_mbox_status' /\ host_out_msb = host_out_lsb
                  => host_out_msb \in unread ]_vars
    BY <1>1
  <1> QED
    BY <1>2, Inductive, PTL DEF ReadOnce

\* With a prompt handler no message is written over before the VSPA has read it.
THEOREM NoneOverwritten == Spec => NothingOverwritten
  <1>1. ASSUME IInv, [Next]_vars, prompt, host_mbox_status, host_mbox_status'
        PROVE  UNCHANGED <<host_out_msb, host_out_lsb>>
    <2>1. ASSUME NEW t \in Task PROVE ~ WriteMsb(t) /\ ~ WriteLsb(t)
      BY <1>1 DEF WriteMsb, WriteLsb, Running, IInv, Exclusive
    <2>2. ~ IsrMsb /\ ~ IsrLsb
      BY <1>1 DEF IsrMsb, IsrLsb, IInv, Exclusive
    <2>3. CASE UNCHANGED vars
      BY <2>3 DEF vars, registers
    <2>4. ASSUME NEW t \in Task, (\E m \in Msg : Call(t, m)) \/ Send(t)
          PROVE  UNCHANGED <<host_out_msb, host_out_lsb>>
      BY <2>1, <2>4 DEF Send, Call, TakeMutex, TestStatus, Enqueue, GiveMutex, registers
    <2>5. CASE Isr \/ VspaRead
      BY <2>2, <2>5 DEF Isr, IsrDequeue, IsrClear, VspaRead, registers
    <2> QED
      BY <1>1, <2>3, <2>4, <2>5 DEF Next
  <1>2. IInv /\ [Next]_vars =>
            [ prompt /\ host_mbox_status /\ host_mbox_status'
              => UNCHANGED <<host_out_msb, host_out_lsb>> ]_vars
    BY <1>1
  <1> QED
    BY <1>2, Inductive, PTL DEF NothingOverwritten, Spec
===============================================================================
