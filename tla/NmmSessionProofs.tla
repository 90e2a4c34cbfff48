--------------------------- MODULE NmmSessionProofs ----------------------------
(***************************************************************************)
(* Safety of the command session for any number of threads, calls, kinds   *)
(* of requests and messages in the channels: types, that no command is     *)
(* answered twice, that without STOP requests the card has one guarded     *)
(* command at a time, and that a STOP answered with OK is true.            *)
(***************************************************************************)
EXTENDS NmmSession, FiniteSetTheorems, SequenceTheorems, TLAPS

-------------------------------------------------------------------------------
(* Types. *)

\* A message taken from, or put into, a channel.
LEMMA TailType ==
    ASSUME NEW S, NEW q \in Seq(S), Len(q) <= Capacity, q # <<>>
    PROVE  /\ Tail(q) \in Seq(S) /\ Len(Tail(q)) <= Capacity
           /\ Head(q) \in S
  BY HeadTailProperties, LenProperties, EmptySeq, CapacityAssumption

LEMMA AppendType ==
    ASSUME NEW S, NEW q \in Seq(S), NEW m \in S, Len(q) < Capacity
    PROVE  Append(q, m) \in Seq(S) /\ Len(Append(q, m)) <= Capacity
  BY AppendProperties, LenProperties, CapacityAssumption

LEMMA ReplyChannels ==
    ASSUME ChannelTypes, NEW type \in Request, NEW status \in {"OK", "ERR", "TIMEOUT"},
           Reply(type, status)
    PROVE  m2h' \in Seq(ReplyMessage) /\ Len(m2h') <= Capacity
  <1> DEFINE m == [type |-> type, status |-> status]
  <1>1. m \in ReplyMessage
    BY DEF ReplyMessage
  <1>2. CASE Len(m2h) < Capacity /\ ~ fw_reset_in_progress
    BY <1>1, <1>2, AppendType DEF Reply, ChannelTypes
  <1>3. CASE ~ (Len(m2h) < Capacity /\ ~ fw_reset_in_progress)
    BY <1>3 DEF Reply, ChannelTypes
  <1> QED
    BY <1>2, <1>3

\* A thread inside the library has a request.
Requesting == \A u \in User : user_pc[u] # "idle" => user_req[u] \in Request

\* The message that vRxLoop is not done with is still at the head of its queue,
\* and so is the reply in the hands of the poll thread until the card is reset.
\* Only a search, a STOP or a RESET can time out.
PollShape ==
    /\ poll_pc \in {"reset", "resetting"} => m2h # <<>> /\ Head(m2h).status = "TIMEOUT"
    /\ poll_pc = "finish" /\ ~ reset_done =>
          m2h # <<>> /\ Head(m2h).status # "TIMEOUT" /\ Head(m2h).type = poll_type
    /\ poll_pc = "mem_init" => reset_done
    /\ poll_pc \in {"idle", "reset", "resetting"} => ~ reset_done
    /\ \A i \in 1 .. Len(m2h) : m2h[i].type \in {"FOLLOW", "SCAN"} => m2h[i].status = "OK"

FwShape ==
    /\ fw_pc = "hung" => h2m # <<>> /\ Head(h2m) = "RESET"
    /\ fw_pc = "stopping" => h2m # <<>> /\ Head(h2m) = "STOP"

Shape == PollShape /\ FwShape

LEMMA InitType == Init => TypeOK /\ Requesting
  <1> SUFFICES ASSUME Init PROVE TypeOK /\ Requesting
    OBVIOUS
  <1>1. /\ <<>> \in Seq(Message) /\ <<>> \in Seq(ReplyMessage) /\ Len(<<>>) = 0
        /\ 0 <= Capacity
    BY CapacityAssumption
  <1>2. app \in Application /\ app.calls \in Nat
    BY ApplicationAssumption DEF Init
  <1>3. LibTypes
    BY Zenon DEF Init, LibTypes
  <1>4. UserTypes
    BY <1>2 DEF Init, UserTypes
  <1>5. ChannelTypes
    BY <1>1 DEF Init, ChannelTypes
  <1>6. PollTypes
    BY DEF Init, PollTypes
  <1>7. FwTypes
    BY Zenon DEF Init, FwTypes
  <1>8. HistoryTypes
    BY DEF Init, HistoryTypes
  <1>9. Requesting
    BY DEF Init, Requesting
  <1> QED
    BY <1>3, <1>4, <1>5, <1>6, <1>7, <1>8, <1>9 DEF TypeOK

\* The steps of the user threads leave poll thread and firmware alone.
LEMMA UserTypeOK ==
    ASSUME TypeOK, Requesting, UNCHANGED app, NEW u \in User,
           (\E r \in Request : Call(u, r)) \/ Library(u)
    PROVE  TypeOK' /\ Requesting'
  <1> USE DEF libVars, pollVars, fwVars, history
  <1>0. /\ app.calls \in Nat
        /\ \A r \in Request : r \in Message
        /\ "STOP" \in Message
        /\ LibTypes /\ UserTypes /\ ChannelTypes /\ PollTypes /\ FwTypes /\ HistoryTypes
    BY ApplicationAssumption DEF Message, Request, TypeOK, UserTypes
  <1>1. PollTypes' /\ FwTypes'
    BY <1>0 DEF PollTypes, FwTypes, Library, Call, Claim, Refuse, Accept, Send, SendFails,
                Sent, EnterStop, SendStop, StopWait
  <1>2. UserTypes' /\ Requesting'
    <2> USE <1>0 DEF UserTypes, Requesting, Goto
    <2>1. ASSUME NEW r \in Request, Call(u, r) PROVE UserTypes' /\ Requesting'
      BY <2>1 DEF Call
    <2>2. CASE Claim(u)
      BY <2>2 DEF Claim
    <2>3. CASE Refuse(u) \/ Accept(u)
      BY <2>3 DEF Refuse, Accept
    <2>4. CASE Send(u)
      BY <2>4 DEF Send
    <2>5. CASE SendFails(u) \/ Sent(u)
      BY <2>5 DEF SendFails, Sent
    <2>6. CASE EnterStop(u)
      BY <2>6 DEF EnterStop
    <2>7. CASE SendStop(u) \/ StopWait(u)
      BY <2>7 DEF SendStop, StopWait
    <2> QED
      BY <2>1, <2>2, <2>3, <2>4, <2>5, <2>6, <2>7 DEF Library
  <1>3. ChannelTypes'
    <2> USE <1>0 DEF ChannelTypes
    <2>1. CASE Send(u)
      <3>1. user_req[u] \in Message
        BY <2>1 DEF Send, Requesting
      <3> QED
        BY <2>1, <3>1, AppendType DEF Send, CanSend
    <2>2. CASE SendStop(u)
      BY <2>2, AppendType DEF SendStop, CanSend
    <2> QED
      BY <2>1, <2>2 DEF Library, Call, Claim, Refuse, Accept, SendFails, Sent,
                        EnterStop, StopWait
  <1>4. LibTypes'
    <2> USE <1>0 DEF LibTypes
    <2>1. ASSUME NEW r \in Request, Call(u, r) PROVE LibTypes'
      BY <2>1 DEF Call
    <2>2. CASE Claim(u)
      BY <2>2, Zenon DEF Claim
    <2>3. CASE Refuse(u)
      BY <2>3, Zenon DEF Refuse
    <2>4. CASE Send(u)
      BY <2>4, Zenon DEF Send
    <2>5. CASE SendFails(u)
      BY <2>5, Zenon DEF SendFails
    <2>6. CASE Sent(u)
      BY <2>6, Zenon DEF Sent
    <2>7. CASE EnterStop(u)
      BY <2>7, Zenon DEF EnterStop
    <2>8. CASE StopWait(u)
      BY <2>8, Zenon DEF StopWait
    <2>9. CASE Accept(u) \/ SendStop(u)
      BY <2>9 DEF Accept, SendStop
    <2> QED
      BY <2>1, <2>2, <2>3, <2>4, <2>5, <2>6, <2>7, <2>8, <2>9 DEF Library
  <1>5. HistoryTypes'
    <2> USE <1>0 DEF HistoryTypes
    <2>1. CASE Send(u)
      BY <2>1 DEF Send
    <2>2. CASE EnterStop(u)
      BY <2>2 DEF EnterStop
    <2>3. CASE SendStop(u) \/ StopWait(u)
      BY <2>3 DEF SendStop, StopWait, Less
    <2> QED
      BY <2>1, <2>2, <2>3 DEF Library, Call, Claim, Refuse, Accept, SendFails, Sent
  <1> QED
    BY <1>1, <1>2, <1>3, <1>4, <1>5 DEF TypeOK

LEMMA PollTypeOK ==
    ASSUME TypeOK, Requesting, Shape, UNCHANGED app, Poll
    PROVE  TypeOK' /\ Requesting'
  <1> USE DEF libVars, userVars, fwVars
  <1>0. /\ "MEM_INIT" \in Message /\ <<>> \in Seq(Message) /\ <<>> \in Seq(ReplyMessage)
        /\ Len(<<>>) = 0 /\ 0 <= Capacity
        /\ LibTypes /\ UserTypes /\ ChannelTypes /\ PollTypes /\ FwTypes /\ HistoryTypes
    BY CapacityAssumption DEF Message, TypeOK
  <1>1. UserTypes' /\ Requesting'
    BY <1>0 DEF UserTypes, Requesting, Poll, ProcessReply, ProcessStopReply, IgnoreReply,
                ResetBegin, ResetEnd, SendMemInit, Finish
  <1>2. ChannelTypes'
    <2> USE <1>0 DEF ChannelTypes
    <2>1. CASE IgnoreReply
      BY <2>1, TailType DEF IgnoreReply
    <2>2. CASE SendMemInit
      BY <2>2, AppendType DEF SendMemInit, CanSend
    <2>3. CASE Finish
      <3>1. reset_done \/ m2h # <<>>
        BY <2>3 DEF Finish, Shape, PollShape
      <3> QED
        BY <2>3, <3>1, TailType DEF Finish
    <2> QED
      BY <2>1, <2>2, <2>3 DEF Poll, ProcessReply, ProcessStopReply, ResetBegin, ResetEnd
  <1>3. PollTypes'
    <2>1. Guarded \subseteq Request /\ "STOP" \in Request
      BY DEF Guarded, Request
    <2>2. CASE ProcessReply \/ ProcessStopReply
      BY <1>0, <2>1, <2>2 DEF PollTypes, ProcessReply, ProcessStopReply
    <2> QED
      BY <1>0, <2>2 DEF PollTypes, Poll, IgnoreReply, ResetBegin, ResetEnd, SendMemInit,
                        Finish, pollVars
  <1>4. FwTypes'
    <2>1. CASE ResetEnd
      BY <1>0, <2>1, Zenon DEF FwTypes, ResetEnd
    <2> QED
      BY <1>0, <2>1 DEF FwTypes, Poll, ProcessReply, ProcessStopReply, IgnoreReply,
                        ResetBegin, SendMemInit, Finish
  <1>5. LibTypes'
    <2> USE <1>0 DEF LibTypes
    <2>1. CASE ProcessReply
      BY <2>1, Zenon DEF ProcessReply
    <2>2. CASE ProcessStopReply
      BY <2>2, Zenon DEF ProcessStopReply
    <2>3. CASE ResetBegin
      BY <2>3, Zenon DEF ResetBegin
    <2>4. CASE ResetEnd
      BY <2>4, Zenon DEF ResetEnd
    <2>5. CASE SendMemInit
      BY <2>5, Zenon DEF SendMemInit
    <2>6. CASE Finish
      <3>1. is_active' \in BOOLEAN /\ reset_done' \in BOOLEAN
        BY <2>6, Zenon DEF Finish
      <3>2. crt_cmd' \in Request \cup {NoCmd}
        BY <2>6 DEF Finish
      <3> QED
        BY <2>6, <3>1, <3>2 DEF Finish
    <2> QED
      BY <2>1, <2>2, <2>3, <2>4, <2>5, <2>6 DEF Poll, IgnoreReply
  <1>6. HistoryTypes'
    <2> USE <1>0 DEF HistoryTypes, history
    <2>1. CASE ProcessReply
      BY <2>1 DEF ProcessReply
    <2>2. CASE ProcessStopReply
      BY <2>2 DEF ProcessStopReply, Less
    <2> QED
      BY <2>1, <2>2 DEF Poll, IgnoreReply, ResetBegin, ResetEnd, SendMemInit, Finish
  <1> QED
    BY <1>1, <1>2, <1>3, <1>4, <1>5, <1>6 DEF TypeOK

\* The firmware's steps leave the library alone.
LEMMA FwTypeOK ==
    ASSUME TypeOK, Requesting, Shape, UNCHANGED app, RxLoop \/ VspaDone \/ TimerExpires
    PROVE  TypeOK' /\ Requesting'
  <1> USE DEF libVars, userVars, pollVars, history
  <1>0. LibTypes /\ UserTypes /\ ChannelTypes /\ PollTypes /\ FwTypes /\ HistoryTypes
    BY DEF TypeOK
  <1>1. /\ UNCHANGED <<libVars, userVars, pollVars, history>>
    BY DEF RxLoop, SearchRefused, SearchAckTimeout, SearchStarted, DoStop, StopTimer,
           DoReset, DoOther, VspaDone, TimerExpires
  <1>2. LibTypes' /\ UserTypes' /\ Requesting' /\ PollTypes' /\ HistoryTypes'
    BY <1>0, <1>1 DEF LibTypes, UserTypes, Requesting, PollTypes, HistoryTypes
  <1>3. ChannelTypes'
    <2>0. /\ h2m \in Seq(Message) /\ Len(h2m) <= Capacity
          /\ h2m # <<>> => Tail(h2m) \in Seq(Message) /\ Len(Tail(h2m)) <= Capacity
          /\ m2h \in Seq(ReplyMessage) /\ Len(m2h) <= Capacity
      BY <1>0, TailType DEF ChannelTypes
    <2>1. CASE SearchRefused
      BY <1>0, <2>0, <2>1, ReplyChannels DEF SearchRefused, FwReady, ChannelTypes, Request
    <2>2. CASE SearchAckTimeout
      BY <1>0, <2>0, <2>2, ReplyChannels DEF SearchAckTimeout, FwReady, ChannelTypes, Request
    <2>3. CASE SearchStarted
      BY <2>0, <2>3 DEF SearchStarted, FwReady, ChannelTypes
    <2>4. ASSUME NEW status \in {"OK", "ERR", "TIMEOUT"}, DoStop(status) PROVE ChannelTypes'
      BY <1>0, <2>0, <2>4, ReplyChannels DEF DoStop, ChannelTypes, Request
    <2>5. CASE StopTimer
      <3>1. h2m # <<>>
        BY <2>5 DEF StopTimer, Shape, FwShape
      <3> QED
        BY <2>0, <2>5, <3>1 DEF StopTimer, ChannelTypes
    <2>6. CASE DoReset \/ VspaDone
      BY <2>0, <2>6 DEF DoReset, VspaDone, ChannelTypes
    <2>7. CASE DoOther
      BY <1>0, <2>0, <2>7, ReplyChannels DEF DoOther, ChannelTypes, Request
    <2>8. CASE TimerExpires
      <3>1. vspa_timer \in Request
        BY <1>0, <2>8 DEF TimerExpires, FwTypes, Guarded, Request
      <3> QED
        BY <1>0, <2>0, <2>8, <3>1, ReplyChannels DEF TimerExpires, ChannelTypes
    <2> QED
      BY <2>1, <2>2, <2>3, <2>4, <2>5, <2>6, <2>7, <2>8 DEF RxLoop
  <1>4. FwTypes'
    <2> USE <1>0 DEF FwTypes, Request, Guarded
    <2>1. CASE SearchRefused \/ DoOther
      BY <2>1 DEF SearchRefused, DoOther, fwVars
    <2>2. CASE SearchAckTimeout \/ SearchStarted
      BY <2>2 DEF SearchAckTimeout, SearchStarted
    <2>3. ASSUME NEW status \in {"OK", "ERR", "TIMEOUT"}, DoStop(status) PROVE FwTypes'
      <3>1. vspa' \in {NoCmd, vspa}
        BY <2>3 DEF DoStop
      <3> QED
        BY <2>3, <3>1 DEF DoStop
    <2>4. CASE StopTimer \/ DoReset \/ VspaDone
      BY <2>4 DEF StopTimer, DoReset, VspaDone
    <2>5. CASE TimerExpires
      <3>1. fw_reset_in_progress' \in BOOLEAN
        BY <2>5, Zenon DEF TimerExpires
      <3> QED
        BY <2>5, <3>1 DEF TimerExpires
    <2> QED
      BY <2>1, <2>2, <2>3, <2>4, <2>5 DEF RxLoop
  <1> QED
    BY <1>2, <1>3, <1>4 DEF TypeOK

-------------------------------------------------------------------------------
(* Counting commands and answers in the channels. *)

LEMMA AppendFacts ==
    ASSUME NEW S, NEW q \in Seq(S), NEW m \in S
    PROVE  /\ Len(q) \in Nat /\ Len(Append(q, m)) = Len(q) + 1
           /\ Append(q, m)[Len(q) + 1] = m
           /\ \A i \in 1 .. Len(q) : Append(q, m)[i] = q[i]
           /\ Append(q, m) # <<>>
           /\ q # <<>> => Head(Append(q, m)) = Head(q)
  <1>1. /\ Len(q) \in Nat /\ Len(Append(q, m)) = Len(q) + 1
        /\ Append(q, m)[Len(q) + 1] = m
        /\ \A i \in 1 .. Len(q) : Append(q, m)[i] = q[i]
        /\ Append(q, m) \in Seq(S)
    BY AppendProperties, LenProperties
  <1>2. Append(q, m) # <<>>
    BY <1>1, EmptySeq
  <1>3. ASSUME q # <<>> PROVE Head(Append(q, m)) = Head(q)
    <2>1. Len(q) > 0 /\ Head(q) = q[1] /\ Head(Append(q, m)) = Append(q, m)[1]
      BY <1>1, <1>2, <1>3, HeadTailProperties, EmptySeq
    <2> QED
      BY <1>1, <2>1
  <1> QED
    BY <1>1, <1>2, <1>3

LEMMA TailFacts ==
    ASSUME NEW S, NEW q \in Seq(S), q # <<>>
    PROVE  /\ Len(q) \in Nat /\ Len(q) > 0 /\ Len(Tail(q)) = Len(q) - 1
           /\ Head(q) = q[1] /\ Tail(q) \in Seq(S)
           /\ \A i \in 1 .. Len(q) - 1 : Tail(q)[i] = q[i + 1]
  BY HeadTailProperties, LenProperties, EmptySeq

\* Places counted from the second on are the places of the rest.
LEMMA Shift ==
    ASSUME NEW n \in Nat, n > 0, NEW S \in SUBSET (1 .. n)
    PROVE  Cardinality({i \in 1 .. n - 1 : i + 1 \in S})
               = Cardinality(S) - (IF 1 \in S THEN 1 ELSE 0)
  <1> DEFINE R == {i \in 1 .. n - 1 : i + 1 \in S}
             Later == S \ {1}
             f == [i \in R |-> i + 1]
  <1>1. IsFiniteSet(S) /\ IsFiniteSet(R)
    <2>1. /\ IsFiniteSet(1 .. n) /\ IsFiniteSet(1 .. n - 1)
          /\ R \in SUBSET (1 .. n - 1)
      BY FS_Interval
    <2> QED
      BY <2>1, FS_Subset
  <1>2. f \in Bijection(R, Later)
    <2>1. f \in [R -> Later]
      OBVIOUS
    <2>2. \A a, b \in R : f[a] = f[b] => a = b
      OBVIOUS
    <2>3. \A j \in Later : \E i \in R : f[i] = j
      <3> SUFFICES ASSUME NEW j \in Later PROVE \E i \in R : f[i] = j
        OBVIOUS
      <3>1. j - 1 \in R /\ (j - 1) + 1 = j
        OBVIOUS
      <3>2. f[j - 1] = j
        BY <3>1
      <3> QED
        BY <3>1, <3>2
    <2> HIDE DEF f, R, Later
    <2> QED
      BY <2>1, <2>2, <2>3 DEF Bijection, Injection, Surjection, IsInjective
  <1>3. Cardinality(Later) = Cardinality(R)
    <2>1. ExistsBijection(R, Later)
      BY <1>2 DEF ExistsBijection
    <2> HIDE DEF R, Later
    <2> QED
      BY <1>1, <2>1, FS_Bijection
  <1>4. Cardinality(Later) = Cardinality(S) - (IF 1 \in S THEN 1 ELSE 0)
    BY <1>1, FS_RemoveElement, FS_CardinalityType
  <1> QED
    BY <1>3, <1>4

\* How many messages of a channel are of a kind.
Places(q, K) == {i \in 1 .. Len(q) : q[i] \in K}
Count(q, K) == Cardinality(Places(q, K))

\* The guarded commands in a channel to the modem.
Commands(q) == Count(q, Guarded)

\* The replies to guarded commands in a channel to the host, up to the first
\* TIMEOUT: after that one the card is reset and the rest is never read.
AnswersAt(q) ==
    {i \in 1 .. Len(q) : /\ q[i].type \in Guarded
                         /\ \A j \in 1 .. i - 1 : q[j].status # "TIMEOUT"}
Answers(q) == Cardinality(AnswersAt(q))

NoTimeout(q) == \A i \in 1 .. Len(q) : q[i].status # "TIMEOUT"

LEMMA PlacesFinite ==
    ASSUME NEW S, NEW q \in Seq(S), NEW P \in SUBSET (1 .. Len(q))
    PROVE  IsFiniteSet(P) /\ Cardinality(P) \in Nat
  <1>1. IsFiniteSet(1 .. Len(q))
    BY LenProperties, FS_Interval
  <1> QED
    BY <1>1, FS_Subset, FS_CardinalityType

LEMMA CountType ==
    ASSUME NEW S, NEW q \in Seq(S), NEW K
    PROVE  /\ Count(q, K) \in Nat
           /\ q # <<>> /\ Head(q) \in K => Count(q, K) > 0
  <1>1. IsFiniteSet(Places(q, K)) /\ Count(q, K) \in Nat
    BY PlacesFinite DEF Places, Count
  <1>2. ASSUME q # <<>>, Head(q) \in K PROVE Count(q, K) # 0
    <2>1. 1 \in Places(q, K)
      BY <1>2, TailFacts DEF Places
    <2> QED
      BY <1>1, <2>1, FS_EmptySet DEF Count
  <1> QED
    BY <1>1, <1>2

LEMMA CountAppend ==
    ASSUME NEW S, NEW q \in Seq(S), NEW m \in S, NEW K
    PROVE  Count(Append(q, m), K) = Count(q, K) + (IF m \in K THEN 1 ELSE 0)
  <1> DEFINE p == Append(q, m)
             n == Len(q) + 1
  <1>1. /\ Len(q) \in Nat /\ Len(p) = n /\ p[n] = m
        /\ \A i \in 1 .. Len(q) : p[i] = q[i]
    BY AppendFacts
  <1>2. IsFiniteSet(Places(q, K)) /\ Count(q, K) \in Nat /\ n \notin Places(q, K)
    BY <1>1, PlacesFinite DEF Places, Count
  <1>3. CASE m \in K
    <2>1. Places(p, K) = Places(q, K) \cup {n}
      BY <1>1, <1>3 DEF Places
    <2> QED
      BY <1>2, <1>3, <2>1, FS_AddElement DEF Count
  <1>4. CASE m \notin K
    <2>1. Places(p, K) = Places(q, K)
      BY <1>1, <1>4 DEF Places
    <2> QED
      BY <1>2, <1>4, <2>1 DEF Count
  <1> QED
    BY <1>3, <1>4

LEMMA CountTail ==
    ASSUME NEW S, NEW q \in Seq(S), q # <<>>, NEW K
    PROVE  Count(Tail(q), K) = Count(q, K) - (IF Head(q) \in K THEN 1 ELSE 0)
  <1>1. Places(Tail(q), K) = {i \in 1 .. Len(q) - 1 : i + 1 \in Places(q, K)}
    BY TailFacts DEF Places
  <1>2. 1 \in Places(q, K) <=> Head(q) \in K
    BY TailFacts DEF Places
  <1>3. Places(q, K) \in SUBSET (1 .. Len(q)) /\ Len(q) \in Nat /\ Len(q) > 0
    BY TailFacts DEF Places
  <1> QED
    BY <1>1, <1>2, <1>3, Shift DEF Count

LEMMA CountEmpty ==
    ASSUME NEW K PROVE Count(<<>>, K) = 0
  <1>1. Places(<<>>, K) = {}
    BY DEF Places
  <1> QED
    BY <1>1, FS_EmptySet DEF Count

LEMMA AnswersType ==
    ASSUME NEW q \in Seq(ReplyMessage)
    PROVE  /\ Answers(q) \in Nat
           /\ q # <<>> /\ Head(q).type \in Guarded => Answers(q) > 0
  <1>1. IsFiniteSet(AnswersAt(q)) /\ Answers(q) \in Nat
    BY PlacesFinite DEF AnswersAt, Answers
  <1>2. ASSUME q # <<>>, Head(q).type \in Guarded PROVE Answers(q) # 0
    <2>1. 1 \in AnswersAt(q)
      BY <1>2, TailFacts DEF AnswersAt
    <2> QED
      BY <1>1, <2>1, FS_EmptySet DEF Answers
  <1> QED
    BY <1>1, <1>2

LEMMA AnswersAppend ==
    ASSUME NEW q \in Seq(ReplyMessage), NEW m \in ReplyMessage
    PROVE  /\ Answers(Append(q, m)) =
                 Answers(q) + (IF m.type \in Guarded /\ NoTimeout(q) THEN 1 ELSE 0)
           /\ NoTimeout(Append(q, m)) <=> NoTimeout(q) /\ m.status # "TIMEOUT"
  <1> DEFINE p == Append(q, m)
             n == Len(q) + 1
  <1>1. /\ Len(q) \in Nat /\ Len(p) = n /\ p[n] = m
        /\ \A i \in 1 .. Len(q) : p[i] = q[i]
    BY AppendFacts
  <1>2. IsFiniteSet(AnswersAt(q)) /\ Answers(q) \in Nat /\ n \notin AnswersAt(q)
    BY <1>1, PlacesFinite DEF AnswersAt, Answers
  <1>3. NoTimeout(p) <=> NoTimeout(q) /\ m.status # "TIMEOUT"
    BY <1>1 DEF NoTimeout
  <1>4. CASE m.type \in Guarded /\ NoTimeout(q)
    <2>1. AnswersAt(p) = AnswersAt(q) \cup {n}
      BY <1>1, <1>4 DEF AnswersAt, NoTimeout
    <2> QED
      BY <1>2, <1>3, <1>4, <2>1, FS_AddElement DEF Answers
  <1>5. CASE ~ (m.type \in Guarded /\ NoTimeout(q))
    <2>1. AnswersAt(p) = AnswersAt(q)
      BY <1>1, <1>5 DEF AnswersAt, NoTimeout
    <2> QED
      BY <1>2, <1>3, <1>5, <2>1 DEF Answers
  <1> QED
    BY <1>4, <1>5

LEMMA AnswersTail ==
    ASSUME NEW q \in Seq(ReplyMessage), q # <<>>, Head(q).status # "TIMEOUT"
    PROVE  /\ Answers(Tail(q)) = Answers(q) - (IF Head(q).type \in Guarded THEN 1 ELSE 0)
           /\ NoTimeout(Tail(q)) <=> NoTimeout(q)
  <1>0. /\ Len(q) \in Nat /\ Len(q) > 0 /\ Len(Tail(q)) = Len(q) - 1
        /\ Head(q) = q[1] /\ q[1].status # "TIMEOUT"
        /\ \A i \in 1 .. Len(q) - 1 : Tail(q)[i] = q[i + 1]
    BY TailFacts
  <1>1. AnswersAt(Tail(q)) = {i \in 1 .. Len(q) - 1 : i + 1 \in AnswersAt(q)}
    <2>1. ASSUME NEW i \in 1 .. Len(q) - 1
          PROVE  (\A j \in 1 .. i - 1 : Tail(q)[j].status # "TIMEOUT")
                    <=> (\A j \in 1 .. (i + 1) - 1 : q[j].status # "TIMEOUT")
      <3>1. ASSUME \A j \in 1 .. i - 1 : Tail(q)[j].status # "TIMEOUT",
                   NEW j \in 1 .. i
            PROVE  q[j].status # "TIMEOUT"
        <4>1. CASE j = 1
          BY <1>0, <4>1
        <4>2. CASE j # 1
          <5>1. j - 1 \in 1 .. i - 1 /\ (j - 1) + 1 = j
            BY <4>2
          <5> QED
            BY <1>0, <3>1, <5>1
        <4> QED
          BY <4>1, <4>2
      <3>2. ASSUME \A j \in 1 .. i : q[j].status # "TIMEOUT", NEW j \in 1 .. i - 1
            PROVE  Tail(q)[j].status # "TIMEOUT"
        BY <1>0, <3>2
      <3>3. (i + 1) - 1 = i
        OBVIOUS
      <3> QED
        BY <3>1, <3>2, <3>3
    <2> QED
      BY <1>0, <2>1 DEF AnswersAt
  <1>2. 1 \in AnswersAt(q) <=> Head(q).type \in Guarded
    BY <1>0 DEF AnswersAt
  <1>3. AnswersAt(q) \in SUBSET (1 .. Len(q))
    BY DEF AnswersAt
  <1>4. NoTimeout(Tail(q)) <=> NoTimeout(q)
    <2>1. ASSUME NoTimeout(Tail(q)), NEW i \in 1 .. Len(q) PROVE q[i].status # "TIMEOUT"
      <3>1. CASE i = 1
        BY <1>0, <3>1
      <3>2. CASE i # 1
        <4>1. i - 1 \in 1 .. Len(q) - 1 /\ (i - 1) + 1 = i
          BY <1>0, <3>2
        <4> QED
          BY <1>0, <2>1, <4>1 DEF NoTimeout
      <3> QED
        BY <3>1, <3>2
    <2>2. NoTimeout(q) => NoTimeout(Tail(q))
      BY <1>0 DEF NoTimeout
    <2> QED
      BY <2>1, <2>2 DEF NoTimeout
  <1> QED
    BY <1>0, <1>1, <1>2, <1>3, <1>4, Shift DEF Answers

-------------------------------------------------------------------------------
(* The balance of commands and answers. *)

\* What is still to come of the answers to guarded commands: one for each that
\* waits for vRxLoop, the replies on their way, and one for a running timer,
\* unless a TIMEOUT on its way brings the reset before.
Pending == Commands(h2m) - (IF fw_pc = "hung" THEN 1 ELSE 0)

Coming ==
    IF poll_pc \in {"reset", "resetting"} THEN 0
    ELSE Answers(m2h)
            - (IF poll_pc = "finish" /\ ~ reset_done /\ poll_type \in Guarded THEN 1 ELSE 0)

TimerDue == IF vspa_timer # NoCmd /\ NoTimeout(m2h) THEN 1 ELSE 0

Balance == answered + Pending + Coming + TimerDue <= sent

IInv == TypeOK /\ Requesting /\ Shape /\ Balance

LEMMA BalanceTypes ==
    ASSUME TypeOK, Shape
    PROVE  /\ Pending \in Nat /\ Coming \in Nat /\ (TimerDue = 0 \/ TimerDue = 1)
           /\ sent \in Nat /\ answered \in Nat
           /\ Commands(h2m) \in Nat /\ Answers(m2h) \in Nat
           /\ poll_pc \in {"reset", "resetting"} => TimerDue = 0
  <1>1. h2m \in Seq(Message) /\ m2h \in Seq(ReplyMessage) /\ sent \in Nat /\ answered \in Nat
    BY DEF TypeOK, ChannelTypes, HistoryTypes
  <1>2. Commands(h2m) \in Nat /\ Answers(m2h) \in Nat
    BY <1>1, CountType, AnswersType DEF Commands
  <1>3. Pending \in Nat
    <2>1. fw_pc = "hung" => Commands(h2m) > 0
      BY <1>1, CountType DEF Shape, FwShape, Guarded, Commands
    <2> QED
      BY <1>2, <2>1 DEF Pending
  <1>4. Coming \in Nat
    <2>1. poll_pc = "finish" /\ ~ reset_done /\ poll_type \in Guarded => Answers(m2h) > 0
      BY <1>1, AnswersType DEF Shape, PollShape
    <2> QED
      BY <1>2, <2>1 DEF Coming
  <1>5. poll_pc \in {"reset", "resetting"} => ~ NoTimeout(m2h)
    <2> SUFFICES ASSUME poll_pc \in {"reset", "resetting"} PROVE ~ NoTimeout(m2h)
      OBVIOUS
    <2>1. m2h # <<>> /\ Head(m2h).status = "TIMEOUT"
      BY DEF Shape, PollShape
    <2>2. 1 \in 1 .. Len(m2h) /\ Head(m2h) = m2h[1]
      BY <1>1, <2>1, TailFacts
    <2> QED
      BY <2>1, <2>2 DEF NoTimeout
  <1> QED
    BY <1>1, <1>2, <1>3, <1>4, <1>5 DEF TimerDue

\* A reply adds at most one answer to those that come.
LEMMA ReplyEffect ==
    ASSUME TypeOK, Shape, NEW type \in Request, NEW status \in {"OK", "ERR", "TIMEOUT"},
           Reply(type, status), type \in {"FOLLOW", "SCAN"} => status = "OK",
           UNCHANGED <<poll_pc, poll_type, reset_done>>
    PROVE  /\ PollShape'
           /\ (Coming' = Coming \/ Coming' = Coming + 1)
           /\ Coming' = Coming + 1 => type \in Guarded /\ NoTimeout(m2h)
           /\ Coming' = Coming + 1 /\ status = "TIMEOUT" => ~ NoTimeout(m2h)'
           /\ NoTimeout(m2h)' => NoTimeout(m2h)
  <1> DEFINE m == [type |-> type, status |-> status]
  <1>0. m2h \in Seq(ReplyMessage) /\ m \in ReplyMessage /\ Answers(m2h) \in Nat
        /\ m.type = type /\ m.status = status /\ Coming \in Nat
    BY BalanceTypes DEF TypeOK, ChannelTypes, ReplyMessage
  <1>1. CASE m2h' = m2h
    <2>1. PollShape'
      BY <1>1 DEF Shape, PollShape
    <2>2. Coming' = Coming /\ (NoTimeout(m2h)' <=> NoTimeout(m2h))
      BY <1>1 DEF Coming, Answers, AnswersAt, NoTimeout
    <2> QED
      BY <1>0, <2>1, <2>2
  <1>2. CASE m2h' = Append(m2h, m)
    <2>1. /\ Answers(m2h)' = Answers(m2h) + (IF type \in Guarded /\ NoTimeout(m2h) THEN 1 ELSE 0)
          /\ NoTimeout(m2h)' <=> NoTimeout(m2h) /\ status # "TIMEOUT"
      <3>1. /\ Answers(m2h)' = Answers(Append(m2h, m))
            /\ NoTimeout(m2h)' <=> NoTimeout(Append(m2h, m))
        BY <1>2 DEF Answers, AnswersAt, NoTimeout
      <3> HIDE DEF m
      <3> QED
        BY <1>0, <3>1, AnswersAppend
    <2>2. PollShape'
      <3> HIDE DEF m
      <3>1. /\ Len(m2h) \in Nat /\ Len(m2h') = Len(m2h) + 1 /\ m2h'[Len(m2h) + 1] = m
            /\ \A i \in 1 .. Len(m2h) : m2h'[i] = m2h[i]
            /\ m2h' # <<>> /\ (m2h # <<>> => Head(m2h') = Head(m2h))
        BY <1>0, <1>2, AppendFacts
      <3>2. \A i \in 1 .. Len(m2h') : i \in 1 .. Len(m2h) \/ i = Len(m2h) + 1
        BY <3>1
      <3>3. \A i \in 1 .. Len(m2h') : m2h'[i].type \in {"FOLLOW", "SCAN"} => m2h'[i].status = "OK"
        BY <1>0, <3>1, <3>2 DEF Shape, PollShape
      <3> QED
        BY <3>1, <3>3 DEF Shape, PollShape
    <2>3. /\ (Coming' = Coming \/ Coming' = Coming + 1)
          /\ Coming' = Coming + 1 => type \in Guarded /\ NoTimeout(m2h)
      BY <1>0, <2>1 DEF Coming
    <2> QED
      BY <1>0, <2>1, <2>2, <2>3
  <1> QED
    BY <1>1, <1>2 DEF Reply

\* Steps that touch neither the channels nor those who read them.
LEMMA QuietStep ==
    ASSUME IInv, UNCHANGED <<h2m, m2h, pollVars, fw_pc, vspa_timer, reset_done, sent, answered>>
    PROVE  Shape' /\ Balance'
  <1> USE DEF pollVars
  <1>1. Shape'
    BY DEF IInv, Shape, PollShape, FwShape
  <1>2. Pending' = Pending /\ Coming' = Coming /\ TimerDue' = TimerDue
    BY DEF Pending, Coming, TimerDue, Commands, Count, Places, Answers, AnswersAt, NoTimeout
  <1> QED
    BY <1>1, <1>2 DEF IInv, Balance

\* A message is put into the channel to the modem.
LEMMA PutCommand ==
    ASSUME IInv, NEW m \in Message, h2m' = Append(h2m, m),
           UNCHANGED <<m2h, poll_pc, reset_done, fw_pc, vspa_timer, answered>>,
           UNCHANGED poll_type \/ poll_pc = "idle",
           sent' = IF m \in Guarded THEN sent + 1 ELSE sent
    PROVE  FwShape' /\ (UNCHANGED poll_type => Balance')
  <1>1. h2m \in Seq(Message)
    BY DEF IInv, TypeOK, ChannelTypes
  <1>2. FwShape'
    BY <1>1, AppendFacts DEF IInv, Shape, FwShape
  <1>3. ASSUME UNCHANGED poll_type PROVE Balance'
    <2>1. Commands(h2m)' = Commands(h2m) + (IF m \in Guarded THEN 1 ELSE 0)
      <3>1. Commands(h2m)' = Count(Append(h2m, m), Guarded)
        BY DEF Commands, Count, Places
      <3> QED
        BY <1>1, <3>1, CountAppend DEF Commands
    <2>2. Coming' = Coming /\ TimerDue' = TimerDue
      BY <1>3 DEF Coming, TimerDue, Answers, AnswersAt, NoTimeout
    <2>3. /\ Commands(h2m) \in Nat /\ Coming \in Nat /\ (TimerDue = 0 \/ TimerDue = 1)
          /\ sent \in Nat /\ answered \in Nat
          /\ answered + Pending + Coming + TimerDue <= sent
      BY BalanceTypes DEF IInv, Balance
    <2>4. Pending' = Pending + (IF m \in Guarded THEN 1 ELSE 0) /\ Pending \in Nat
      BY <2>1, <2>3, BalanceTypes DEF Pending, IInv
    <2> QED
      BY <2>2, <2>3, <2>4 DEF Balance
  <1> QED
    BY <1>2, <1>3

LEMMA UserInv ==
    ASSUME IInv, UNCHANGED app, NEW u \in User,
           (\E r \in Request : Call(u, r)) \/ Library(u)
    PROVE  Shape' /\ Balance'
  <1> USE DEF libVars, fwVars, history
  <1>1. CASE Send(u)
    <2>1. user_req[u] \in Message
      BY <1>1 DEF Send, IInv, Requesting, Message
    <2>2. FwShape' /\ Balance'
      BY <1>1, <2>1, PutCommand DEF Send, pollVars
    <2>3. PollShape'
      BY <1>1 DEF Send, IInv, Shape, PollShape, pollVars
    <2> QED
      BY <2>2, <2>3 DEF Shape
  <1>2. CASE SendStop(u)
    <2>1. CASE CanSend
      <3>1. "STOP" \in Message /\ "STOP" \notin Guarded
        BY DEF Message, Request, Guarded
      <3>2. FwShape' /\ Balance'
        BY <1>2, <2>1, <3>1, PutCommand DEF SendStop, pollVars
      <3>3. PollShape'
        BY <1>2 DEF SendStop, IInv, Shape, PollShape, pollVars
      <3> QED
        BY <3>2, <3>3 DEF Shape
    <2>2. CASE ~ CanSend
      BY <1>2, <2>2, QuietStep DEF SendStop
    <2> QED
      BY <2>1, <2>2
  <1>3. CASE ~ Send(u) /\ ~ SendStop(u)
    BY <1>3, QuietStep DEF Library, Call, Claim, Refuse, Accept, SendFails, Sent,
                          EnterStop, StopWait
  <1> QED
    BY <1>1, <1>2, <1>3

-------------------------------------------------------------------------------
(* Firmware. *)

\* What taking the head of the channel to the modem does to the commands.
LEMMA TakeCommand ==
    ASSUME IInv, h2m # <<>>, h2m' = Tail(h2m), fw_pc # "hung", fw_pc' # "hung"
    PROVE  /\ Pending' = Pending - (IF Head(h2m) \in Guarded THEN 1 ELSE 0)
           /\ fw_pc' # "stopping" => FwShape'
  <1>1. h2m \in Seq(Message)
    BY DEF IInv, TypeOK, ChannelTypes
  <1>2. Commands(h2m)' = Count(Tail(h2m), Guarded)
    BY DEF Commands, Count, Places
  <1>3. Commands(h2m)' = Commands(h2m) - (IF Head(h2m) \in Guarded THEN 1 ELSE 0)
    BY <1>1, <1>2, CountTail DEF Commands
  <1>4. Commands(h2m) \in Nat
    BY BalanceTypes DEF IInv
  <1> QED
    BY <1>3, <1>4 DEF Pending, FwShape

LEMMA FwInv ==
    ASSUME IInv, UNCHANGED app, RxLoop \/ VspaDone \/ TimerExpires
    PROVE  Shape' /\ Balance'
  <1> USE DEF libVars, pollVars, fwVars, history, FwReady
  <1>0. /\ Pending \in Nat /\ Coming \in Nat /\ (TimerDue = 0 \/ TimerDue = 1)
        /\ sent \in Nat /\ answered \in Nat
        /\ answered + Pending + Coming + TimerDue <= sent
        /\ TypeOK /\ Shape /\ PollShape /\ FwShape
    BY BalanceTypes DEF IInv, Balance, Shape
  <1>1. CASE SearchRefused
    <2>1. /\ PollShape' /\ (Coming' = Coming \/ Coming' = Coming + 1)
          /\ NoTimeout(m2h)' => NoTimeout(m2h)
      BY <1>0, <1>1, ReplyEffect DEF SearchRefused, Request
    <2>2. Pending' = Pending - 1 /\ FwShape'
      BY <1>1, TakeCommand DEF SearchRefused, Guarded
    <2>3. TimerDue' = 0 \/ TimerDue' = TimerDue
      BY <1>1, <2>1 DEF SearchRefused, TimerDue
    <2>8. sent' = sent /\ answered' = answered
      BY <1>1 DEF SearchRefused
    <2>9. Balance'
      BY <1>0, <2>1, <2>2, <2>3, <2>8 DEF Balance
    <2> QED
      BY <2>1, <2>2, <2>3, <2>9 DEF Shape
  <1>2. CASE SearchAckTimeout
    <2>1. /\ PollShape' /\ (Coming' = Coming \/ Coming' = Coming + 1)
          /\ Coming' = Coming + 1 => ~ NoTimeout(m2h)'
      BY <1>0, <1>2, ReplyEffect DEF SearchAckTimeout, Request
    <2>2. Pending' = Pending - 1 /\ FwShape'
      BY <1>2, TakeCommand DEF SearchAckTimeout, Guarded
    <2>3. (TimerDue' = 0 \/ TimerDue' = 1) /\ (Coming' = Coming + 1 => TimerDue' = 0)
      BY <2>1 DEF TimerDue
    <2>8. sent' = sent /\ answered' = answered
      BY <1>2 DEF SearchAckTimeout
    <2>9. Balance'
      BY <1>0, <2>1, <2>2, <2>3, <2>8 DEF Balance
    <2> QED
      BY <2>1, <2>2, <2>3, <2>9 DEF Shape
  <1>3. CASE SearchStarted
    <2>1. PollShape' /\ Coming' = Coming
      BY <1>0, <1>3 DEF SearchStarted, PollShape, Coming, Answers, AnswersAt
    <2>2. Pending' = Pending - 1 /\ FwShape'
      BY <1>3, TakeCommand DEF SearchStarted, Guarded
    <2>3. TimerDue' = 0 \/ TimerDue' = 1
      BY DEF TimerDue
    <2>8. sent' = sent /\ answered' = answered
      BY <1>3 DEF SearchStarted
    <2>9. Balance'
      BY <1>0, <2>1, <2>2, <2>3, <2>8 DEF Balance
    <2> QED
      BY <2>1, <2>2, <2>3, <2>9 DEF Shape
  <1>4. ASSUME NEW status \in {"OK", "ERR", "TIMEOUT"}, DoStop(status)
        PROVE  Shape' /\ Balance'
    <2>1. /\ PollShape' /\ Coming' = Coming
          /\ NoTimeout(m2h)' => NoTimeout(m2h)
      BY <1>0, <1>4, ReplyEffect DEF DoStop, Request, Guarded
    <2>2. Pending' = Pending /\ FwShape'
      BY <1>0, <1>4 DEF DoStop, Pending, Commands, Count, Places, FwShape
    <2>3. TimerDue' = 0 \/ TimerDue' = TimerDue
      BY <1>4, <2>1 DEF DoStop, TimerDue
    <2>8. sent' = sent /\ answered' = answered
      BY <1>4 DEF DoStop
    <2>9. Balance'
      BY <1>0, <2>1, <2>2, <2>3, <2>8 DEF Balance
    <2> QED
      BY <2>1, <2>2, <2>3, <2>9 DEF Shape
  <1>5. CASE StopTimer
    <2>1. PollShape' /\ Coming' = Coming
      BY <1>0, <1>5 DEF StopTimer, PollShape, Coming, Answers, AnswersAt
    <2>2. Pending' = Pending /\ FwShape'
      BY <1>0, <1>5, TakeCommand DEF StopTimer, FwShape, Guarded
    <2>3. TimerDue' = 0
      BY <1>5 DEF StopTimer, TimerDue
    <2>8. sent' = sent /\ answered' = answered
      BY <1>5 DEF StopTimer
    <2>9. Balance'
      BY <1>0, <2>1, <2>2, <2>3, <2>8 DEF Balance
    <2> QED
      BY <2>1, <2>2, <2>3, <2>9 DEF Shape
  <1>6. CASE DoReset
    <2>1. PollShape' /\ Coming' = Coming
      BY <1>0, <1>6 DEF DoReset, PollShape, Coming, Answers, AnswersAt
    <2>2. Pending' = Pending - 1 /\ FwShape'
      <3>1. Commands(h2m)' = Commands(h2m) /\ Commands(h2m) \in Nat
        BY <1>0, <1>6, BalanceTypes DEF DoReset, Commands, Count, Places
      <3> QED
        BY <1>6, <3>1 DEF DoReset, Pending, FwShape
    <2>3. TimerDue' = 0 \/ TimerDue' = 1
      BY DEF TimerDue
    <2>8. sent' = sent /\ answered' = answered
      BY <1>6 DEF DoReset
    <2>9. Balance'
      BY <1>0, <2>1, <2>2, <2>3, <2>8 DEF Balance
    <2> QED
      BY <2>1, <2>2, <2>3, <2>9 DEF Shape
  <1>7. CASE DoOther
    <2>1. /\ PollShape' /\ Coming' = Coming
          /\ NoTimeout(m2h)' => NoTimeout(m2h)
      <3>1. CASE Head(h2m) = "MEM_INIT"
        BY <1>0, <1>7, <3>1
           DEF DoOther, PollShape, Coming, Answers, AnswersAt, NoTimeout
      <3>2. CASE Head(h2m) # "MEM_INIT"
        <4>1. Reply(Head(h2m), "OK") /\ Head(h2m) \in Request /\ Head(h2m) \notin Guarded
          BY <1>7, <3>2 DEF DoOther, Request, Guarded
        <4> QED
          BY <1>0, <1>7, <4>1, ReplyEffect DEF DoOther
      <3> QED
        BY <3>1, <3>2
    <2>2. Pending' = Pending /\ FwShape'
      BY <1>0, <1>7, TakeCommand DEF DoOther, Guarded
    <2>3. TimerDue' = 0 \/ TimerDue' = TimerDue
      BY <1>7, <2>1 DEF DoOther, TimerDue
    <2>8. sent' = sent /\ answered' = answered
      BY <1>7 DEF DoOther
    <2>9. Balance'
      BY <1>0, <2>1, <2>2, <2>3, <2>8 DEF Balance
    <2> QED
      BY <2>1, <2>2, <2>3, <2>9 DEF Shape
  <1>8. CASE VspaDone
    <2>1. PollShape' /\ Coming' = Coming
      BY <1>0, <1>8 DEF VspaDone, PollShape, Coming, Answers, AnswersAt
    <2>2. Pending' = Pending /\ FwShape'
      BY <1>0, <1>8 DEF VspaDone, Pending, Commands, Count, Places, FwShape
    <2>3. TimerDue' = 0
      BY <1>8 DEF VspaDone, TimerDue
    <2>8. sent' = sent /\ answered' = answered
      BY <1>8 DEF VspaDone
    <2>9. Balance'
      BY <1>0, <2>1, <2>2, <2>3, <2>8 DEF Balance
    <2> QED
      BY <2>1, <2>2, <2>3, <2>9 DEF Shape
  <1>9. CASE TimerExpires
    <2>1. vspa_timer \in Request
      BY <1>0, <1>9 DEF TimerExpires, TypeOK, FwTypes, Guarded, Request
    <2>2. vspa_timer \notin {"FOLLOW", "SCAN"}
      BY <1>0, <1>9 DEF TimerExpires, TypeOK, FwTypes, Guarded
    <2>3. /\ PollShape' /\ (Coming' = Coming \/ Coming' = Coming + 1)
          /\ Coming' = Coming + 1 => NoTimeout(m2h)
      BY <1>0, <1>9, <2>1, <2>2, ReplyEffect DEF TimerExpires
    <2>4. Pending' = Pending /\ FwShape'
      BY <1>0, <1>9 DEF TimerExpires, Pending, Commands, Count, Places, FwShape
    <2>5. TimerDue' = 0 /\ (Coming' = Coming + 1 => TimerDue = 1)
      BY <1>9, <2>3 DEF TimerExpires, TimerDue
    <2>8. sent' = sent /\ answered' = answered
      BY <1>9 DEF TimerExpires
    <2>9. Balance'
      BY <1>0, <2>3, <2>4, <2>5, <2>8 DEF Balance
    <2> QED
      BY <2>3, <2>4, <2>5, <2>9 DEF Shape
  <1> QED
    BY <1>1, <1>2, <1>3, <1>4, <1>5, <1>6, <1>7, <1>8, <1>9 DEF RxLoop

-------------------------------------------------------------------------------
(* The poll thread. *)

LEMMA PollInv ==
    ASSUME IInv, UNCHANGED app, Poll PROVE Shape' /\ Balance'
  <1> USE DEF libVars, userVars, fwVars, history
  <1>0. /\ Pending \in Nat /\ Coming \in Nat /\ (TimerDue = 0 \/ TimerDue = 1)
        /\ sent \in Nat /\ answered \in Nat /\ Answers(m2h) \in Nat
        /\ answered + Pending + Coming + TimerDue <= sent
        /\ TypeOK /\ Shape /\ PollShape /\ FwShape
        /\ h2m \in Seq(Message) /\ m2h \in Seq(ReplyMessage)
    BY BalanceTypes DEF IInv, Balance, Shape, TypeOK, ChannelTypes
  <1>1. CASE ProcessReply
    <2>1. FwShape' /\ Pending' = Pending /\ TimerDue' = TimerDue
      BY <1>0, <1>1 DEF ProcessReply, FwShape, Pending, Commands, Count, Places, TimerDue, NoTimeout
    <2>2. PollShape'
      BY <1>0, <1>1 DEF ProcessReply, PollShape
    <2>3. Answers(m2h) > 0
      BY <1>0, <1>1, AnswersType DEF ProcessReply
    <2>4. Coming' = 0 \/ Coming' = Coming - 1
      <3>1. Coming = Answers(m2h)
        BY <1>0, <1>1 DEF ProcessReply, Coming
      <3>2. Answers(m2h)' = Answers(m2h)
        BY <1>1 DEF ProcessReply, Answers, AnswersAt
      <3>3. CASE Head(m2h).status = "TIMEOUT"
        BY <1>1, <3>3 DEF ProcessReply, Coming
      <3>4. CASE Head(m2h).status # "TIMEOUT"
        <4>1. /\ poll_pc' = "finish" /\ ~ reset_done' /\ poll_type' \in Guarded
          BY <1>0, <1>1, <3>4 DEF ProcessReply, PollShape
        <4> QED
          BY <3>1, <3>2, <4>1 DEF Coming
      <3> QED
        BY <3>3, <3>4
    <2>5. Coming > 0
      BY <1>0, <1>1, <2>3 DEF ProcessReply, Coming
    <2>6. sent' = sent /\ answered' = answered + 1
      BY <1>1 DEF ProcessReply
    <2>7. Balance'
      BY <1>0, <2>1, <2>4, <2>5, <2>6 DEF Balance
    <2> QED
      BY <2>1, <2>2, <2>7 DEF Shape
  <1>2. CASE ProcessStopReply
    <2>1. FwShape' /\ Pending' = Pending /\ TimerDue' = TimerDue
      BY <1>0, <1>2 DEF ProcessStopReply, FwShape, Pending, Commands, Count, Places,
                        TimerDue, NoTimeout
    <2>2. PollShape'
      BY <1>0, <1>2 DEF ProcessStopReply, PollShape
    <2>3. Coming' = 0 \/ Coming' = Coming
      <3>1. Answers(m2h)' = Answers(m2h)
        BY <1>2 DEF ProcessStopReply, Answers, AnswersAt
      <3>2. poll_pc = "idle" /\ poll_type' \notin Guarded
        BY <1>2 DEF ProcessStopReply, Guarded
      <3> QED
        BY <3>1, <3>2 DEF Coming
    <2>4. sent' = sent /\ answered' = answered
      BY <1>2 DEF ProcessStopReply
    <2>5. Balance'
      BY <1>0, <2>1, <2>3, <2>4 DEF Balance
    <2> QED
      BY <2>1, <2>2, <2>5 DEF Shape
  <1>3. CASE IgnoreReply
    <2>1. FwShape' /\ Pending' = Pending
      BY <1>0, <1>3 DEF IgnoreReply, FwShape, Pending, Commands, Count, Places
    <2>2. /\ m2h # <<>> /\ Head(m2h).type \notin Guarded /\ Head(m2h).status # "TIMEOUT"
          /\ m2h' = Tail(m2h) /\ poll_pc = "idle" /\ poll_pc' = "idle"
      <3>1. m2h # <<>> /\ Head(m2h).type \in {"FOLLOW", "SCAN"}
        BY <1>3 DEF IgnoreReply
      <3>2. 1 \in 1 .. Len(m2h) /\ Head(m2h) = m2h[1]
        BY <1>0, <3>1, TailFacts
      <3>3. Head(m2h).status = "OK"
        BY <1>0, <3>1, <3>2 DEF PollShape
      <3> QED
        BY <1>3, <3>1, <3>3 DEF IgnoreReply, pollVars, Guarded
    <2>3. /\ Answers(m2h)' = Answers(m2h) /\ (NoTimeout(m2h)' <=> NoTimeout(m2h))
      <3>1. /\ Answers(m2h)' = Answers(Tail(m2h))
            /\ NoTimeout(m2h)' <=> NoTimeout(Tail(m2h))
        BY <2>2 DEF Answers, AnswersAt, NoTimeout
      <3> QED
        BY <1>0, <2>2, <3>1, AnswersTail
    <2>4. Coming' = Coming /\ TimerDue' = TimerDue
      BY <1>3, <2>2, <2>3 DEF IgnoreReply, Coming, TimerDue
    <2>5. PollShape'
      <3>1. /\ Len(m2h) \in Nat /\ Len(m2h') = Len(m2h) - 1
            /\ \A i \in 1 .. Len(m2h) - 1 : m2h'[i] = m2h[i + 1]
        BY <1>0, <2>2, TailFacts
      <3>2. \A i \in 1 .. Len(m2h') : m2h'[i].type \in {"FOLLOW", "SCAN"} => m2h'[i].status = "OK"
        BY <1>0, <3>1 DEF PollShape
      <3> QED
        BY <1>0, <1>3, <2>2, <3>2 DEF PollShape, IgnoreReply
    <2>6. sent' = sent /\ answered' = answered
      BY <1>3 DEF IgnoreReply
    <2>7. Balance'
      BY <1>0, <2>1, <2>4, <2>6 DEF Balance
    <2> QED
      BY <2>1, <2>5, <2>7 DEF Shape
  <1>4. CASE ResetBegin
    <2>1. FwShape' /\ Pending' = Pending /\ TimerDue' = TimerDue
      BY <1>0, <1>4 DEF ResetBegin, FwShape, Pending, Commands, Count, Places, TimerDue, NoTimeout
    <2>2. PollShape' /\ Coming' = Coming
      BY <1>0, <1>4 DEF ResetBegin, PollShape, Coming
    <2>3. sent' = sent /\ answered' = answered
      BY <1>4 DEF ResetBegin
    <2>4. Balance'
      BY <1>0, <2>1, <2>2, <2>3 DEF Balance
    <2> QED
      BY <2>1, <2>2, <2>4 DEF Shape
  <1>5. CASE ResetEnd
    <2>1. h2m' = <<>> /\ m2h' = <<>> /\ fw_pc' = "idle" /\ poll_pc' = "mem_init" /\ reset_done'
      BY <1>5 DEF ResetEnd
    <2>2. FwShape' /\ PollShape'
      BY <2>1 DEF FwShape, PollShape
    <2>3. Pending' = 0 /\ Coming' = 0
      <3>1. Count(<<>>, Guarded) = 0 /\ AnswersAt(<<>>) = {}
        BY CountEmpty DEF AnswersAt
      <3>2. Commands(h2m)' = 0
        BY <2>1, <3>1 DEF Commands, Count, Places
      <3>3. Answers(m2h)' = 0
        BY <2>1, <3>1, FS_EmptySet DEF Answers, AnswersAt
      <3> QED
        BY <2>1, <3>2, <3>3 DEF Pending, Coming
    <2>4. TimerDue' = 0
      BY <1>5 DEF ResetEnd, TimerDue
    <2>5. sent' = sent /\ answered' = answered
      BY <1>5 DEF ResetEnd
    <2>6. Balance'
      BY <1>0, <2>3, <2>4, <2>5 DEF Balance
    <2> QED
      BY <2>2, <2>6 DEF Shape
  <1>6. CASE SendMemInit
    <2>1. reset_done /\ reset_done' /\ poll_pc = "mem_init" /\ poll_pc' = "finish" /\ m2h' = m2h
      BY <1>0, <1>6 DEF SendMemInit, PollShape
    <2>2. PollShape'
      BY <1>0, <2>1 DEF PollShape
    <2>3. Coming' = Coming /\ TimerDue' = TimerDue
      BY <1>6, <2>1 DEF SendMemInit, Coming, TimerDue, Answers, AnswersAt, NoTimeout
    <2>4. FwShape' /\ Pending' = Pending
      <3>1. CASE h2m' = h2m
        BY <1>0, <1>6, <3>1 DEF SendMemInit, FwShape, Pending, Commands, Count, Places
      <3>2. CASE h2m' = Append(h2m, "MEM_INIT")
        <4>1. "MEM_INIT" \in Message /\ "MEM_INIT" \notin Guarded
          BY DEF Message, Guarded
        <4>2. FwShape'
          BY <1>0, <1>6, <3>2, <4>1, AppendFacts DEF SendMemInit, FwShape
        <4>3. Commands(h2m)' = Count(Append(h2m, "MEM_INIT"), Guarded)
          BY <3>2 DEF Commands, Count, Places
        <4>4. Commands(h2m)' = Commands(h2m)
          BY <1>0, <4>1, <4>3, CountAppend, CountType DEF Commands
        <4> QED
          BY <1>6, <4>2, <4>4 DEF SendMemInit, Pending
      <3> QED
        BY <1>6, <3>1, <3>2 DEF SendMemInit
    <2>5. sent' = sent /\ answered' = answered
      BY <1>6 DEF SendMemInit
    <2>6. Balance'
      BY <1>0, <2>3, <2>4, <2>5 DEF Balance
    <2> QED
      BY <2>2, <2>4, <2>6 DEF Shape
  <1>7. CASE Finish
    <2>1. FwShape' /\ Pending' = Pending
      BY <1>0, <1>7 DEF Finish, FwShape, Pending, Commands, Count, Places
    <2>2. poll_pc = "finish" /\ poll_pc' = "idle" /\ ~ reset_done' /\ vspa_timer' = vspa_timer
      BY <1>7 DEF Finish
    <2>3. PollShape' /\ Coming' = Coming /\ TimerDue' = TimerDue
      <3>1. CASE reset_done
        <4>1. m2h' = m2h
          BY <1>7, <3>1 DEF Finish
        <4> QED
          BY <1>0, <2>2, <3>1, <4>1
             DEF PollShape, Coming, TimerDue, Answers, AnswersAt, NoTimeout
      <3>2. CASE ~ reset_done
        <4>1. /\ m2h' = Tail(m2h) /\ m2h # <<>>
              /\ Head(m2h).status # "TIMEOUT" /\ Head(m2h).type = poll_type
          BY <1>0, <1>7, <2>2, <3>2 DEF Finish, PollShape
        <4>2. /\ Answers(m2h)' = Answers(m2h) - (IF poll_type \in Guarded THEN 1 ELSE 0)
              /\ NoTimeout(m2h)' <=> NoTimeout(m2h)
          <5>1. /\ Answers(m2h)' = Answers(Tail(m2h))
                /\ NoTimeout(m2h)' <=> NoTimeout(Tail(m2h))
            BY <4>1 DEF Answers, AnswersAt, NoTimeout
          <5> QED
            BY <1>0, <4>1, <5>1, AnswersTail
        <4>3. Coming' = Coming /\ TimerDue' = TimerDue
          BY <1>0, <2>2, <3>2, <4>2 DEF Coming, TimerDue
        <4>4. /\ Len(m2h) \in Nat /\ Len(m2h') = Len(m2h) - 1
              /\ \A i \in 1 .. Len(m2h) - 1 : m2h'[i] = m2h[i + 1]
          BY <1>0, <4>1, TailFacts
        <4>5. \A i \in 1 .. Len(m2h') :
                 m2h'[i].type \in {"FOLLOW", "SCAN"} => m2h'[i].status = "OK"
          BY <1>0, <4>4 DEF PollShape
        <4>6. PollShape'
          BY <2>2, <4>5 DEF PollShape
        <4> QED
          BY <4>3, <4>6
      <3> QED
        BY <3>1, <3>2
    <2>4. sent' = sent /\ answered' = answered
      BY <1>7 DEF Finish
    <2>5. Balance'
      BY <1>0, <2>1, <2>3, <2>4 DEF Balance
    <2> QED
      BY <2>1, <2>3, <2>5 DEF Shape
  <1> QED
    BY <1>1, <1>2, <1>3, <1>4, <1>5, <1>6, <1>7 DEF Poll

-------------------------------------------------------------------------------
(* One guarded command at a time, as long as there are no STOP requests. *)

NoStop == "STOP" \notin app.requests

StoplessReply == [type : Request \ {"STOP"}, status : {"OK", "ERR", "TIMEOUT"}]
PlainReply == [type : Guarded, status : {"OK", "ERR"}]

\* Without STOP requests there is no trace of one anywhere, and what the poll
\* thread works on is the reply to a guarded command.
Stopless ==
    /\ \A u \in User : user_req[u] # "STOP" /\ user_pc[u] \notin {"stop_send", "stop_wait"}
    /\ h2m \in Seq(Message \ {"STOP"})
    /\ m2h \in Seq(StoplessReply)
    /\ fw_pc # "stopping"
    /\ poll_pc # "idle" => poll_type \in Guarded

\* A thread that has raised is_active and not yet handed its command over.
Claimed(u) == user_pc[u] = "check" \/ (user_pc[u] = "send" /\ user_req[u] # "SCAN")
Claims == IF \E u \in User : Claimed(u) THEN 1 ELSE 0

\* Replies that end a command without a reset.
Plain == Count(m2h, PlainReply)

\* The firmware works on a command, or has reported that it timed out.
AtWork == vspa \in Guarded \/ vspa_timer # NoCmd \/ fw_pc = "hung" \/ ~ NoTimeout(m2h)

\* The card has been reset, and is_active not yet given up.
Restarted == poll_pc = "mem_init" \/ (poll_pc = "finish" /\ reset_done)

Busy == IF AtWork \/ Restarted THEN 1 ELSE 0

\* is_active is passed on like a token: from the thread to the channel, to the
\* VSPA, to the reply, to the reset.
Alone ==
    /\ \A u, v \in User : Claimed(u) /\ Claimed(v) => u = v
    /\ Claims + Pending + Plain + Busy <= 1
    /\ Claims + Pending + Plain + Busy = 1 => is_active
    /\ Restarted => ~ AtWork
    /\ fw_pc = "hung" => vspa \notin Guarded

LEMMA AloneTypes ==
    ASSUME IInv
    PROVE  /\ (Claims = 0 \/ Claims = 1) /\ (Busy = 0 \/ Busy = 1)
           /\ Pending \in Nat /\ Plain \in Nat
           /\ h2m \in Seq(Message) /\ m2h \in Seq(ReplyMessage)
           /\ Len(h2m) <= Capacity /\ Len(m2h) <= Capacity
  <1>1. h2m \in Seq(Message) /\ m2h \in Seq(ReplyMessage)
        /\ Len(h2m) <= Capacity /\ Len(m2h) <= Capacity
    BY DEF IInv, TypeOK, ChannelTypes
  <1> QED
    BY <1>1, BalanceTypes, CountType DEF IInv, Claims, Busy, Plain

\* The user threads leave the card and the poll thread alone.
LEMMA UserLeaves ==
    ASSUME UNCHANGED <<m2h, poll_pc, poll_type, reset_done, fw_pc, vspa, vspa_timer>>
    PROVE  /\ Plain' = Plain /\ Busy' = Busy
           /\ (Restarted' <=> Restarted) /\ (AtWork' <=> AtWork)
  <1>1. AtWork' <=> AtWork
    BY DEF AtWork, NoTimeout
  <1>2. Restarted' <=> Restarted
    BY DEF Restarted
  <1> QED
    BY <1>1, <1>2 DEF Plain, Count, Places, Busy

\* A thread that has no claim after its step: it had none, or gives it up.
LEMMA ClaimGone ==
    ASSUME Alone, NEW u \in User, ~ Claimed(u)',
           \A v \in User : v # u => (Claimed(v)' <=> Claimed(v))
    PROVE  /\ \A v, w \in User : Claimed(v)' /\ Claimed(w)' => v = w
           /\ Claims' = IF Claimed(u) THEN 0 ELSE Claims
  BY DEF Alone, Claims

LEMMA UserAlone ==
    ASSUME IInv, NoStop, Stopless, Alone, UNCHANGED app, NEW u \in User,
           (\E r \in Request : Call(u, r)) \/ Library(u)
    PROVE  Stopless' /\ Alone'
  <1> USE DEF fwVars, pollVars, history
  <1>0. /\ user_req[u] # "STOP" /\ user_pc[u] \notin {"stop_send", "stop_wait"}
        /\ user_pc \in [User -> {"idle", "enter", "check", "send", "sent",
                                 "stop_send", "stop_wait"}]
        /\ user_req \in [User -> Request \cup {NoCmd}]
    BY DEF Stopless, IInv, TypeOK, UserTypes
  <1>1. UNCHANGED <<m2h, poll_pc, poll_type, reset_done, fw_pc, vspa, vspa_timer>>
    BY DEF Library, Call, Claim, Refuse, Accept, Send, SendFails, Sent, EnterStop, SendStop,
           StopWait, libVars
  <1>2. /\ Plain' = Plain /\ Busy' = Busy
        /\ (Restarted' <=> Restarted) /\ (AtWork' <=> AtWork)
    BY <1>1, UserLeaves
  <1>3. /\ (Claims = 0 \/ Claims = 1) /\ (Busy = 0 \/ Busy = 1)
        /\ Pending \in Nat /\ Plain \in Nat
        /\ Claims + Pending + Plain + Busy <= 1
        /\ Claims + Pending + Plain + Busy = 1 => is_active
        /\ h2m \in Seq(Message \ {"STOP"}) /\ Len(h2m) <= Capacity
    BY AloneTypes DEF Alone, Stopless
  <1>4. ASSUME \A v, w \in User : Claimed(v)' /\ Claimed(w)' => v = w,
               Claims' + Pending' + Plain + Busy <= 1,
               Claims' + Pending' + Plain + Busy = 1 => is_active'
        PROVE  Alone'
    BY <1>1, <1>2, <1>4 DEF Alone
  <1>5. ASSUME UNCHANGED h2m PROVE Pending' = Pending
    BY <1>1, <1>5 DEF Pending, Commands, Count, Places
  <1>6. ASSUME \A v \in User : user_req'[v] # "STOP" /\ user_pc'[v] \notin {"stop_send", "stop_wait"},
               h2m' \in Seq(Message \ {"STOP"})
        PROVE  Stopless'
    BY <1>1, <1>6 DEF Stopless
  <1>7. ASSUME NEW r \in Request, Call(u, r) PROVE Stopless' /\ Alone'
    <2>1. r # "STOP" /\ UNCHANGED <<h2m, is_active>>
      BY <1>7 DEF Call, NoStop
    <2>2. \A v \in User : user_req'[v] # "STOP" /\ user_pc'[v] \notin {"stop_send", "stop_wait"}
      BY <1>0, <1>7, <2>1 DEF Call, Goto, Stopless
    <2>3. ~ Claimed(u) /\ ~ Claimed(u)' /\ \A v \in User : v # u => (Claimed(v)' <=> Claimed(v))
      BY <1>0, <1>7 DEF Call, Goto, Claimed
    <2>4. Claims' = Claims /\ \A v, w \in User : Claimed(v)' /\ Claimed(w)' => v = w
      BY <2>3, ClaimGone
    <2> QED
      BY <1>3, <1>4, <1>5, <1>6, <2>1, <2>2, <2>4
  <1>8. CASE Claim(u)
    <2>1. UNCHANGED h2m /\ is_active'
      BY <1>8 DEF Claim
    <2>2. \A v \in User : user_req'[v] # "STOP" /\ user_pc'[v] \notin {"stop_send", "stop_wait"}
      BY <1>0, <1>8 DEF Claim, Goto, Stopless
    <2>3. CASE is_active
      <3>1. ~ Claimed(u) /\ ~ Claimed(u)' /\ \A v \in User : v # u => (Claimed(v)' <=> Claimed(v))
        BY <1>0, <1>8, <2>3 DEF Claim, Goto, Claimed
      <3>2. Claims' = Claims /\ \A v, w \in User : Claimed(v)' /\ Claimed(w)' => v = w
        BY <3>1, ClaimGone
      <3> QED
        BY <1>3, <1>4, <1>5, <1>6, <2>1, <2>2, <3>2
    <2>4. CASE ~ is_active
      <3>1. Claims = 0 /\ Pending = 0 /\ Plain = 0 /\ Busy = 0
        BY <1>3, <2>4
      <3>2. \A v \in User : ~ Claimed(v)
        BY <3>1 DEF Claims
      <3>3. \A v \in User : v # u => ~ Claimed(v)'
        BY <1>0, <1>8, <3>2 DEF Claim, Goto, Claimed
      <3>4. Claims' = 0 \/ Claims' = 1
        BY DEF Claims
      <3>5. \A v, w \in User : Claimed(v)' /\ Claimed(w)' => v = w
        BY <3>3
      <3>6. Pending' = 0
        BY <1>5, <2>1, <3>1
      <3>7. Claims' + Pending' + Plain + Busy <= 1
        BY <3>1, <3>4, <3>6
      <3>8. Alone'
        BY <1>4, <2>1, <3>5, <3>7
      <3> QED
        BY <1>3, <1>6, <2>1, <2>2, <3>8
    <2> QED
      BY <2>3, <2>4
  <1>9. CASE Refuse(u)
    <2>1. UNCHANGED h2m
      BY <1>9 DEF Refuse
    <2>2. \A v \in User : user_req'[v] # "STOP" /\ user_pc'[v] \notin {"stop_send", "stop_wait"}
      BY <1>0, <1>9 DEF Refuse, Goto, Stopless
    <2>3. Claimed(u) /\ ~ Claimed(u)' /\ \A v \in User : v # u => (Claimed(v)' <=> Claimed(v))
      BY <1>0, <1>9 DEF Refuse, Goto, Claimed
    <2>4. Claims' = 0 /\ \A v, w \in User : Claimed(v)' /\ Claimed(w)' => v = w
      BY <2>3, ClaimGone
    <2>5. Claims = 1
      BY <2>3 DEF Claims
    <2> QED
      BY <1>3, <1>4, <1>5, <1>6, <2>1, <2>2, <2>4, <2>5
  <1>10. CASE Accept(u)
    <2>1. UNCHANGED <<h2m, is_active>>
      BY <1>10 DEF Accept, libVars
    <2>2. \A v \in User : user_req'[v] # "STOP" /\ user_pc'[v] \notin {"stop_send", "stop_wait"}
      BY <1>0, <1>10 DEF Accept, Goto, Stopless
    <2>3. Claimed(u) /\ \A v \in User : v # u => (Claimed(v)' <=> Claimed(v))
      BY <1>0, <1>10 DEF Accept, Goto, Claimed
    <2>4. \A v \in User : v # u => ~ Claimed(v)'
      BY <2>3 DEF Alone
    <2>5. Claims = 1 /\ (Claims' = 0 \/ Claims' = 1)
      BY <2>3 DEF Claims
    <2> QED
      BY <1>3, <1>4, <1>5, <1>6, <2>1, <2>2, <2>4, <2>5
  <1>11. CASE Send(u)
    <2>1. /\ user_req[u] \in Message \ {"STOP"} /\ h2m' = Append(h2m, user_req[u])
          /\ Len(h2m) < Capacity
      BY <1>0, <1>11 DEF Send, CanSend, IInv, Requesting, Message
    <2>2. \A v \in User : user_req'[v] # "STOP" /\ user_pc'[v] \notin {"stop_send", "stop_wait"}
      BY <1>0, <1>11 DEF Send, Goto, Stopless
    <2>3. ~ Claimed(u)' /\ \A v \in User : v # u => (Claimed(v)' <=> Claimed(v))
      BY <1>0, <1>11 DEF Send, Goto, Claimed
    <2>4. /\ Claims' = IF Claimed(u) THEN 0 ELSE Claims
          /\ \A v, w \in User : Claimed(v)' /\ Claimed(w)' => v = w
      BY <2>3, ClaimGone
    <2>5. h2m' \in Seq(Message \ {"STOP"})
      BY <1>3, <2>1, AppendType
    <2>6. Pending' = Pending + (IF user_req[u] \in Guarded THEN 1 ELSE 0)
      <3>1. Commands(h2m)' = Count(Append(h2m, user_req[u]), Guarded)
        BY <2>1 DEF Commands, Count, Places
      <3>2. Count(Append(h2m, user_req[u]), Guarded)
               = Count(h2m, Guarded) + (IF user_req[u] \in Guarded THEN 1 ELSE 0)
        <4>1. ASSUME NEW m \in Message \ {"STOP"}
              PROVE  Count(Append(h2m, m), Guarded)
                        = Count(h2m, Guarded) + (IF m \in Guarded THEN 1 ELSE 0)
          BY <1>3, CountAppend
        <4> QED
          BY <2>1, <4>1
      <3>3. Commands(h2m) \in Nat
        BY BalanceTypes DEF IInv
      <3> QED
        BY <1>1, <3>1, <3>2, <3>3 DEF Pending, Commands
    <2>7. Claimed(u) => Claims = 1
      BY DEF Claims
    <2>8. Claimed(u) <=> user_req[u] # "SCAN"
      BY <1>11 DEF Send, Claimed
    <2>9. is_active' <=> (user_req[u] # "FOLLOW" /\ is_active)
      BY <1>11, Zenon DEF Send
    <2>10. /\ Claims' + Pending' + Plain + Busy <= 1
           /\ Claims' + Pending' + Plain + Busy = 1 => is_active'
      <3>1. CASE user_req[u] = "SCAN"
        BY <1>3, <2>4, <2>6, <2>8, <2>9, <3>1 DEF Guarded
      <3>2. CASE user_req[u] = "FOLLOW"
        BY <1>3, <2>4, <2>6, <2>7, <2>8, <3>2 DEF Guarded
      <3>3. CASE user_req[u] \notin {"SCAN", "FOLLOW"}
        BY <1>3, <2>4, <2>6, <2>7, <2>8, <2>9, <3>3
      <3> QED
        BY <3>1, <3>2, <3>3
    <2> QED
      BY <1>4, <1>6, <2>2, <2>4, <2>5, <2>10
  <1>12. CASE SendFails(u)
    <2>1. UNCHANGED h2m
      BY <1>12 DEF SendFails
    <2>2. \A v \in User : user_req'[v] # "STOP" /\ user_pc'[v] \notin {"stop_send", "stop_wait"}
      BY <1>0, <1>12 DEF SendFails, Goto, Stopless
    <2>3. ~ Claimed(u)' /\ \A v \in User : v # u => (Claimed(v)' <=> Claimed(v))
      BY <1>0, <1>12 DEF SendFails, Goto, Claimed
    <2>4. /\ Claims' = IF Claimed(u) THEN 0 ELSE Claims
          /\ \A v, w \in User : Claimed(v)' /\ Claimed(w)' => v = w
      BY <2>3, ClaimGone
    <2>5. Claimed(u) => Claims = 1
      BY DEF Claims
    <2>6. Claimed(u) <=> user_req[u] # "SCAN"
      BY <1>12 DEF SendFails, Claimed
    <2>7. is_active' <=> (user_req[u] \notin Guarded /\ is_active)
      BY <1>12, Zenon DEF SendFails
    <2>8. /\ Claims' + Pending + Plain + Busy <= 1
          /\ Claims' + Pending + Plain + Busy = 1 => is_active'
      <3>1. CASE user_req[u] = "SCAN"
        BY <1>3, <2>4, <2>6, <2>7, <3>1 DEF Guarded
      <3>2. CASE user_req[u] # "SCAN"
        <4>1. Claims = 1 /\ Claims' = 0
          BY <2>4, <2>5, <2>6, <3>2
        <4>2. Pending = 0 /\ Plain = 0 /\ Busy = 0
          BY <1>3, <4>1
        <4> QED
          BY <4>1, <4>2
      <3> QED
        BY <3>1, <3>2
    <2> QED
      BY <1>3, <1>4, <1>5, <1>6, <2>1, <2>2, <2>4, <2>8
  <1>13. CASE Sent(u)
    <2>1. UNCHANGED <<h2m, is_active>>
      BY <1>13 DEF Sent
    <2>2. \A v \in User : user_req'[v] # "STOP" /\ user_pc'[v] \notin {"stop_send", "stop_wait"}
      BY <1>0, <1>13 DEF Sent, Goto, Stopless
    <2>3. ~ Claimed(u) /\ ~ Claimed(u)' /\ \A v \in User : v # u => (Claimed(v)' <=> Claimed(v))
      BY <1>0, <1>13 DEF Sent, Goto, Claimed
    <2>4. Claims' = Claims /\ \A v, w \in User : Claimed(v)' /\ Claimed(w)' => v = w
      BY <2>3, ClaimGone
    <2> QED
      BY <1>3, <1>4, <1>5, <1>6, <2>1, <2>2, <2>4
  <1>14. ~ EnterStop(u) /\ ~ SendStop(u) /\ ~ StopWait(u)
    BY <1>0 DEF EnterStop, SendStop, StopWait
  <1> QED
    BY <1>7, <1>8, <1>9, <1>10, <1>11, <1>12, <1>13, <1>14 DEF Library

\* A reply that is no TIMEOUT ends a command or none; a TIMEOUT leaves the
\* number of those that do.
LEMMA ReplyAlone ==
    ASSUME m2h \in Seq(StoplessReply), m2h \in Seq(ReplyMessage), Len(m2h) <= Capacity, Guarded \subseteq Request,
           NEW type \in Request \ {"STOP"}, NEW status \in {"OK", "ERR", "TIMEOUT"},
           Reply(type, status)
    PROVE  /\ m2h' \in Seq(StoplessReply)
           /\ Plain' = Plain \/ (Plain' = Plain + 1 /\ type \in Guarded /\ status # "TIMEOUT")
           /\ status # "TIMEOUT" => (NoTimeout(m2h)' <=> NoTimeout(m2h))
  <1> DEFINE m == [type |-> type, status |-> status]
  <1>0. m \in StoplessReply /\ m \in ReplyMessage /\ m.type = type /\ m.status = status
    BY DEF StoplessReply, ReplyMessage
  <1>1. CASE m2h' = m2h
    BY <1>1 DEF Plain, Count, Places, NoTimeout
  <1>2. CASE m2h' = Append(m2h, m) /\ Len(m2h) < Capacity
    <2>1. m2h' \in Seq(StoplessReply)
      BY <1>0, <1>2, AppendType
    <2>2. Plain' = Plain + (IF m \in PlainReply THEN 1 ELSE 0) /\ Plain \in Nat
      <3>1. Plain' = Count(Append(m2h, m), PlainReply)
        BY <1>2 DEF Plain, Count, Places
      <3> HIDE DEF m
      <3> QED
        BY <1>0, <3>1, CountAppend, CountType DEF Plain
    <2>3. m \in PlainReply => type \in Guarded /\ status # "TIMEOUT"
      BY DEF PlainReply
    <2>4. NoTimeout(m2h)' <=> NoTimeout(m2h) /\ status # "TIMEOUT"
      <3>1. NoTimeout(m2h)' <=> NoTimeout(Append(m2h, m))
        BY <1>2 DEF NoTimeout
      <3> HIDE DEF m
      <3> QED
        BY <1>0, <3>1, AnswersAppend
    <2> HIDE DEF m
    <2> QED
      BY <2>1, <2>2, <2>3, <2>4
  <1> QED
    BY <1>1, <1>2 DEF Reply

LEMMA FwAlone ==
    ASSUME IInv, NoStop, Stopless, Alone, UNCHANGED app, RxLoop \/ VspaDone \/ TimerExpires
    PROVE  Stopless' /\ Alone'
  <1> USE DEF libVars, userVars, pollVars, fwVars, history, FwReady
  <1>0. /\ (Claims = 0 \/ Claims = 1) /\ (Busy = 0 \/ Busy = 1)
        /\ Pending \in Nat /\ Plain \in Nat
        /\ (Busy' = 0 \/ Busy' = 1)
        /\ Claims + Pending + Plain + Busy <= 1
        /\ Claims + Pending + Plain + Busy = 1 => is_active
        /\ m2h \in Seq(StoplessReply) /\ m2h \in Seq(ReplyMessage) /\ Len(m2h) <= Capacity
        /\ Guarded \subseteq Request /\ fw_pc # "stopping"
        /\ vspa \in Request \cup {NoCmd} /\ vspa_timer \in Guarded \cup {NoCmd}
    <2>1. /\ (Claims = 0 \/ Claims = 1) /\ (Busy = 0 \/ Busy = 1)
          /\ Pending \in Nat /\ Plain \in Nat
          /\ m2h \in Seq(ReplyMessage) /\ Len(m2h) <= Capacity
      BY AloneTypes
    <2>2. Busy' = 0 \/ Busy' = 1
      BY DEF Busy
    <2>3. Guarded \subseteq Request
      BY DEF Guarded, Request
    <2>4. vspa \in Request \cup {NoCmd} /\ vspa_timer \in Guarded \cup {NoCmd}
      BY DEF IInv, TypeOK, FwTypes
    <2> QED
      BY <2>1, <2>2, <2>3, <2>4 DEF Alone, Stopless
  <1>1. /\ UNCHANGED <<is_active, reset_done, user_pc, user_req, poll_pc, poll_type>>
    BY DEF RxLoop, SearchRefused, SearchAckTimeout, SearchStarted, DoStop, StopTimer,
           DoReset, DoOther, VspaDone, TimerExpires
  <1>2. /\ Claims' = Claims /\ (Restarted' <=> Restarted)
        /\ \A u, v \in User : Claimed(u)' /\ Claimed(v)' => u = v
    BY <1>1 DEF Claims, Claimed, Restarted, Alone
  <1>3. ~ FwReady("STOP")
    <2>1. h2m # <<>> => Head(h2m) \in Message \ {"STOP"}
      BY AloneTypes, TailType DEF Stopless
    <2> QED
      BY <2>1
  <1>4. h2m # <<>> => Tail(h2m) \in Seq(Message \ {"STOP"})
    BY AloneTypes, TailType DEF Stopless
  <1>5. ASSUME fw_pc = "idle", h2m # <<>>, h2m' = Tail(h2m), fw_pc' = "idle"
        PROVE  Pending' = Pending - (IF Head(h2m) \in Guarded THEN 1 ELSE 0)
    BY <1>5, TakeCommand
  <1>6. ASSUME FwReady("SEARCH") \/ FwReady("RESET")
        PROVE  Pending = 1 /\ Claims = 0 /\ Plain = 0 /\ ~ AtWork /\ ~ Restarted /\ is_active
    <2>1. Count(h2m, Guarded) > 0
      BY <1>6, AloneTypes, CountType DEF Guarded
    <2>2. Pending > 0
      <3>1. fw_pc # "hung"
        BY <1>6
      <3>2. Pending = Count(h2m, Guarded)
        BY <3>1, BalanceTypes DEF Pending, Commands, IInv
      <3> QED
        BY <2>1, <3>2
    <2>3. Pending = 1 /\ Claims = 0 /\ Plain = 0 /\ Busy = 0 /\ is_active
      BY <1>0, <2>2
    <2> QED
      BY <2>3 DEF Busy
  <1>7. CASE SearchRefused
    <2>1. /\ m2h' \in Seq(StoplessReply) /\ (Plain' = Plain \/ Plain' = Plain + 1)
          /\ NoTimeout(m2h)' <=> NoTimeout(m2h)
      BY <1>0, <1>7, ReplyAlone DEF SearchRefused, Request
    <2>2. Pending' = Pending - 1
      BY <1>5, <1>7 DEF SearchRefused, Guarded
    <2>3. ~ AtWork' /\ Busy' = 0
      BY <1>2, <1>6, <1>7, <2>1 DEF SearchRefused, AtWork, Busy
    <2>4. Stopless'
      BY <1>4, <1>7, <2>1 DEF SearchRefused, Stopless
    <2>5. Claims' + Pending' + Plain' + Busy' <= 1 /\ is_active'
      BY <1>0, <1>1, <1>2, <1>6, <1>7, <2>1, <2>2, <2>3 DEF SearchRefused
    <2> QED
      BY <1>1, <1>2, <1>7, <2>3, <2>4, <2>5 DEF SearchRefused, Alone
  <1>8. CASE SearchAckTimeout \/ SearchStarted
    <2>1. m2h' \in Seq(StoplessReply) /\ Plain' = Plain
      <3>1. CASE SearchAckTimeout
        BY <1>0, <3>1, ReplyAlone DEF SearchAckTimeout, Request
      <3>2. CASE SearchStarted
        BY <1>0, <3>2 DEF SearchStarted, Plain, Count, Places
      <3> QED
        BY <1>8, <3>1, <3>2
    <2>2. Pending' = Pending - 1
      BY <1>5, <1>8 DEF SearchAckTimeout, SearchStarted, Guarded
    <2>3. ~ Restarted
      BY <1>6, <1>8 DEF SearchAckTimeout, SearchStarted
    <2>4. Stopless'
      BY <1>4, <1>8, <2>1 DEF SearchAckTimeout, SearchStarted, Stopless
    <2>5. Claims' + Pending' + Plain' + Busy' <= 1 /\ is_active'
      BY <1>0, <1>1, <1>2, <1>6, <1>8, <2>1, <2>2 DEF SearchAckTimeout, SearchStarted
    <2>6. fw_pc' = "idle"
      BY <1>8 DEF SearchAckTimeout, SearchStarted
    <2> QED
      BY <1>1, <1>2, <2>3, <2>4, <2>5, <2>6 DEF Alone
  <1>9. CASE DoReset
    <2>1. Plain' = Plain /\ Pending' = Pending - 1
      <3>1. Commands(h2m)' = Commands(h2m) /\ Commands(h2m) \in Nat
        BY <1>9, BalanceTypes DEF DoReset, IInv, Commands, Count, Places
      <3> QED
        BY <1>9, <3>1 DEF DoReset, Plain, Count, Places, Pending
    <2>2. ~ Restarted /\ vspa \notin Guarded
      BY <1>6, <1>9 DEF DoReset, AtWork
    <2>3. Stopless'
      BY <1>9 DEF DoReset, Stopless
    <2>4. Claims' + Pending' + Plain' + Busy' <= 1 /\ is_active'
      BY <1>0, <1>1, <1>2, <1>6, <1>9, <2>1 DEF DoReset
    <2> QED
      BY <1>1, <1>2, <1>9, <2>2, <2>3, <2>4 DEF DoReset, Alone
  <1>10. CASE DoOther
    <2>1. /\ m2h' \in Seq(StoplessReply) /\ Plain' = Plain
          /\ NoTimeout(m2h)' <=> NoTimeout(m2h)
      <3>1. CASE Head(h2m) = "MEM_INIT"
        BY <1>0, <1>10, <3>1 DEF DoOther, Plain, Count, Places, NoTimeout
      <3>2. CASE Head(h2m) # "MEM_INIT"
        <4>1. Reply(Head(h2m), "OK") /\ Head(h2m) \in Request \ {"STOP"} /\ Head(h2m) \notin Guarded
          BY <1>10, <3>2 DEF DoOther, Request, Guarded
        <4> QED
          BY <1>0, <4>1, ReplyAlone
      <3> QED
        BY <3>1, <3>2
    <2>2. Pending' = Pending
      BY <1>0, <1>5, <1>10 DEF DoOther, Guarded
    <2>3. (AtWork' <=> AtWork) /\ Busy' = Busy
      BY <1>2, <1>10, <2>1 DEF DoOther, AtWork, Busy
    <2>4. Stopless'
      BY <1>4, <1>10, <2>1 DEF DoOther, Stopless
    <2> QED
      BY <1>0, <1>1, <1>2, <1>10, <2>1, <2>2, <2>3, <2>4 DEF DoOther, Alone
  <1>11. CASE VspaDone \/ TimerExpires
    <2>1. m2h' \in Seq(StoplessReply) /\ Plain' = Plain
      <3>1. CASE VspaDone
        BY <1>0, <3>1 DEF VspaDone, Plain, Count, Places
      <3>2. CASE TimerExpires
        <4>1. vspa_timer \in Request \ {"STOP"}
          BY <1>0, <3>2 DEF TimerExpires, Guarded, Request
        <4> QED
          BY <1>0, <3>2, <4>1, ReplyAlone DEF TimerExpires
      <3> QED
        BY <1>11, <3>1, <3>2
    <2>2. Pending' = Pending
      BY <1>11 DEF VspaDone, TimerExpires, Pending, Commands, Count, Places
    <2>3. AtWork
      BY <1>11 DEF VspaDone, TimerExpires, AtWork, Guarded
    <2>4. Busy = 1 /\ ~ Restarted
      BY <2>3 DEF Busy, Alone
    <2>5. Claims' + Pending' + Plain' + Busy' <= 1 /\ is_active'
      BY <1>0, <1>1, <1>2, <2>1, <2>2, <2>4
    <2>6. Stopless'
      BY <1>11, <2>1 DEF VspaDone, TimerExpires, Stopless
    <2>7. fw_pc' = "hung" => vspa' \notin Guarded
      BY <1>11 DEF VspaDone, TimerExpires, Alone, Guarded, NoCmd
    <2> QED
      BY <1>2, <2>4, <2>5, <2>6, <2>7 DEF Alone
  <1>12. ~ StopTimer /\ \A status \in {"OK", "ERR", "TIMEOUT"} : ~ DoStop(status)
    BY <1>0, <1>3 DEF StopTimer, DoStop
  <1> QED
    BY <1>7, <1>8, <1>9, <1>10, <1>11, <1>12 DEF RxLoop

LEMMA PollAlone ==
    ASSUME IInv, NoStop, Stopless, Alone, UNCHANGED app, Poll
    PROVE  Stopless' /\ Alone'
  <1> USE DEF libVars, userVars, pollVars, fwVars, history
  <1>0. /\ (Claims = 0 \/ Claims = 1) /\ (Busy = 0 \/ Busy = 1)
        /\ Pending \in Nat /\ Plain \in Nat
        /\ Claims + Pending + Plain + Busy <= 1
        /\ Claims + Pending + Plain + Busy = 1 => is_active
        /\ h2m \in Seq(Message \ {"STOP"}) /\ m2h \in Seq(StoplessReply)
        /\ h2m \in Seq(Message) /\ m2h \in Seq(ReplyMessage)
        /\ Len(h2m) <= Capacity /\ Len(m2h) <= Capacity
        /\ PollShape
    BY AloneTypes DEF Alone, Stopless, IInv, Shape
  <1>1. UNCHANGED <<user_pc, user_req>>
    BY DEF Poll, ProcessReply, ProcessStopReply, IgnoreReply, ResetBegin, ResetEnd,
           SendMemInit, Finish
  <1>2. /\ Claims' = Claims
        /\ \A u, v \in User : Claimed(u)' /\ Claimed(v)' => u = v
    BY <1>1 DEF Claims, Claimed, Alone
  <1>3. CASE ProcessReply \/ ResetBegin
    <2>1. UNCHANGED <<h2m, m2h, fw_pc, vspa, vspa_timer, reset_done, is_active>>
      BY <1>3 DEF ProcessReply, ResetBegin
    <2>2. Pending' = Pending /\ Plain' = Plain /\ (AtWork' <=> AtWork)
      BY <2>1 DEF Pending, Plain, Commands, Count, Places, AtWork, NoTimeout
    <2>3. ~ Restarted /\ ~ Restarted'
      BY <1>0, <1>3, <2>1 DEF ProcessReply, ResetBegin, Restarted, PollShape
    <2>4. Busy' = Busy
      BY <2>2, <2>3 DEF Busy
    <2>5. Stopless'
      BY <1>1, <1>3, <2>1 DEF ProcessReply, ResetBegin, Stopless
    <2> QED
      BY <1>0, <1>2, <2>1, <2>2, <2>3, <2>4, <2>5 DEF Alone
  <1>4. ~ ProcessStopReply
    <2>1. m2h # <<>> => Head(m2h) \in StoplessReply
      BY <1>0, TailType
    <2> QED
      BY <2>1 DEF ProcessStopReply, StoplessReply
  <1>5. CASE IgnoreReply
    <2>1. /\ m2h # <<>> /\ Head(m2h).type \notin Guarded /\ Head(m2h).status # "TIMEOUT"
          /\ m2h' = Tail(m2h)
      <3>1. m2h # <<>> /\ Head(m2h).type \in {"FOLLOW", "SCAN"}
        BY <1>5 DEF IgnoreReply
      <3>2. 1 \in 1 .. Len(m2h) /\ Head(m2h) = m2h[1]
        BY <1>0, <3>1, TailFacts
      <3>3. Head(m2h).status = "OK"
        BY <1>0, <3>1, <3>2 DEF PollShape
      <3> QED
        BY <1>5, <3>1, <3>3 DEF IgnoreReply, Guarded
    <2>2. UNCHANGED <<h2m, fw_pc, vspa, vspa_timer, reset_done, is_active, poll_pc, poll_type>>
      BY <1>5 DEF IgnoreReply
    <2>3. Plain' = Plain /\ (NoTimeout(m2h)' <=> NoTimeout(m2h))
      <3>1. /\ Plain' = Count(Tail(m2h), PlainReply)
            /\ NoTimeout(m2h)' <=> NoTimeout(Tail(m2h))
        BY <2>1 DEF Plain, Count, Places, NoTimeout
      <3>2. Head(m2h) \notin PlainReply
        BY <2>1 DEF PlainReply
      <3>3. Count(Tail(m2h), PlainReply) = Count(m2h, PlainReply) - 0
        BY <1>0, <2>1, <3>2, CountTail
      <3> QED
        BY <1>0, <2>1, <3>1, <3>3, AnswersTail DEF Plain
    <2>4. Pending' = Pending /\ (AtWork' <=> AtWork) /\ (Restarted' <=> Restarted)
      BY <2>2, <2>3 DEF Pending, Commands, Count, Places, AtWork, Restarted
    <2>5. Busy' = Busy
      BY <2>4 DEF Busy
    <2>6. m2h' \in Seq(StoplessReply)
      BY <1>0, <2>1, TailType
    <2>7. Stopless'
      BY <1>1, <2>2, <2>6 DEF Stopless
    <2> QED
      BY <1>0, <1>2, <2>2, <2>3, <2>4, <2>5, <2>7 DEF Alone
  <1>6. CASE ResetEnd
    <2>1. /\ h2m' = <<>> /\ m2h' = <<>> /\ fw_pc' = "idle" /\ poll_pc' = "mem_init"
          /\ vspa' = NoCmd /\ vspa_timer' = NoCmd
          /\ UNCHANGED <<is_active, poll_type>> /\ poll_pc = "resetting"
      BY <1>6 DEF ResetEnd
    <2>2. Busy = 1
      <3>1. m2h # <<>> /\ Head(m2h).status = "TIMEOUT"
        BY <1>0, <2>1 DEF PollShape
      <3>2. 1 \in 1 .. Len(m2h) /\ Head(m2h) = m2h[1]
        BY <1>0, <3>1, TailFacts
      <3> QED
        BY <3>1, <3>2 DEF Busy, AtWork, NoTimeout
    <2>3. Pending' = 0 /\ Plain' = 0
      <3>1. Count(<<>>, Guarded) = 0 /\ Count(<<>>, PlainReply) = 0
        BY CountEmpty
      <3> QED
        BY <2>1, <3>1 DEF Pending, Plain, Commands, Count, Places
    <2>4. ~ AtWork'
      BY <2>1 DEF AtWork, NoTimeout, Guarded, NoCmd
    <2>5. Stopless'
      BY <1>1, <2>1 DEF Stopless
    <2>6. Claims = 0 /\ is_active /\ (Busy' = 0 \/ Busy' = 1)
      BY <1>0, <2>2 DEF Busy
    <2> QED
      BY <1>2, <2>1, <2>3, <2>4, <2>5, <2>6 DEF Alone
  <1>7. CASE SendMemInit
    <2>1. /\ reset_done /\ reset_done' /\ poll_pc = "mem_init" /\ poll_pc' = "finish"
          /\ UNCHANGED <<m2h, poll_type, is_active, fw_pc, vspa, vspa_timer>>
      BY <1>0, <1>7 DEF SendMemInit, PollShape
    <2>2. Plain' = Plain /\ (AtWork' <=> AtWork) /\ Restarted /\ Restarted'
      BY <2>1 DEF Plain, Count, Places, AtWork, NoTimeout, Restarted
    <2>3. Busy' = Busy
      BY <2>2 DEF Busy
    <2>4. Pending' = Pending /\ h2m' \in Seq(Message \ {"STOP"})
      <3>1. CASE h2m' = h2m
        BY <1>0, <2>1, <3>1 DEF Pending, Commands, Count, Places
      <3>2. CASE h2m' = Append(h2m, "MEM_INIT") /\ Len(h2m) < Capacity
        <4>1. "MEM_INIT" \in Message \ {"STOP"} /\ "MEM_INIT" \notin Guarded
          BY DEF Message, Guarded
        <4>2. Commands(h2m)' = Count(Append(h2m, "MEM_INIT"), Guarded)
          BY <3>2 DEF Commands, Count, Places
        <4>3. Commands(h2m)' = Commands(h2m)
          BY <1>0, <4>1, <4>2, CountAppend, CountType DEF Commands
        <4>4. h2m' \in Seq(Message \ {"STOP"})
          BY <1>0, <3>2, <4>1, AppendType
        <4> QED
          BY <2>1, <4>3, <4>4 DEF Pending
      <3> QED
        BY <1>7, <3>1, <3>2 DEF SendMemInit, CanSend
    <2>5. Stopless'
      BY <1>1, <2>1, <2>4 DEF Stopless
    <2> QED
      BY <1>0, <1>2, <2>1, <2>2, <2>3, <2>4, <2>5 DEF Alone
  <1>8. CASE Finish
    <2>1. /\ poll_pc = "finish" /\ poll_pc' = "idle"
          /\ UNCHANGED <<h2m, fw_pc, vspa, vspa_timer>>
      BY <1>8 DEF Finish
    <2>2. Pending' = Pending /\ ~ Restarted'
      BY <2>1 DEF Pending, Commands, Count, Places, Restarted
    <2>3. CASE reset_done
      <3>1. m2h' = m2h
        BY <1>8, <2>3 DEF Finish
      <3>2. Restarted /\ ~ AtWork /\ Busy = 1
        BY <2>1, <2>3 DEF Restarted, Busy, Alone
      <3>3. Plain' = Plain /\ ~ AtWork'
        BY <2>1, <3>1, <3>2 DEF Plain, Count, Places, AtWork, NoTimeout
      <3>4. Busy' = 0
        BY <2>2, <3>3 DEF Busy
      <3>5. Stopless'
        BY <1>0, <1>1, <2>1, <3>1 DEF Stopless
      <3>6. Claims' + Pending' + Plain' + Busy' = 0
        BY <1>0, <1>2, <2>2, <3>2, <3>3, <3>4
      <3> QED
        BY <1>2, <2>1, <2>2, <3>5, <3>6 DEF Alone
    <2>4. CASE ~ reset_done
      <3>1. /\ m2h' = Tail(m2h) /\ m2h # <<>>
            /\ Head(m2h).status # "TIMEOUT" /\ Head(m2h).type \in Guarded
        BY <1>0, <1>8, <2>1, <2>4 DEF Finish, PollShape, Stopless
      <3>2. Head(m2h) \in PlainReply
        <4>1. Head(m2h) \in ReplyMessage
          BY <1>0, <3>1, TailType
        <4> QED
          BY <3>1, <4>1 DEF ReplyMessage, PlainReply
      <3>3. Plain > 0 /\ Plain' = Plain - 1
        <4>1. Plain' = Count(Tail(m2h), PlainReply)
          BY <3>1 DEF Plain, Count, Places
        <4>2. Count(Tail(m2h), PlainReply) = Count(m2h, PlainReply) - 1
          BY <1>0, <3>1, <3>2, CountTail
        <4>3. Count(m2h, PlainReply) > 0
          BY <1>0, <3>1, <3>2, CountType
        <4> QED
          BY <4>1, <4>2, <4>3 DEF Plain
      <3>4. Busy = 0 /\ ~ AtWork
        BY <1>0, <3>3 DEF Busy
      <3>5. NoTimeout(m2h)'
        <4>1. NoTimeout(m2h)' <=> NoTimeout(Tail(m2h))
          BY <3>1 DEF NoTimeout
        <4> QED
          BY <1>0, <3>1, <3>4, <4>1, AnswersTail DEF AtWork
      <3>6. ~ AtWork' /\ Busy' = 0
        BY <2>1, <2>2, <3>4, <3>5 DEF AtWork, Busy
      <3>7. m2h' \in Seq(StoplessReply)
        BY <1>0, <3>1, TailType
      <3>8. Stopless'
        BY <1>0, <1>1, <2>1, <3>7 DEF Stopless
      <3>9. Claims' + Pending' + Plain' + Busy' = 0
        BY <1>0, <1>2, <2>2, <3>3, <3>6
      <3> QED
        BY <1>2, <2>1, <2>2, <3>8, <3>9 DEF Alone
    <2> QED
      BY <2>3, <2>4
  <1> QED
    BY <1>3, <1>4, <1>5, <1>6, <1>7, <1>8 DEF Poll

-------------------------------------------------------------------------------
(* What a STOP answered with OK means. *)

\* Where a STOP that a response is owed for may be: with its caller, in the
\* channel to the modem until prvDoStop has served it, or, as a reply, in the
\* channel to the host until process_stop_reply has taken it up.
InHands(u) == user_pc[u] \in {"stop_send", "stop_wait"}
StopSent(i) == h2m[i] = "STOP" /\ ~ (i = 1 /\ fw_pc = "stopping")
HeadTaken == poll_pc \in {"reset", "resetting", "finish"} /\ ~ reset_done
StopReplied(i) == m2h[i].type = "STOP" /\ ~ (i = 1 /\ HeadTaken)
UnderWay ==
    \/ \E u \in User : InHands(u)
    \/ \E i \in 1 .. Len(h2m) : StopSent(i)
    \/ \E i \in 1 .. Len(m2h) : StopReplied(i)

\* It is in one place at most, and as long as it is in one a response is owed.
OneStop ==
    /\ stops_owed \in {0, 1}
    /\ UnderWay => stops_owed = 1
    /\ \A u \in User, i \in 1 .. Len(h2m) : ~ (InHands(u) /\ StopSent(i))
    /\ \A u \in User, i \in 1 .. Len(m2h) : ~ (InHands(u) /\ StopReplied(i))
    /\ \A i \in 1 .. Len(h2m), j \in 1 .. Len(m2h) : ~ (StopSent(i) /\ StopReplied(j))
    /\ \A i, j \in 1 .. Len(h2m) : StopSent(i) /\ StopSent(j) => i = j
    /\ \A i, j \in 1 .. Len(m2h) : StopReplied(i) /\ StopReplied(j) => i = j

\* Who is in the library, and with what.
Turns ==
    /\ \A u \in User : user_pc[u] # "idle" => u \in app.users
    /\ \A u \in User : user_pc[u] = "enter" /\ user_req[u] = "STOP" => stops_owed = 0
    /\ \A u \in User : user_pc[u] \in {"check", "send"} => user_req[u] # "STOP"

\* As long as crt_cmd says that nothing was asked for since the STOP, but for a
\* reset: stop_in_progress keeps the reset out ...
HeldOff ==
    crt_cmd = "STOP" /\ UnderWay =>
        /\ stop_in_progress
        /\ \A u \in User : user_pc[u] # "send"

\* ... so no guarded command is behind the STOP, and none is left once the VSPA
\* has stopped.
Cleared ==
    crt_cmd = "STOP" =>
        /\ \A i \in 1 .. Len(h2m) : StopSent(i) =>
              \A j \in i + 1 .. Len(h2m) : h2m[j] \notin Guarded
        /\ \A i \in 1 .. Len(m2h) : StopReplied(i) /\ m2h[i].status = "OK" =>
              /\ vspa \notin Guarded
              /\ \A j \in 1 .. Len(h2m) : h2m[j] \notin Guarded

StopInv == OneStop /\ Turns /\ HeldOff /\ Cleared

\* What a step does to the channels: each STOP, each guarded command and each
\* reply to a STOP was k, or l, places further back before it.
StopsFollow(k) ==
    \A i \in 1 .. Len(h2m') :
        StopSent(i)' => i + k \in 1 .. Len(h2m) /\ StopSent(i + k)
CommandsFollow(k) ==
    \A i \in 1 .. Len(h2m') :
        h2m'[i] \in Guarded => i + k \in 1 .. Len(h2m) /\ h2m[i + k] \in Guarded
RepliesFollow(l) ==
    \A i \in 1 .. Len(m2h') :
        StopReplied(i)' => /\ i + l \in 1 .. Len(m2h) /\ StopReplied(i + l)
                           /\ m2h[i + l].status = m2h'[i].status

LEMMA ChannelLengths ==
    ASSUME TypeOK PROVE Len(h2m) \in Nat /\ Len(m2h) \in Nat
  BY LenProperties DEF TypeOK, ChannelTypes

LEMMA CommandsSame ==
    ASSUME TypeOK, h2m' = h2m, fw_pc = "stopping" => fw_pc' = "stopping"
    PROVE  StopsFollow(0) /\ CommandsFollow(0)
  <1>1. \A i \in 1 .. Len(h2m) : i + 0 = i
    BY ChannelLengths
  <1> QED
    BY <1>1 DEF StopsFollow, CommandsFollow, StopSent

LEMMA CommandsTail ==
    ASSUME TypeOK, h2m # <<>>, h2m' = Tail(h2m)
    PROVE  StopsFollow(1) /\ CommandsFollow(1)
  <1>1. /\ Len(h2m) \in Nat /\ Len(h2m') = Len(h2m) - 1
        /\ \A i \in 1 .. Len(h2m) - 1 : h2m'[i] = h2m[i + 1]
    BY TailFacts DEF TypeOK, ChannelTypes
  <1>2. \A i \in 1 .. Len(h2m') : i + 1 \in 1 .. Len(h2m) /\ i + 1 # 1
    BY <1>1
  <1> QED
    BY <1>1, <1>2 DEF StopsFollow, CommandsFollow, StopSent

LEMMA CommandAdded ==
    ASSUME TypeOK, NEW m \in Message, h2m' = Append(h2m, m), fw_pc' = fw_pc, m # "STOP"
    PROVE  StopsFollow(0) /\ (m \notin Guarded => CommandsFollow(0))
  <1>1. /\ Len(h2m) \in Nat /\ Len(h2m') = Len(h2m) + 1 /\ h2m'[Len(h2m) + 1] = m
        /\ \A i \in 1 .. Len(h2m) : h2m'[i] = h2m[i] /\ i + 0 = i
    BY AppendFacts DEF TypeOK, ChannelTypes
  <1>2. \A i \in 1 .. Len(h2m') : i \in 1 .. Len(h2m) \/ h2m'[i] = m
    BY <1>1
  <1> QED
    BY <1>1, <1>2 DEF StopsFollow, CommandsFollow, StopSent

LEMMA RepliesSame ==
    ASSUME TypeOK, m2h' = m2h, HeadTaken => HeadTaken'
    PROVE  RepliesFollow(0)
  <1>1. \A i \in 1 .. Len(m2h) : i + 0 = i
    BY ChannelLengths
  <1> QED
    BY <1>1 DEF RepliesFollow, StopReplied

LEMMA RepliesTail ==
    ASSUME TypeOK, m2h # <<>>, m2h' = Tail(m2h)
    PROVE  RepliesFollow(1)
  <1>1. /\ Len(m2h) \in Nat /\ Len(m2h') = Len(m2h) - 1
        /\ \A i \in 1 .. Len(m2h) - 1 : m2h'[i] = m2h[i + 1]
    BY TailFacts DEF TypeOK, ChannelTypes
  <1>2. \A i \in 1 .. Len(m2h') : i + 1 \in 1 .. Len(m2h) /\ i + 1 # 1
    BY <1>1
  <1> QED
    BY <1>1, <1>2 DEF RepliesFollow, StopReplied

LEMMA ReplyAdded ==
    ASSUME TypeOK, NEW type \in Request, NEW status \in {"OK", "ERR", "TIMEOUT"},
           Reply(type, status), type # "STOP", UNCHANGED <<poll_pc, reset_done>>
    PROVE  RepliesFollow(0)
  <1> DEFINE m == [type |-> type, status |-> status]
  <1>1. (HeadTaken' <=> HeadTaken) /\ m \in ReplyMessage /\ m.type # "STOP"
    BY DEF HeadTaken, ReplyMessage
  <1>2. CASE m2h' = m2h
    BY <1>1, <1>2, RepliesSame
  <1>3. CASE m2h' = Append(m2h, m)
    <2>1. /\ Len(m2h) \in Nat /\ Len(m2h') = Len(m2h) + 1 /\ m2h'[Len(m2h) + 1] = m
          /\ \A i \in 1 .. Len(m2h) : m2h'[i] = m2h[i] /\ i + 0 = i
      BY <1>1, <1>3, AppendFacts DEF TypeOK, ChannelTypes
    <2>2. \A i \in 1 .. Len(m2h') : i \in 1 .. Len(m2h) \/ m2h'[i] = m
      BY <2>1
    <2> HIDE DEF m
    <2> QED
      BY <1>1, <2>1, <2>2 DEF RepliesFollow, StopReplied
  <1> QED
    BY <1>2, <1>3 DEF Reply

\* A step that brings no new STOP.
LEMMA OneStopKept ==
    ASSUME OneStop, stops_owed' = stops_owed,
           \A u \in User : InHands(u)' => InHands(u),
           NEW k \in Nat, StopsFollow(k), NEW l \in Nat, RepliesFollow(l),
           TypeOK, TypeOK'
    PROVE  OneStop' /\ (UnderWay' => UnderWay)
  <1>1. UnderWay' => UnderWay
    BY DEF UnderWay, StopsFollow, RepliesFollow
  <1>2. Len(h2m') \in Nat /\ Len(m2h') \in Nat
    BY LenProperties DEF TypeOK, ChannelTypes
  <1>3. \A i, j \in 1 .. Len(h2m') : StopSent(i)' /\ StopSent(j)' => i = j
    <2> SUFFICES ASSUME NEW i \in 1 .. Len(h2m'), NEW j \in 1 .. Len(h2m'),
                        StopSent(i)', StopSent(j)'
                 PROVE  i = j
      OBVIOUS
    <2>1. i + k = j + k
      BY DEF OneStop, StopsFollow
    <2> QED
      BY <1>2, <2>1
  <1>4. \A i, j \in 1 .. Len(m2h') : StopReplied(i)' /\ StopReplied(j)' => i = j
    <2> SUFFICES ASSUME NEW i \in 1 .. Len(m2h'), NEW j \in 1 .. Len(m2h'),
                        StopReplied(i)', StopReplied(j)'
                 PROVE  i = j
      OBVIOUS
    <2>1. i + l = j + l
      BY DEF OneStop, RepliesFollow
    <2> QED
      BY <1>2, <2>1
  <1>5. \A i \in 1 .. Len(h2m'), j \in 1 .. Len(m2h') : ~ (StopSent(i)' /\ StopReplied(j)')
    BY DEF OneStop, StopsFollow, RepliesFollow
  <1>6. /\ \A u \in User, i \in 1 .. Len(h2m') : ~ (InHands(u)' /\ StopSent(i)')
        /\ \A u \in User, i \in 1 .. Len(m2h') : ~ (InHands(u)' /\ StopReplied(i)')
    BY DEF OneStop, StopsFollow, RepliesFollow
  <1> QED
    BY <1>1, <1>3, <1>4, <1>5, <1>6 DEF OneStop

\* A step after which no STOP that crt_cmd knows of is under way.
LEMMA NoneKnown ==
    ASSUME crt_cmd' = "STOP" => ~ UnderWay' PROVE HeldOff' /\ Cleared'
  BY DEF HeldOff, Cleared, UnderWay

\* A step that brings neither a STOP nor a guarded command.
LEMMA StopKept ==
    ASSUME OneStop, HeldOff, Cleared, TypeOK, TypeOK', stops_owed' = stops_owed,
           crt_cmd' = "STOP" => crt_cmd = "STOP", stop_in_progress' = stop_in_progress,
           \A u \in User : /\ InHands(u)' => InHands(u)
                           /\ user_pc'[u] = "send" /\ stop_in_progress => user_pc[u] = "send",
           NEW k \in Nat, StopsFollow(k), CommandsFollow(k),
           NEW l \in Nat, RepliesFollow(l),
           vspa' \in Guarded =>
               vspa \in Guarded \/ \E j \in 1 .. Len(h2m) : h2m[j] \in Guarded
    PROVE  OneStop' /\ HeldOff' /\ Cleared'
  <1>1. OneStop' /\ (UnderWay' => UnderWay)
    BY OneStopKept
  <1>2. HeldOff'
    BY <1>1 DEF HeldOff
  <1>3. ASSUME crt_cmd = "STOP", NEW i \in 1 .. Len(h2m'), StopSent(i)',
               NEW j \in i + 1 .. Len(h2m'), h2m'[j] \in Guarded
        PROVE  FALSE
    <2>0. Len(h2m') \in Nat
      BY LenProperties DEF TypeOK, ChannelTypes
    <2>1. i + k \in 1 .. Len(h2m) /\ StopSent(i + k)
      BY <1>3 DEF StopsFollow
    <2>2. j \in 1 .. Len(h2m')
      BY <2>0, <1>3
    <2>3. j + k \in 1 .. Len(h2m) /\ h2m[j + k] \in Guarded
      BY <1>3, <2>2 DEF CommandsFollow
    <2>4. j + k \in (i + k) + 1 .. Len(h2m)
      BY <1>3, <2>0, <2>2, <2>3, ChannelLengths
    <2> QED
      BY <1>3, <2>1, <2>3, <2>4 DEF Cleared
  <1>4. ASSUME crt_cmd = "STOP", NEW i \in 1 .. Len(m2h'), StopReplied(i)',
               m2h'[i].status = "OK"
        PROVE  vspa' \notin Guarded /\ \A j \in 1 .. Len(h2m') : h2m'[j] \notin Guarded
    <2>1. i + l \in 1 .. Len(m2h) /\ StopReplied(i + l) /\ m2h[i + l].status = "OK"
      BY <1>4 DEF RepliesFollow
    <2>2. vspa \notin Guarded /\ \A j \in 1 .. Len(h2m) : h2m[j] \notin Guarded
      BY <1>4, <2>1 DEF Cleared
    <2> QED
      BY <2>2 DEF CommandsFollow
  <1> QED
    BY <1>1, <1>2, <1>3, <1>4 DEF Cleared

\* At most one thread is in the library.
LEMMA OnlyOne ==
    ASSUME OneByOne, Turns, NEW u \in User, NEW v \in User,
           user_pc[u] # "idle", user_pc[v] # "idle"
    PROVE  u = v
  BY DEF OneByOne, Turns

LEMMA UserStop ==
    ASSUME OneByOne, IInv, TypeOK', StopInv, UNCHANGED app, NEW u \in User,
           (\E r \in Request : Call(u, r)) \/ Library(u)
    PROVE  StopInv'
  <1> USE DEF libVars, pollVars, fwVars, history, Goto
  <1>0. /\ TypeOK /\ OneStop /\ Turns /\ HeldOff /\ Cleared
        /\ user_pc \in [User -> {"idle", "enter", "check", "send", "sent",
                                 "stop_send", "stop_wait"}]
        /\ user_req \in [User -> Request \cup {NoCmd}]
        /\ stops_owed \in {0, 1}
    BY DEF IInv, TypeOK, UserTypes, StopInv, OneStop
  <1>1. UNCHANGED <<m2h, poll_pc, reset_done, fw_pc, vspa>>
    BY DEF Call, Library, Claim, Refuse, Accept, Send, SendFails, Sent, EnterStop,
           SendStop, StopWait
  <1>2. RepliesFollow(0)
    BY <1>0, <1>1, RepliesSame DEF HeadTaken
  <1>3. h2m' = h2m => StopsFollow(0) /\ CommandsFollow(0)
    BY <1>0, <1>1, CommandsSame
  <1>4. 0 \in Nat
    OBVIOUS
  <1>5. ASSUME NEW r \in Request, Call(u, r) PROVE StopInv'
    <2>1. /\ h2m' = h2m /\ stops_owed' = stops_owed /\ stop_in_progress' = stop_in_progress
          /\ user_pc' = [user_pc EXCEPT ![u] = IF r = "SCAN" THEN "send" ELSE "enter"]
          /\ user_req' = [user_req EXCEPT ![u] = r]
          /\ crt_cmd' = IF r = "RESET" THEN crt_cmd ELSE r
          /\ u \in app.users
          /\ r = "STOP" => stops_owed = 0
      BY <1>5 DEF Call, OneByOne
    <2>2. \A v \in User : InHands(v)' => InHands(v)
      BY <1>0, <2>1 DEF InHands
    <2>3. Turns'
      BY <1>0, <1>5, <2>1 DEF Turns, Call
    <2>4. OneStop' /\ (UnderWay' => UnderWay)
      BY <1>0, <1>2, <1>3, <1>4, <2>1, <2>2, OneStopKept
    <2>5. CASE r = "STOP"
      <3>1. ~ UnderWay'
        BY <1>0, <2>1, <2>4, <2>5 DEF OneStop
      <3> QED
        BY <2>3, <2>4, <3>1, NoneKnown DEF StopInv
    <2>6. CASE r = "RESET"
      <3>1. /\ crt_cmd' = crt_cmd
            /\ \A v \in User : user_pc'[v] = "send" => user_pc[v] = "send"
        BY <1>0, <2>1, <2>6
      <3>2. OneStop' /\ HeldOff' /\ Cleared'
        BY <1>0, <1>1, <1>2, <1>3, <1>4, <2>1, <2>2, <3>1, StopKept
      <3> QED
        BY <2>3, <3>2 DEF StopInv
    <2>7. CASE r \notin {"STOP", "RESET"}
      BY <2>1, <2>3, <2>4, <2>7, NoneKnown DEF StopInv
    <2> QED
      BY <2>5, <2>6, <2>7
  <1>6. CASE Claim(u) \/ Refuse(u) \/ Accept(u) \/ SendFails(u) \/ Sent(u)
    <2>1. /\ UNCHANGED <<h2m, stops_owed, stop_in_progress, crt_cmd, user_req>>
          /\ \E pc \in {"idle", "check", "send"} :
                /\ user_pc' = [user_pc EXCEPT ![u] = pc]
                /\ pc = "send" => ~ stop_in_progress
                /\ pc # "idle" => user_req[u] # "STOP"
                /\ pc # "idle" => user_pc[u] # "idle"
      <3>1. CASE Claim(u)
        BY <3>1 DEF Claim
      <3>2. CASE Accept(u)
        BY <1>0, <3>2 DEF Accept, Turns
      <3>3. CASE Refuse(u) \/ SendFails(u) \/ Sent(u)
        BY <3>3 DEF Refuse, SendFails, Sent
      <3> QED
        BY <1>6, <3>1, <3>2, <3>3
    <2>2. \A v \in User : /\ InHands(v)' => InHands(v)
                          /\ user_pc'[v] = "send" /\ stop_in_progress => user_pc[v] = "send"
      BY <1>0, <2>1 DEF InHands
    <2>3. Turns'
      BY <1>0, <2>1 DEF Turns
    <2>4. OneStop' /\ HeldOff' /\ Cleared'
      BY <1>0, <1>1, <1>2, <1>3, <1>4, <2>1, <2>2, StopKept
    <2> QED
      BY <2>3, <2>4 DEF StopInv
  <1>7. CASE Send(u)
    <2>1. /\ UNCHANGED <<stops_owed, stop_in_progress, crt_cmd, user_req>>
          /\ user_pc[u] = "send" /\ h2m' = Append(h2m, user_req[u])
          /\ \E pc \in {"idle", "sent"} : user_pc' = [user_pc EXCEPT ![u] = pc]
      BY <1>7 DEF Send
    <2>2. user_req[u] \in Message /\ user_req[u] # "STOP"
      BY <1>0, <2>1 DEF IInv, Requesting, Turns, Message
    <2>3. StopsFollow(0)
      BY <1>0, <1>1, <2>1, <2>2, CommandAdded
    <2>4. \A v \in User : InHands(v)' => InHands(v)
      BY <1>0, <2>1 DEF InHands
    <2>5. OneStop' /\ (UnderWay' => UnderWay)
      BY <1>0, <1>2, <1>4, <2>1, <2>3, <2>4, OneStopKept
    <2>6. crt_cmd' = "STOP" => ~ UnderWay'
      BY <1>0, <2>1, <2>5 DEF HeldOff
    <2>7. Turns'
      BY <1>0, <2>1 DEF Turns
    <2> QED
      BY <2>5, <2>6, <2>7, NoneKnown DEF StopInv
  <1>8. CASE EnterStop(u)
    <2>1. /\ UNCHANGED <<h2m, crt_cmd, user_req>> /\ user_pc[u] = "enter"
          /\ ~ UnderWay /\ stops_owed = 0
      BY <1>0, <1>8 DEF EnterStop, Turns, OneStop
    <2>2. CASE ~ is_active
      <3>1. /\ UNCHANGED <<stops_owed, stop_in_progress>>
            /\ user_pc' = [user_pc EXCEPT ![u] = "idle"]
        BY <1>8, <2>2 DEF EnterStop
      <3>2. \A v \in User : /\ InHands(v)' => InHands(v)
                            /\ user_pc'[v] = "send" /\ stop_in_progress => user_pc[v] = "send"
        BY <1>0, <3>1 DEF InHands
      <3>3. OneStop' /\ HeldOff' /\ Cleared'
        BY <1>0, <1>1, <1>2, <1>3, <1>4, <2>1, <3>1, <3>2, StopKept
      <3>4. Turns'
        BY <1>0, <2>1, <3>1 DEF Turns
      <3> QED
        BY <3>3, <3>4 DEF StopInv
    <2>3. CASE is_active
      <3>0. stops_owed' = stops_owed + 1 /\ stop_in_progress' = TRUE
        BY <1>8, <2>3 DEF EnterStop
      <3>1. /\ stops_owed' = 1 /\ stop_in_progress' = TRUE
            /\ \E pc \in {"stop_send", "stop_wait"} : user_pc' = [user_pc EXCEPT ![u] = pc]
        <4>1. user_pc' = [user_pc EXCEPT ![u] = IF vspa_active THEN "stop_send" ELSE "stop_wait"]
          BY <1>8, <2>3 DEF EnterStop
        <4>2. CASE vspa_active
          BY <2>1, <3>0, <4>1, <4>2
        <4>3. CASE ~ vspa_active
          BY <2>1, <3>0, <4>1, <4>3
        <4> QED
          BY <4>2, <4>3
      <3>2. \A v \in User \ {u} : user_pc'[v] = "idle"
        BY <1>0, <2>1, <3>1, OnlyOne
      <3>3. /\ \A i \in 1 .. Len(h2m') : ~ StopSent(i)'
            /\ \A i \in 1 .. Len(m2h') : ~ StopReplied(i)'
        BY <1>2, <1>3, <2>1 DEF UnderWay, StopsFollow, RepliesFollow
      <3>4. OneStop'
        BY <3>1, <3>3 DEF OneStop
      <3>5. user_pc'[u] # "send" /\ user_pc'[u] # "enter" /\ user_pc'[u] # "check"
        BY <1>0, <3>1
      <3>6. HeldOff'
        BY <3>1, <3>2, <3>5 DEF HeldOff
      <3>7. Cleared'
        BY <3>3 DEF Cleared
      <3>8. Turns'
        BY <1>0, <2>1, <3>2, <3>5 DEF Turns
      <3> QED
        BY <3>4, <3>6, <3>7, <3>8 DEF StopInv
    <2> QED
      BY <2>2, <2>3
  <1>9. ASSUME InHands(u)
        PROVE  /\ stops_owed = 1
               /\ \A i \in 1 .. Len(h2m) : ~ StopSent(i)
               /\ \A i \in 1 .. Len(m2h) : ~ StopReplied(i)
               /\ \A v \in User \ {u} : user_pc[v] = "idle"
    BY <1>0, <1>9, OnlyOne DEF OneStop, UnderWay, InHands
  <1>10. ASSUME InHands(u), stops_owed' = 0, user_pc' = [user_pc EXCEPT ![u] = "idle"],
                h2m' = h2m
         PROVE  StopInv'
    <2>1. \A v \in User : user_pc'[v] = "idle"
      BY <1>0, <1>9, <1>10
    <2>2. /\ \A i \in 1 .. Len(h2m') : ~ StopSent(i)'
          /\ \A i \in 1 .. Len(m2h') : ~ StopReplied(i)'
      BY <1>2, <1>3, <1>9, <1>10 DEF StopsFollow, RepliesFollow
    <2>3. ~ UnderWay'
      BY <2>1, <2>2 DEF UnderWay, InHands
    <2>4. OneStop'
      BY <1>10, <2>1, <2>2, <2>3 DEF OneStop, InHands
    <2>5. Turns'
      BY <2>1 DEF Turns
    <2> QED
      BY <2>3, <2>4, <2>5, NoneKnown DEF StopInv
  <1>11. CASE SendStop(u)
    <2>1. InHands(u) /\ user_pc' = [user_pc EXCEPT ![u] = "idle"]
          /\ UNCHANGED <<stop_in_progress, crt_cmd, user_req>>
      BY <1>11 DEF SendStop, InHands
    <2>2. CASE ~ CanSend
      <3>1. stops_owed' = 0 /\ h2m' = h2m
        BY <1>9, <1>11, <2>1, <2>2 DEF SendStop, Less
      <3> QED
        BY <1>10, <2>1, <3>1
    <2>3. CASE CanSend
      <3>1. h2m' = Append(h2m, "STOP") /\ stops_owed' = 1
        BY <1>9, <1>11, <2>1, <2>3 DEF SendStop
      <3>2. \A v \in User : user_pc'[v] = "idle"
        BY <1>0, <1>9, <2>1
      <3>3. /\ Len(h2m) \in Nat /\ Len(h2m') = Len(h2m) + 1
            /\ \A i \in 1 .. Len(h2m) : h2m'[i] = h2m[i]
        <4>1. "STOP" \in Message /\ h2m \in Seq(Message)
          BY <1>0 DEF Message, Request, TypeOK, ChannelTypes
        <4> QED
          BY <3>1, <4>1, AppendFacts
      <3>4. \A i \in 1 .. Len(h2m') : StopSent(i)' => i = Len(h2m) + 1
        <4>1. \A i \in 1 .. Len(h2m) : ~ StopSent(i)'
          BY <1>1, <1>9, <2>1, <3>3 DEF StopSent
        <4> QED
          BY <3>3, <4>1
      <3>5. \A i \in 1 .. Len(m2h') : ~ StopReplied(i)'
        BY <1>2, <1>9, <2>1 DEF RepliesFollow
      <3>6. OneStop'
        BY <3>1, <3>2, <3>4, <3>5 DEF OneStop, InHands
      <3>7. HeldOff'
        BY <1>0, <2>1, <3>2 DEF HeldOff, UnderWay
      <3>8. Cleared'
        BY <3>3, <3>4, <3>5 DEF Cleared
      <3>9. Turns'
        BY <3>2 DEF Turns
      <3> QED
        BY <3>6, <3>7, <3>8, <3>9 DEF StopInv
    <2> QED
      BY <2>2, <2>3
  <1>12. CASE StopWait(u)
    <2>1. InHands(u) /\ h2m' = h2m /\ UNCHANGED <<crt_cmd, user_req>>
      BY <1>12 DEF StopWait, InHands
    <2>2. CASE ~ is_active
      <3>1. stops_owed' = 0 /\ user_pc' = [user_pc EXCEPT ![u] = "idle"]
        BY <1>9, <1>12, <2>1, <2>2 DEF StopWait, Less
      <3> QED
        BY <1>10, <2>1, <3>1
    <2>3. CASE is_active
      <3>1. /\ stops_owed' = stops_owed /\ stop_in_progress' = TRUE
            /\ user_pc' = [user_pc EXCEPT ![u] = "stop_send"]
        BY <1>12, <2>3 DEF StopWait
      <3>2. \A v \in User : InHands(v)' => InHands(v)
        BY <1>0, <2>1, <3>1 DEF InHands
      <3>3. OneStop' /\ (UnderWay' => UnderWay)
        BY <1>0, <1>2, <1>3, <1>4, <2>1, <3>1, <3>2, OneStopKept
      <3>4. \A v \in User : user_pc'[v] \in {"idle", "stop_send"}
        BY <1>0, <1>9, <2>1, <3>1
      <3>5. HeldOff'
        BY <3>1, <3>4 DEF HeldOff
      <3>6. /\ \A i \in 1 .. Len(h2m') : ~ StopSent(i)'
            /\ \A i \in 1 .. Len(m2h') : ~ StopReplied(i)'
        BY <1>2, <1>3, <1>9, <2>1 DEF StopsFollow, RepliesFollow
      <3>7. Cleared'
        BY <3>6 DEF Cleared
      <3>8. Turns'
        BY <1>0, <2>1, <3>1, <3>4 DEF Turns, InHands
      <3> QED
        BY <3>3, <3>5, <3>7, <3>8 DEF StopInv
    <2> QED
      BY <2>2, <2>3
  <1> QED
    BY <1>5, <1>6, <1>7, <1>8, <1>11, <1>12 DEF Library

\* The threads stay where they are; no more responses are owed.
LEMMA TurnsKept ==
    ASSUME Turns, UNCHANGED <<app, user_pc, user_req>>, stops_owed' \in {stops_owed, 0}
    PROVE  Turns'
  BY DEF Turns

\* ... and the flags about STOP as well.
LEMMA StopCarried ==
    ASSUME IInv, TypeOK', StopInv, UNCHANGED app,
           UNCHANGED <<user_pc, user_req, stops_owed, stop_in_progress>>,
           crt_cmd' = "STOP" => crt_cmd = "STOP",
           NEW k \in Nat, StopsFollow(k), CommandsFollow(k),
           NEW l \in Nat, RepliesFollow(l),
           vspa' \in Guarded =>
               vspa \in Guarded \/ \E j \in 1 .. Len(h2m) : h2m[j] \in Guarded
    PROVE  StopInv'
  <1>1. \A u \in User : /\ InHands(u)' => InHands(u)
                        /\ user_pc'[u] = "send" /\ stop_in_progress => user_pc[u] = "send"
    BY DEF InHands
  <1>2. OneStop' /\ HeldOff' /\ Cleared'
    BY <1>1, StopKept DEF StopInv, IInv
  <1>3. Turns'
    BY TurnsKept DEF StopInv
  <1> QED
    BY <1>2, <1>3 DEF StopInv

LEMMA PollStop ==
    ASSUME IInv, TypeOK', StopInv, UNCHANGED app, Poll PROVE StopInv'
  <1> USE DEF libVars, userVars, fwVars, history
  <1>0. TypeOK /\ OneStop /\ Turns /\ PollShape
    BY DEF IInv, StopInv, Shape
  <1>1. 0 \in Nat /\ 1 \in Nat
    OBVIOUS
  <1>2. h2m' = h2m /\ fw_pc' = fw_pc => StopsFollow(0) /\ CommandsFollow(0)
    BY <1>0, CommandsSame
  <1>3. UNCHANGED <<user_pc, user_req>>
    BY DEF Poll, ProcessReply, ProcessStopReply, IgnoreReply, ResetBegin, ResetEnd,
           SendMemInit, Finish
  <1>4. poll_pc = "idle" => ~ reset_done /\ ~ HeadTaken
    BY <1>0 DEF PollShape, HeadTaken
  <1>5. CASE ProcessReply
    <2>1. RepliesFollow(0)
      BY <1>0, <1>4, <1>5, RepliesSame DEF ProcessReply
    <2>2. /\ UNCHANGED <<h2m, fw_pc, vspa, crt_cmd>>
          /\ UNCHANGED <<stops_owed, stop_in_progress>>
      BY <1>5 DEF ProcessReply
    <2> QED
      BY <1>1, <1>2, <1>3, <2>1, <2>2, StopCarried
  <1>6. CASE ProcessStopReply
    <2>1. /\ RepliesFollow(0) /\ HeadTaken'
          /\ UNCHANGED <<h2m, m2h, fw_pc, vspa, crt_cmd>>
      <3>1. /\ UNCHANGED <<h2m, m2h, fw_pc, vspa, crt_cmd, reset_done>>
            /\ poll_pc = "idle" /\ poll_pc' \in {"reset", "finish"}
        BY <1>6 DEF ProcessStopReply
      <3>2. HeadTaken'
        BY <1>4, <3>1 DEF HeadTaken
      <3> QED
        BY <1>0, <3>1, <3>2, RepliesSame
    <2>2. CASE crt_cmd # "STOP"
      <3>1. UNCHANGED <<stops_owed, stop_in_progress>>
        BY <1>6, <2>2 DEF ProcessStopReply
      <3> QED
        BY <1>1, <1>2, <1>3, <2>1, <3>1, StopCarried
    <2>3. CASE crt_cmd = "STOP"
      <3>1. 1 \in 1 .. Len(m2h) /\ StopReplied(1)
        BY <1>0, <1>4, <1>6, TailFacts
           DEF ProcessStopReply, StopReplied, TypeOK, ChannelTypes
      <3>2. /\ stops_owed = 1
            /\ \A u \in User : ~ InHands(u)
            /\ \A i \in 1 .. Len(h2m) : ~ StopSent(i)
            /\ \A i \in 1 .. Len(m2h) : StopReplied(i) => i = 1
        BY <1>0, <3>1 DEF OneStop, UnderWay
      <3>3. stops_owed' = 0
        BY <1>6, <2>3, <3>2 DEF ProcessStopReply, Less
      <3>4. /\ \A u \in User : ~ InHands(u)'
            /\ \A i \in 1 .. Len(h2m') : ~ StopSent(i)'
            /\ \A i \in 1 .. Len(m2h') : ~ StopReplied(i)'
        BY <1>3, <2>1, <3>2 DEF InHands, StopSent, StopReplied
      <3>5. ~ UnderWay' /\ OneStop'
        BY <3>3, <3>4 DEF UnderWay, OneStop
      <3>6. Turns'
        BY <1>0, <1>3, <3>3, TurnsKept
      <3> QED
        BY <3>5, <3>6, NoneKnown DEF StopInv
    <2> QED
      BY <2>2, <2>3
  <1>7. CASE IgnoreReply
    <2>1. RepliesFollow(1)
      BY <1>0, <1>7, RepliesTail DEF IgnoreReply
    <2>2. /\ UNCHANGED <<h2m, fw_pc, vspa, crt_cmd>>
          /\ UNCHANGED <<stops_owed, stop_in_progress>>
      BY <1>7 DEF IgnoreReply
    <2> QED
      BY <1>1, <1>2, <1>3, <2>1, <2>2, StopCarried
  <1>8. CASE ResetBegin
    <2>1. RepliesFollow(0)
      BY <1>0, <1>8, RepliesSame DEF ResetBegin, HeadTaken
    <2>2. /\ UNCHANGED <<h2m, fw_pc, vspa, crt_cmd>>
          /\ UNCHANGED <<stops_owed, stop_in_progress>>
      BY <1>8 DEF ResetBegin
    <2> QED
      BY <1>1, <1>2, <1>3, <2>1, <2>2, StopCarried
  <1>9. CASE ResetEnd
    <2>1. 1 .. Len(h2m') = {} /\ 1 .. Len(m2h') = {}
      BY <1>9 DEF ResetEnd
    <2>2. StopsFollow(0) /\ CommandsFollow(0) /\ RepliesFollow(0)
      BY <2>1 DEF StopsFollow, CommandsFollow, RepliesFollow
    <2>3. UNCHANGED <<crt_cmd, stops_owed, stop_in_progress>> /\ vspa' \notin Guarded
      BY <1>9 DEF ResetEnd, NoCmd, Guarded
    <2> QED
      BY <1>1, <1>3, <2>2, <2>3, StopCarried
  <1>10. CASE SendMemInit
    <2>1. RepliesFollow(0)
      BY <1>0, <1>10, RepliesSame DEF SendMemInit, HeadTaken, PollShape
    <2>2. /\ UNCHANGED <<fw_pc, vspa, crt_cmd>>
          /\ UNCHANGED <<stops_owed, stop_in_progress>>
      BY <1>10 DEF SendMemInit
    <2>3. StopsFollow(0) /\ CommandsFollow(0)
      <3>1. CASE CanSend
        <4>1. h2m' = Append(h2m, "MEM_INIT")
          BY <1>10, <3>1 DEF SendMemInit
        <4>2. "MEM_INIT" \in Message /\ "MEM_INIT" \notin Guarded
          BY DEF Message, Guarded
        <4> QED
          BY <1>0, <2>2, <4>1, <4>2, CommandAdded
      <3>2. CASE ~ CanSend
        BY <1>2, <1>10, <2>2, <3>2 DEF SendMemInit
      <3> QED
        BY <3>1, <3>2
    <2> QED
      BY <1>1, <1>3, <2>1, <2>2, <2>3, StopCarried
  <1>11. CASE Finish
    <2>1. /\ UNCHANGED <<h2m, fw_pc, vspa>>
          /\ UNCHANGED <<stops_owed, stop_in_progress>>
          /\ crt_cmd' = "STOP" => crt_cmd = "STOP"
      BY <1>11 DEF Finish, NoCmd
    <2>2. CASE reset_done
      <3>1. RepliesFollow(0)
        BY <1>0, <1>11, <2>2, RepliesSame DEF Finish, HeadTaken
      <3> QED
        BY <1>1, <1>2, <1>3, <2>1, <3>1, StopCarried
    <2>3. CASE ~ reset_done
      <3>1. RepliesFollow(1)
        BY <1>0, <1>11, <2>3, RepliesTail DEF Finish, PollShape
      <3> QED
        BY <1>1, <1>2, <1>3, <2>1, <3>1, StopCarried
    <2> QED
      BY <2>2, <2>3
  <1> QED
    BY <1>5, <1>6, <1>7, <1>8, <1>9, <1>10, <1>11 DEF Poll

LEMMA FwStop ==
    ASSUME IInv, TypeOK', StopInv, UNCHANGED app, RxLoop \/ VspaDone \/ TimerExpires
    PROVE  StopInv'
  <1> USE DEF libVars, userVars, pollVars, fwVars, history
  <1>0. TypeOK /\ OneStop /\ HeldOff /\ Cleared /\ Turns /\ FwShape
    BY DEF IInv, StopInv, Shape
  <1>1. 0 \in Nat /\ 1 \in Nat
    OBVIOUS
  <1>2. /\ UNCHANGED <<user_pc, user_req, stops_owed, stop_in_progress>>
        /\ UNCHANGED <<crt_cmd, poll_pc, reset_done>>
        /\ HeadTaken' <=> HeadTaken
    BY DEF RxLoop, SearchRefused, SearchAckTimeout, SearchStarted, DoStop, StopTimer,
           DoReset, DoOther, VspaDone, TimerExpires, HeadTaken
  <1>3. m2h' = m2h => RepliesFollow(0)
    BY <1>0, <1>2, RepliesSame
  <1>4. ASSUME NEW type \in Request \ {"STOP"}, NEW status \in {"OK", "ERR", "TIMEOUT"},
               Reply(type, status)
        PROVE  RepliesFollow(0)
    BY <1>0, <1>2, <1>4, ReplyAdded
  <1>5. CASE SearchRefused \/ SearchAckTimeout \/ SearchStarted
    <2>1. RepliesFollow(0)
      <3>1. "SEARCH" \in Request \ {"STOP"}
        BY DEF Request
      <3> QED
        BY <1>3, <1>4, <1>5, <3>1 DEF SearchRefused, SearchAckTimeout, SearchStarted
    <2>2. FwReady("SEARCH") /\ h2m' = Tail(h2m)
      BY <1>5 DEF SearchRefused, SearchAckTimeout, SearchStarted
    <2>3. StopsFollow(1) /\ CommandsFollow(1)
      BY <1>0, <2>2, CommandsTail DEF FwReady
    <2>4. 1 \in 1 .. Len(h2m) /\ h2m[1] \in Guarded
      BY <1>0, <2>2, TailFacts DEF FwReady, Guarded, TypeOK, ChannelTypes
    <2> QED
      BY <1>1, <1>2, <2>1, <2>3, <2>4, StopCarried
  <1>6. CASE VspaDone \/ DoReset
    <2>1. /\ UNCHANGED <<h2m, m2h>>
          /\ fw_pc = "stopping" => fw_pc' = "stopping"
      BY <1>6 DEF VspaDone, DoReset, FwReady
    <2>2. vspa' \in Guarded => vspa \in Guarded
      BY <1>6 DEF VspaDone, DoReset, NoCmd, Guarded
    <2>3. StopsFollow(0) /\ CommandsFollow(0)
      BY <1>0, <2>1, CommandsSame
    <2> QED
      BY <1>1, <1>2, <1>3, <2>1, <2>2, <2>3, StopCarried
  <1>7. CASE TimerExpires
    <2>1. /\ UNCHANGED <<h2m, fw_pc, vspa>> /\ vspa_timer \in Request \ {"STOP"}
          /\ Reply(vspa_timer, "TIMEOUT")
      BY <1>0, <1>7 DEF TimerExpires, TypeOK, FwTypes, Guarded, Request
    <2>2. RepliesFollow(0)
      BY <1>4, <2>1
    <2>3. StopsFollow(0) /\ CommandsFollow(0)
      BY <1>0, <2>1, CommandsSame
    <2> QED
      BY <1>1, <1>2, <2>1, <2>2, <2>3, StopCarried
  <1>8. CASE StopTimer
    <2>1. h2m # <<>> /\ h2m' = Tail(h2m) /\ UNCHANGED <<m2h, vspa>>
      BY <1>0, <1>8 DEF StopTimer, FwShape
    <2>2. StopsFollow(1) /\ CommandsFollow(1)
      BY <1>0, <2>1, CommandsTail
    <2> QED
      BY <1>1, <1>2, <1>3, <2>1, <2>2, StopCarried
  <1>9. CASE DoOther
    <2>1. h2m # <<>> /\ h2m' = Tail(h2m) /\ UNCHANGED vspa
      BY <1>9 DEF DoOther
    <2>2. RepliesFollow(0)
      <3>1. CASE Head(h2m) = "MEM_INIT"
        BY <1>3, <1>9, <3>1 DEF DoOther
      <3>2. CASE Head(h2m) # "MEM_INIT"
        <4>1. Head(h2m) \in Request \ {"STOP"} /\ Reply(Head(h2m), "OK")
          BY <1>9, <3>2 DEF DoOther, Request
        <4> QED
          BY <1>4, <4>1
      <3> QED
        BY <3>1, <3>2
    <2>3. StopsFollow(1) /\ CommandsFollow(1)
      BY <1>0, <2>1, CommandsTail
    <2> QED
      BY <1>1, <1>2, <2>1, <2>2, <2>3, StopCarried
  <1>10. ASSUME NEW status \in {"OK", "ERR", "TIMEOUT"}, DoStop(status) PROVE StopInv'
    <2> DEFINE m == [type |-> "STOP", status |-> status]
    <2>1. /\ fw_pc = "idle" /\ fw_pc' = "stopping" /\ h2m' = h2m
          /\ status = "OK" => vspa' = NoCmd
          /\ m2h' = m2h \/ m2h' = Append(m2h, m)
      BY <1>10 DEF DoStop, FwReady, Reply
    <2>2. 1 \in 1 .. Len(h2m) /\ h2m[1] = "STOP" /\ StopSent(1)
      BY <1>0, <1>10, TailFacts DEF DoStop, FwReady, StopSent, TypeOK, ChannelTypes
    <2>3. /\ stops_owed = 1 /\ UnderWay
          /\ \A u \in User : ~ InHands(u)
          /\ \A i \in 1 .. Len(h2m) : StopSent(i) => i = 1
          /\ \A i \in 1 .. Len(m2h) : ~ StopReplied(i)
      BY <1>0, <2>2 DEF OneStop, UnderWay
    <2>4. /\ \A u \in User : ~ InHands(u)'
          /\ \A i \in 1 .. Len(h2m') : ~ StopSent(i)'
      BY <1>2, <2>1, <2>3 DEF InHands, StopSent
    <2>5. \A i \in 1 .. Len(m2h') :
              StopReplied(i)' => i = Len(m2h) + 1 /\ m2h'[i].status = status
      <3>1. CASE m2h' = m2h
        BY <1>2, <2>3, <3>1 DEF StopReplied
      <3>2. CASE m2h' = Append(m2h, m)
        <4>1. m \in ReplyMessage
          BY DEF ReplyMessage, Request
        <4>2. /\ Len(m2h) \in Nat /\ Len(m2h') = Len(m2h) + 1 /\ m2h'[Len(m2h) + 1] = m
              /\ \A i \in 1 .. Len(m2h) : m2h'[i] = m2h[i]
          BY <1>0, <3>2, <4>1, AppendFacts DEF TypeOK, ChannelTypes
        <4>3. \A i \in 1 .. Len(m2h') : i \in 1 .. Len(m2h) \/ i = Len(m2h) + 1
          BY <4>2
        <4>4. \A i \in 1 .. Len(m2h) : ~ StopReplied(i)'
          BY <1>2, <2>3, <4>2 DEF StopReplied
        <4> QED
          BY <4>2, <4>3, <4>4
      <3> QED
        BY <2>1, <3>1, <3>2
    <2>6. OneStop'
      BY <1>2, <2>3, <2>4, <2>5 DEF OneStop
    <2>7. HeldOff'
      BY <1>0, <1>2, <2>3 DEF HeldOff
    <2>8. ASSUME crt_cmd' = "STOP", NEW i \in 1 .. Len(m2h'), StopReplied(i)',
                 m2h'[i].status = "OK"
          PROVE  vspa' \notin Guarded /\ \A j \in 1 .. Len(h2m') : h2m'[j] \notin Guarded
      <3>1. vspa' = NoCmd
        BY <2>1, <2>5, <2>8
      <3>2. \A j \in 1 + 1 .. Len(h2m) : h2m[j] \notin Guarded
        BY <1>0, <1>2, <2>2, <2>8 DEF Cleared
      <3>3. \A j \in 1 .. Len(h2m) : j = 1 \/ j \in 1 + 1 .. Len(h2m)
        BY <1>0, ChannelLengths
      <3> QED
        BY <2>1, <2>2, <3>1, <3>2, <3>3 DEF NoCmd, Guarded
    <2>9. Cleared'
      BY <2>4, <2>8 DEF Cleared
    <2>10. Turns'
      BY <1>0, <1>2, TurnsKept
    <2> QED
      BY <2>6, <2>7, <2>9, <2>10 DEF StopInv
  <1> QED
    BY <1>5, <1>6, <1>7, <1>8, <1>9, <1>10 DEF RxLoop

-------------------------------------------------------------------------------
(* The theorems. *)

LEMMA InitInv == Init => IInv
  <1> SUFFICES ASSUME Init PROVE IInv
    OBVIOUS
  <1>1. TypeOK /\ Requesting
    BY InitType
  <1>2. Shape
    BY DEF Init, Shape, PollShape, FwShape
  <1>3. Balance
    <2>1. Count(<<>>, Guarded) = 0 /\ AnswersAt(<<>>) = {}
      BY CountEmpty DEF AnswersAt
    <2>2. Commands(h2m) = 0 /\ Answers(m2h) = 0
      BY <2>1, FS_EmptySet DEF Init, Commands, Answers
    <2>3. Pending = 0 /\ Coming = 0 /\ TimerDue = 0
      BY <2>2 DEF Init, Pending, Coming, TimerDue
    <2> QED
      BY <2>3 DEF Init, Balance
  <1> QED
    BY <1>1, <1>2, <1>3 DEF IInv

LEMMA NextInv ==
    ASSUME IInv, [Next]_vars PROVE IInv'
  <1>1. CASE UNCHANGED vars
    <2>1. TypeOK' /\ Requesting'
      BY <1>1 DEF IInv, vars, libVars, userVars, pollVars, fwVars, history, TypeOK, Requesting,
                  LibTypes, UserTypes, ChannelTypes, PollTypes, FwTypes, HistoryTypes
    <2>2. Shape' /\ Balance'
      BY <1>1, QuietStep DEF vars, libVars, fwVars, history
    <2> QED
      BY <2>1, <2>2 DEF IInv
  <1>2. CASE Next
    <2>1. TypeOK' /\ Requesting'
      BY <1>2, UserTypeOK, PollTypeOK, FwTypeOK DEF Next, IInv
    <2>2. Shape' /\ Balance'
      BY <1>2, UserInv, PollInv, FwInv DEF Next
    <2> QED
      BY <2>1, <2>2 DEF IInv
  <1> QED
    BY <1>1, <1>2

\* The inductive invariant: every answer that can still come is owed by a
\* command that was sent and not answered.
THEOREM Inductive == Spec => []IInv
  BY InitInv, NextInv, PTL DEF Spec

\* The flags, the channels and the places of all threads keep their types: no
\* channel ever holds more than it can.
THEOREM TypeCorrect == Spec => []TypeOK
  <1>1. IInv => TypeOK
    BY DEF IInv
  <1> QED
    BY <1>1, Inductive, PTL

\* process_fapi_reply and process_dbg_reply answer a command at most once, for
\* all the TIMEOUTs a firmware timer left running may add.
THEOREM NoneAnsweredTwice == Spec => []AnsweredOnce
  <1>1. IInv => AnsweredOnce
    <2> SUFFICES ASSUME IInv PROVE answered <= sent
      BY DEF AnsweredOnce
    <2>1. /\ Pending \in Nat /\ Coming \in Nat /\ (TimerDue = 0 \/ TimerDue = 1)
          /\ sent \in Nat /\ answered \in Nat
          /\ answered + Pending + Coming + TimerDue <= sent
      BY BalanceTypes DEF IInv, Balance
    <2> QED
      BY <2>1
  <1> QED
    BY <1>1, Inductive, PTL

TokenInv == IInv /\ (NoStop => Stopless /\ Alone)

LEMMA TokenInit == Init => TokenInv
  <1> SUFFICES ASSUME Init PROVE TokenInv
    OBVIOUS
  <1>1. IInv
    BY InitInv
  <1>2. Stopless
    <2>1. <<>> \in Seq(Message \ {"STOP"}) /\ <<>> \in Seq(StoplessReply)
      OBVIOUS
    <2> QED
      BY <2>1 DEF Init, Stopless, NoCmd
  <1>3. Alone
    <2>1. Count(<<>>, Guarded) = 0 /\ Count(<<>>, PlainReply) = 0
      BY CountEmpty
    <2>2. Pending = 0 /\ Plain = 0
      BY <2>1 DEF Init, Pending, Plain, Commands
    <2>3. /\ \A u \in User : ~ Claimed(u)
          /\ ~ AtWork /\ ~ Restarted
      BY DEF Init, Claimed, AtWork, NoTimeout, Restarted, Guarded, NoCmd
    <2>4. Claims = 0 /\ Busy = 0
      BY <2>3 DEF Claims, Busy
    <2>5. fw_pc # "hung"
      BY DEF Init
    <2> QED
      BY <2>2, <2>3, <2>4, <2>5 DEF Alone
  <1> QED
    BY <1>1, <1>2, <1>3 DEF TokenInv

LEMMA TokenNext ==
    ASSUME TokenInv, [Next]_vars PROVE TokenInv'
  <1>1. IInv'
    BY NextInv DEF TokenInv
  <1>2. NoStop' <=> NoStop
    BY DEF NoStop, Next, vars
  <1>3. ASSUME NoStop PROVE Stopless' /\ Alone'
    <2>1. IInv /\ Stopless /\ Alone
      BY <1>3 DEF TokenInv
    <2>2. CASE UNCHANGED vars
      <3>1. /\ Stopless' /\ Pending' = Pending
            /\ \A u \in User : Claimed(u)' <=> Claimed(u)
            /\ UNCHANGED <<is_active, fw_pc, vspa>>
        BY <2>1, <2>2 DEF vars, libVars, userVars, pollVars, fwVars, history, Stopless,
                          Pending, Commands, Count, Places, Claimed
      <3>2. Claims' = Claims
        BY <3>1 DEF Claims
      <3>3. /\ Plain' = Plain /\ Busy' = Busy
            /\ (Restarted' <=> Restarted) /\ (AtWork' <=> AtWork)
        BY <2>2, UserLeaves DEF vars, libVars, pollVars, fwVars
      <3> QED
        BY <2>1, <3>1, <3>2, <3>3 DEF Alone
    <2>3. CASE Next
      BY <1>3, <2>1, <2>3, UserAlone, PollAlone, FwAlone DEF Next
    <2> QED
      BY <2>2, <2>3
  <1> QED
    BY <1>1, <1>2, <1>3 DEF TokenInv

\* Without STOP requests is_active admits one guarded command to the card at a
\* time and stays up while the card has it, through replies, time-outs, resets
\* and any number of threads that ask for more.
THEOREM OneAtATime == Spec => []OneCommandOnCard
  <1>1. TokenInv => OneCommandOnCard
    <2> SUFFICES ASSUME TokenInv, NoStop
                 PROVE  OnCard <= 1 /\ (OnCard = 1 => is_active)
      BY DEF OneCommandOnCard, NoStop
    <2>1. IInv /\ Alone
      BY DEF TokenInv
    <2>2. /\ (Claims = 0 \/ Claims = 1) /\ (Busy = 0 \/ Busy = 1)
          /\ Pending \in Nat /\ Plain \in Nat
          /\ Claims + Pending + Plain + Busy <= 1
          /\ Claims + Pending + Plain + Busy = 1 => is_active
          /\ fw_pc = "hung" => vspa \notin Guarded
      BY <2>1, AloneTypes DEF Alone
    <2>3. Commands(h2m) \in Nat /\ InChannel(Guarded) = Commands(h2m)
      BY <2>1, BalanceTypes DEF IInv, InChannel, Commands, Count, Places
    <2>4. Commands(h2m) = Pending + (IF fw_pc = "hung" THEN 1 ELSE 0)
      BY <2>3 DEF Pending
    <2>5. vspa \in Guarded \/ fw_pc = "hung" => Busy = 1
      BY DEF Busy, AtWork
    <2>6. OnCard = Pending + (IF fw_pc = "hung" THEN 1 ELSE 0) + (IF vspa \in Guarded THEN 1 ELSE 0)
      BY <2>3, <2>4 DEF OnCard
    <2>7. CASE fw_pc = "hung"
      BY <2>2, <2>5, <2>6, <2>7
    <2>8. CASE fw_pc # "hung"
      BY <2>2, <2>5, <2>6, <2>8
    <2> QED
      BY <2>7, <2>8
  <1> QED
    BY <1>1, TokenInit, TokenNext, PTL DEF Spec

PatientInv == IInv /\ (OneByOne => StopInv)

LEMMA PatientInit == Init => PatientInv
  <1> SUFFICES ASSUME Init PROVE PatientInv
    OBVIOUS
  <1>1. /\ 1 .. Len(h2m) = {} /\ 1 .. Len(m2h) = {}
        /\ \A u \in User : user_pc[u] = "idle"
        /\ stops_owed = 0 /\ crt_cmd # "STOP"
    BY DEF Init, NoCmd
  <1>2. OneStop /\ HeldOff /\ Cleared /\ Turns
    BY <1>1 DEF OneStop, UnderWay, InHands, HeldOff, Cleared, Turns
  <1> QED
    BY <1>2, InitInv DEF PatientInv, StopInv

LEMMA PatientNext ==
    ASSUME PatientInv, [Next]_vars PROVE PatientInv'
  <1>1. IInv /\ IInv' /\ TypeOK' /\ UNCHANGED app
    BY NextInv DEF PatientInv, IInv, Next, vars
  <1>2. OneByOne' <=> OneByOne
    BY <1>1 DEF OneByOne
  <1>3. ASSUME OneByOne PROVE StopInv'
    <2>1. StopInv
      BY <1>3 DEF PatientInv
    <2>2. CASE UNCHANGED vars
      <3>1. /\ UNCHANGED <<user_pc, user_req, stops_owed, stop_in_progress>>
            /\ UNCHANGED <<crt_cmd, h2m, m2h, fw_pc, vspa>> /\ (HeadTaken' <=> HeadTaken)
        BY <2>2 DEF vars, libVars, userVars, pollVars, fwVars, history, HeadTaken
      <3>2. StopsFollow(0) /\ CommandsFollow(0) /\ RepliesFollow(0)
        BY <1>1, <3>1, CommandsSame, RepliesSame DEF IInv
      <3>3. 0 \in Nat
        OBVIOUS
      <3> QED
        BY <1>1, <2>1, <3>1, <3>2, <3>3, StopCarried
    <2>3. CASE Next
      BY <1>1, <1>3, <2>1, <2>3, UserStop, PollStop, FwStop DEF Next
    <2> QED
      BY <2>2, <2>3
  <1> QED
    BY <1>1, <1>2, <1>3 DEF PatientInv

LEMMA StopTold ==
    ASSUME PatientInv, PatientInv', [Next]_vars, OneByOne,
           poll_type # "STOP", poll_type' = "STOP", crt_cmd = "STOP",
           Head(m2h).status = "OK"
    PROVE  OnCard = 0
  <1> USE DEF libVars, userVars, pollVars, fwVars, history
  <1>1. IInv /\ TypeOK /\ OneStop /\ Cleared /\ PollShape
    BY DEF PatientInv, StopInv, IInv, Shape
  <1>2. ProcessStopReply
    <2>1. Next
      BY DEF vars
    <2>2. ASSUME NEW u \in User, (\E r \in Request : Call(u, r)) \/ Library(u)
          PROVE  FALSE
      BY <2>2 DEF Call, Library, Claim, Refuse, Accept, Send, SendFails, Sent, EnterStop,
             SendStop, StopWait
    <2>3. ASSUME RxLoop \/ VspaDone \/ TimerExpires PROVE FALSE
      BY <2>3 DEF RxLoop, SearchRefused, SearchAckTimeout, SearchStarted, DoStop, StopTimer,
             DoReset, DoOther, VspaDone, TimerExpires
    <2>4. ASSUME ProcessReply \/ IgnoreReply \/ ResetBegin \/ ResetEnd \/ SendMemInit \/ Finish
          PROVE  FALSE
      BY <2>4 DEF ProcessReply, IgnoreReply, ResetBegin, ResetEnd, SendMemInit, Finish,
             Guarded, NoCmd
    <2> QED
      BY <2>1, <2>2, <2>3, <2>4 DEF Next, Poll
  <1>3. 1 \in 1 .. Len(m2h) /\ StopReplied(1) /\ m2h[1].status = "OK"
    BY <1>1, <1>2, TailFacts
       DEF ProcessStopReply, StopReplied, HeadTaken, TypeOK, ChannelTypes
  <1>4. vspa \notin Guarded /\ \A j \in 1 .. Len(h2m) : h2m[j] \notin Guarded
    BY <1>1, <1>3 DEF Cleared
  <1>5. {i \in 1 .. Len(h2m) : h2m[i] \in Guarded} = {}
    BY <1>4
  <1>6. InChannel(Guarded) = 0
    BY <1>5, FS_EmptySet DEF InChannel
  <1> QED
    BY <1>4, <1>6 DEF OnCard

\* MSG_NMM_STOP_OK is true when process_stop_reply sends it to an application
\* that does one thing at a time, whatever it asked for before and however the
\* reply and the timer of an earlier search, time-outs and resets come between.
THEOREM StoppedIsIdle == Spec => AnsweredStopMeansIdle
  <1>1. PatientInv /\ PatientInv' /\ [Next]_vars =>
            [ OneByOne /\ poll_type # "STOP" /\ poll_type' = "STOP" /\ crt_cmd = "STOP"
              /\ Head(m2h).status = "OK" => OnCard = 0 ]_vars
    BY StopTold
  <1> QED
    BY <1>1, PatientInit, PatientNext, PTL DEF Spec, AnsweredStopMeansIdle
===============================================================================
