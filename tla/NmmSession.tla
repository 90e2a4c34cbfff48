------------------------------ MODULE NmmSession ------------------------------
(***************************************************************************)
(* A command's life between the host library (nmm_lib.c) and the firmware  *)
(* (nmm_app.c): user threads calling nmm_fapi_send_request and             *)
(* nmm_dbg_send_request, the library's poll thread, the firmware's vRxLoop *)
(* with the VSPA behind it, and the firmware's one-shot VSPA timer.        *)
(*                                                                         *)
(* The library has one record of flags (struct nmm_state) and no lock; one *)
(* atomic flag, is_active, admits one command at a time.  The two IPC      *)
(* channels are the bounded queues that HostToModemRing and                *)
(* ModemToHostRing implement; a sender that finds one full gives up.       *)
(*                                                                         *)
(* Requests: SEARCH is a cell search (process_fapi_request), FOLLOW a      *)
(* cell follow or its MIB/SIB1 variants, SCAN an SSB or band scan or the   *)
(* end of a cell follow (sent without looking at the flags), STOP          *)
(* NMM_STOP_REQUEST, RESET the debug request for a forced reset.           *)
(***************************************************************************)
EXTENDS Naturals, Sequences, FiniteSets

CONSTANTS
    User,           \* application threads
    Application,    \* what uses the library: a set of records of
                    \*   users     its threads
                    \*   requests  the requests they make
                    \*   calls     bound: calls made in a behaviour
                    \*   patient   it awaits the response to a STOP before it
                    \*             asks for another; the library does not
    Capacity        \* messages a channel holds: its depth less one

Request == {"SEARCH", "FOLLOW", "SCAN", "STOP", "RESET"}

ASSUME ApplicationAssumption ==
    Application \subseteq [users : SUBSET User, requests : SUBSET Request,
                           calls : Nat, patient : BOOLEAN]
ASSUME CapacityAssumption == Capacity \in Nat \ {0}

NoCmd == "none"
Message == Request \cup {"MEM_INIT"}
ReplyMessage == [type : Request, status : {"OK", "ERR", "TIMEOUT"}]
Guarded == {"SEARCH", "RESET"}      \* hold is_active until they are answered

VARIABLES
    app,                    \* the application, the same throughout a behaviour
    \* struct nmm_state
    is_active, stop_in_progress, vspa_active, reset_in_progress, reset_done,
    crt_cmd,
    \* where each user thread stands in the library, and its request
    user_pc, user_req,
    \* the channels; a reply is a record of type and status
    h2m, m2h,
    \* the poll thread: its place and the type of the reply in its hands
    poll_pc, poll_type,
    \* firmware: vRxLoop's place, the command the VSPA works on, the VSPA
    \* timer's response type, reset_in_progress of nmm_app.c
    fw_pc, vspa, vspa_timer, fw_reset_in_progress,
    \* history: calls made, guarded commands sent and answered to the user,
    \* STOP requests that a response is owed for
    calls, sent, answered, stops_owed

libVars == <<is_active, stop_in_progress, vspa_active, reset_in_progress,
             reset_done, crt_cmd>>
userVars == <<user_pc, user_req, calls>>
pollVars == <<poll_pc, poll_type>>
fwVars == <<fw_pc, vspa, vspa_timer, fw_reset_in_progress>>
history == <<sent, answered, stops_owed>>
vars == <<app, libVars, userVars, h2m, m2h, pollVars, fwVars, history>>

LibTypes ==
    /\ is_active \in BOOLEAN /\ stop_in_progress \in BOOLEAN /\ vspa_active \in BOOLEAN
    /\ reset_in_progress \in BOOLEAN /\ reset_done \in BOOLEAN
    /\ crt_cmd \in Request \cup {NoCmd}

UserTypes ==
    /\ app \in Application
    /\ user_pc \in [User -> {"idle", "enter", "check", "send", "sent",
                             "stop_send", "stop_wait"}]
    /\ user_req \in [User -> Request \cup {NoCmd}]
    /\ calls \in 0 .. app.calls

ChannelTypes ==
    /\ h2m \in Seq(Message) /\ Len(h2m) <= Capacity
    /\ m2h \in Seq(ReplyMessage) /\ Len(m2h) <= Capacity

PollTypes ==
    /\ poll_pc \in {"idle", "reset", "resetting", "mem_init", "finish"}
    /\ poll_type \in Request \cup {NoCmd}

FwTypes ==
    /\ fw_pc \in {"idle", "stopping", "hung"}
    /\ vspa \in Request \cup {NoCmd}
    /\ vspa_timer \in Guarded \cup {NoCmd}
    /\ fw_reset_in_progress \in BOOLEAN

HistoryTypes == sent \in Nat /\ answered \in Nat /\ stops_owed \in Nat

TypeOK ==
    /\ LibTypes /\ UserTypes /\ ChannelTypes
    /\ PollTypes /\ FwTypes /\ HistoryTypes

Init ==
    /\ app \in Application
    /\ is_active = FALSE /\ stop_in_progress = FALSE /\ vspa_active = FALSE
    /\ reset_in_progress = FALSE /\ reset_done = FALSE
    /\ crt_cmd = NoCmd
    /\ user_pc = [u \in User |-> "idle"] /\ user_req = [u \in User |-> NoCmd]
    /\ h2m = <<>> /\ m2h = <<>>
    /\ poll_pc = "idle" /\ poll_type = NoCmd
    /\ fw_pc = "idle" /\ vspa = NoCmd /\ vspa_timer = NoCmd
    /\ fw_reset_in_progress = FALSE
    /\ calls = 0 /\ sent = 0 /\ answered = 0 /\ stops_owed = 0

-------------------------------------------------------------------------------
(* Host: the user threads. *)

\* One response fewer is owed.
Less(n) == IF n > 0 THEN n - 1 ELSE 0

Goto(u, pc) == user_pc' = [user_pc EXCEPT ![u] = pc]

\* One message too many is let into the channel.
FaultCanSend == ~ reset_in_progress /\ Len(h2m) <= Capacity

\* get_tx_buf and send_msg succeed.
CanSend == ~ reset_in_progress /\ Len(h2m) < Capacity

\* nmm_fapi_send_request records the command before anything else; the debug
\* request does not.
Call(u, r) ==
    /\ u \in app.users /\ r \in app.requests
    /\ user_pc[u] = "idle" /\ calls < app.calls
    /\ app.patient /\ r = "STOP" => stops_owed = 0
    /\ calls' = calls + 1
    /\ user_req' = [user_req EXCEPT ![u] = r]
    /\ crt_cmd' = IF r = "RESET" THEN crt_cmd ELSE r
    /\ Goto(u, IF r = "SCAN" THEN "send" ELSE "enter")
    /\ UNCHANGED <<is_active, stop_in_progress, vspa_active, reset_in_progress, reset_done>>
    /\ UNCHANGED <<h2m, m2h, pollVars, fwVars, history>>

\* The claim of a command: the test and the set taken apart.
FaultClaim(u) ==
    /\ user_pc[u] = "enter" /\ user_req[u] # "STOP"
    /\ is_active' = TRUE
    /\ Goto(u, "check")
    /\ UNCHANGED <<stop_in_progress, vspa_active, reset_in_progress, reset_done, crt_cmd>>
    /\ UNCHANGED <<user_req, calls, h2m, m2h, pollVars, fwVars, history>>

\* rte_atomic16_test_and_set on is_active; a caller that loses is told
\* MSG_INVALID_STATE.
Claim(u) ==
    /\ user_pc[u] = "enter" /\ user_req[u] # "STOP"
    /\ is_active' = TRUE
    /\ Goto(u, IF is_active THEN "idle" ELSE "check")
    /\ UNCHANGED <<stop_in_progress, vspa_active, reset_in_progress, reset_done, crt_cmd>>
    /\ UNCHANGED <<user_req, calls, h2m, m2h, pollVars, fwVars, history>>

\* out_err: invalid parameters, or a STOP in progress.
Refuse(u) ==
    /\ user_pc[u] = "check"
    /\ is_active' = FALSE
    /\ Goto(u, "idle")
    /\ UNCHANGED <<stop_in_progress, vspa_active, reset_in_progress, reset_done, crt_cmd>>
    /\ UNCHANGED <<user_req, calls, h2m, m2h, pollVars, fwVars, history>>

\* Parameters are valid (MSG_OK for a FAPI request) and no STOP is in progress.
Accept(u) ==
    /\ user_pc[u] = "check" /\ ~ stop_in_progress
    /\ Goto(u, "send")
    /\ UNCHANGED <<libVars, user_req, calls, h2m, m2h, pollVars, fwVars, history>>

\* The message is enqueued.  A cell follow is done with the flag at once.
Send(u) ==
    /\ user_pc[u] = "send" /\ CanSend
    /\ h2m' = Append(h2m, user_req[u])
    /\ is_active' = IF user_req[u] = "FOLLOW" THEN FALSE ELSE is_active
    /\ sent' = IF user_req[u] \in Guarded THEN sent + 1 ELSE sent
    /\ Goto(u, IF user_req[u] \in Guarded THEN "sent" ELSE "idle")
    /\ UNCHANGED <<stop_in_progress, vspa_active, reset_in_progress, reset_done, crt_cmd>>
    /\ UNCHANGED <<user_req, calls, m2h, pollVars, fwVars, answered, stops_owed>>

\* No buffer, or a reset in progress: a guarded command takes out_err, the
\* cell follows return past it.
SendFails(u) ==
    /\ user_pc[u] = "send" /\ ~ CanSend
    /\ is_active' = IF user_req[u] \in Guarded THEN FALSE ELSE is_active
    /\ Goto(u, "idle")
    /\ UNCHANGED <<stop_in_progress, vspa_active, reset_in_progress, reset_done, crt_cmd>>
    /\ UNCHANGED <<user_req, calls, h2m, m2h, pollVars, fwVars, history>>

\* The VSPA is taken for active only after the message was handed over.
Sent(u) ==
    /\ user_pc[u] = "sent"
    /\ vspa_active' = TRUE
    /\ Goto(u, "idle")
    /\ UNCHANGED <<is_active, stop_in_progress, reset_in_progress, reset_done, crt_cmd>>
    /\ UNCHANGED <<user_req, calls, h2m, m2h, pollVars, fwVars, history>>

\* process_stop_request: MSG_NMM_STOP_IGNORED when nothing is active.
EnterStop(u) ==
    /\ user_pc[u] = "enter" /\ user_req[u] = "STOP"
    /\ stop_in_progress' = IF is_active THEN TRUE ELSE stop_in_progress
    /\ stops_owed' = IF is_active THEN stops_owed + 1 ELSE stops_owed
    /\ Goto(u, IF ~ is_active THEN "idle" ELSE
               IF vspa_active THEN "stop_send" ELSE "stop_wait")
    /\ UNCHANGED <<is_active, vspa_active, reset_in_progress, reset_done, crt_cmd>>
    /\ UNCHANGED <<user_req, calls, h2m, m2h, pollVars, fwVars, sent, answered>>

\* send_nmm_stop_command; on failure the caller gets the error.
SendStop(u) ==
    /\ user_pc[u] = "stop_send"
    /\ h2m' = IF CanSend THEN Append(h2m, "STOP") ELSE h2m
    /\ stops_owed' = IF CanSend THEN stops_owed ELSE Less(stops_owed)
    /\ Goto(u, "idle")
    /\ UNCHANGED <<libVars, user_req, calls, m2h, pollVars, fwVars, sent, answered>>

\* One turn of the wait for a command that runs on the host.
FaultStopWait(u) ==
    /\ user_pc[u] = "stop_wait"
    /\ ~ is_active
    /\ Goto(u, "idle")
    /\ UNCHANGED <<libVars, user_req, calls, h2m, m2h, pollVars, fwVars, history>>

\* One turn of the wait for a command that runs on the host: it has ended, or
\* the VSPA turns out to be active after all.
StopWait(u) ==
    /\ user_pc[u] = "stop_wait"
    /\ ~ is_active \/ vspa_active
    /\ stop_in_progress' = is_active
    /\ stops_owed' = IF is_active THEN stops_owed ELSE Less(stops_owed)
    /\ Goto(u, IF is_active THEN "stop_send" ELSE "idle")
    /\ UNCHANGED <<is_active, vspa_active, reset_in_progress, reset_done, crt_cmd>>
    /\ UNCHANGED <<user_req, calls, h2m, m2h, pollVars, fwVars, sent, answered>>

Library(u) ==
    \/ Claim(u) \/ Refuse(u) \/ Accept(u) \/ Send(u) \/ SendFails(u) \/ Sent(u)
    \/ EnterStop(u) \/ SendStop(u) \/ StopWait(u)

-------------------------------------------------------------------------------
(* Host: the poll thread. *)

\* process_fapi_reply and process_dbg_reply, up to the end of the indication
\* or result for the user.
ProcessReply ==
    /\ poll_pc = "idle" /\ ~ reset_in_progress
    /\ m2h # <<>> /\ Head(m2h).type \in Guarded
    /\ poll_type' = Head(m2h).type
    /\ vspa_active' = FALSE
    /\ answered' = answered + 1
    /\ poll_pc' = IF Head(m2h).status = "TIMEOUT" THEN "reset" ELSE "finish"
    /\ UNCHANGED <<is_active, stop_in_progress, reset_in_progress, reset_done, crt_cmd>>
    /\ UNCHANGED <<userVars, h2m, m2h, fwVars, sent, stops_owed>>

\* process_stop_reply, up to the response to the user.
ProcessStopReply ==
    /\ poll_pc = "idle" /\ ~ reset_in_progress
    /\ m2h # <<>> /\ Head(m2h).type = "STOP"
    /\ poll_type' = "STOP"
    /\ vspa_active' = FALSE
    /\ IF crt_cmd = "STOP"
       THEN stop_in_progress' = FALSE /\ stops_owed' = Less(stops_owed)
       ELSE UNCHANGED <<stop_in_progress, stops_owed>>
    /\ poll_pc' = IF Head(m2h).status = "TIMEOUT" THEN "reset" ELSE "finish"
    /\ UNCHANGED <<is_active, reset_in_progress, reset_done, crt_cmd>>
    /\ UNCHANGED <<userVars, h2m, m2h, fwVars, sent, answered>>

\* process_rx has nothing to do for the replies to the other commands.
IgnoreReply ==
    /\ poll_pc = "idle" /\ ~ reset_in_progress
    /\ m2h # <<>> /\ Head(m2h).type \in {"FOLLOW", "SCAN"}
    /\ m2h' = Tail(m2h)
    /\ UNCHANGED <<libVars, userVars, h2m, pollVars, fwVars, history>>

\* reset_modem: senders are turned away from here on.
ResetBegin ==
    /\ poll_pc = "reset"
    /\ reset_in_progress' = TRUE
    /\ poll_pc' = "resetting"
    /\ UNCHANGED <<is_active, stop_in_progress, vspa_active, reset_done, crt_cmd>>
    /\ UNCHANGED <<userVars, h2m, m2h, poll_type, fwVars, history>>

\* The card restarted, but what the channels hold is kept.
FaultResetEnd ==
    /\ poll_pc = "resetting"
    /\ reset_in_progress' = FALSE /\ reset_done' = TRUE
    /\ fw_pc' = "idle" /\ vspa' = NoCmd /\ vspa_timer' = NoCmd
    /\ fw_reset_in_progress' = FALSE
    /\ poll_pc' = "mem_init"
    /\ UNCHANGED <<is_active, stop_in_progress, vspa_active, crt_cmd>>
    /\ UNCHANGED <<userVars, poll_type, h2m, m2h, history>>

\* rte_pmd_la93xx_reset_restore_cfg: the card restarts with fresh channels.
ResetEnd ==
    /\ poll_pc = "resetting"
    /\ reset_in_progress' = FALSE /\ reset_done' = TRUE
    /\ h2m' = <<>> /\ m2h' = <<>>
    /\ fw_pc' = "idle" /\ vspa' = NoCmd /\ vspa_timer' = NoCmd
    /\ fw_reset_in_progress' = FALSE
    /\ poll_pc' = "mem_init"
    /\ UNCHANGED <<is_active, stop_in_progress, vspa_active, crt_cmd>>
    /\ UNCHANGED <<userVars, poll_type, history>>

\* init_vspa_mem tells the card its memory, after senders were let in again;
\* process_fapi_reply clears vspa_active once more.
SendMemInit ==
    /\ app \in Application
    /\ poll_pc = "mem_init"
    /\ h2m' = IF CanSend THEN Append(h2m, "MEM_INIT") ELSE h2m
    /\ vspa_active' = IF poll_type = "SEARCH" THEN FALSE ELSE vspa_active
    /\ poll_pc' = "finish"
    /\ UNCHANGED <<is_active, stop_in_progress, reset_in_progress, reset_done, crt_cmd>>
    /\ UNCHANGED <<userVars, m2h, poll_type, fwVars, history>>

\* The end of the reply functions, then the consume in nmm_poll_loop, which is
\* skipped after a reset: the descriptor it would release is gone.
Finish ==
    /\ poll_pc = "finish"
    /\ crt_cmd' = IF poll_type = "RESET" THEN crt_cmd ELSE NoCmd
    /\ is_active' = IF poll_type = "SEARCH" THEN is_active /\ vspa_active ELSE FALSE
    /\ m2h' = IF reset_done THEN m2h ELSE Tail(m2h)
    /\ reset_done' = FALSE
    /\ poll_pc' = "idle" /\ poll_type' = NoCmd
    /\ UNCHANGED <<stop_in_progress, vspa_active, reset_in_progress>>
    /\ UNCHANGED <<userVars, h2m, fwVars, history>>

Poll ==
    \/ ProcessReply \/ ProcessStopReply \/ IgnoreReply
    \/ ResetBegin \/ ResetEnd \/ SendMemInit \/ Finish

-------------------------------------------------------------------------------
(* Firmware. *)

\* prvSendMsgToHost: nothing is sent on a full ring or once a reset is due.
Reply(type, status) ==
    m2h' = IF Len(m2h) < Capacity /\ ~ fw_reset_in_progress
           THEN Append(m2h, [type |-> type, status |-> status]) ELSE m2h

FwReady(type) == fw_pc = "idle" /\ h2m # <<>> /\ Head(h2m) = type

\* prvDoCellSearch when the radio, the mailbox or the VSPA refuses.
SearchRefused ==
    /\ FwReady("SEARCH")
    /\ Reply("SEARCH", "ERR")
    /\ h2m' = Tail(h2m)
    /\ UNCHANGED <<libVars, userVars, pollVars, fwVars, history>>

\* prvDoCellSearch when no ACK comes in time, whether the VSPA has begun or
\* not: the timer, started before the result is looked at, is left running.
SearchAckTimeout ==
    /\ FwReady("SEARCH")
    /\ vspa' \in {vspa, "SEARCH"} /\ vspa_timer' = "SEARCH"
    /\ Reply("SEARCH", "TIMEOUT")
    /\ h2m' = Tail(h2m)
    /\ UNCHANGED <<libVars, userVars, pollVars, fw_pc, fw_reset_in_progress, history>>

\* prvDoCellSearch when the VSPA acknowledges: no reply, the VSPA is at work.
SearchStarted ==
    /\ FwReady("SEARCH")
    /\ vspa' = "SEARCH" /\ vspa_timer' = "SEARCH"
    /\ h2m' = Tail(h2m)
    /\ UNCHANGED <<libVars, userVars, m2h, pollVars, fw_pc, fw_reset_in_progress, history>>

\* prvVspaDone: the search has ended, the timer is stopped.
VspaDone ==
    /\ vspa = "SEARCH"
    /\ vspa' = NoCmd /\ vspa_timer' = NoCmd
    /\ UNCHANGED <<libVars, userVars, h2m, m2h, pollVars, fw_pc, fw_reset_in_progress, history>>

\* prvTimerCb.
TimerExpires ==
    /\ vspa_timer # NoCmd
    /\ Reply(vspa_timer, "TIMEOUT")
    /\ vspa_timer' = NoCmd
    /\ fw_reset_in_progress' = TRUE
    /\ UNCHANGED <<libVars, userVars, h2m, pollVars, fw_pc, vspa, history>>

\* The reply that prvDoStop owes when the VSPA has stopped, sent although it
\* has refused.
FaultDoStop(status) ==
    /\ FwReady("STOP")
    /\ Reply("STOP", "OK")
    /\ vspa' \in IF status = "ERR" THEN {vspa} ELSE {NoCmd, vspa}
    /\ fw_pc' = "stopping"
    /\ UNCHANGED <<libVars, userVars, h2m, pollVars, vspa_timer, fw_reset_in_progress, history>>

\* prvDoStop up to the reply.  Without an ACK the VSPA may have stopped or not.
DoStop(status) ==
    /\ FwReady("STOP")
    /\ Reply("STOP", status)
    /\ vspa' \in CASE status = "OK" -> {NoCmd}
                   [] status = "ERR" -> {vspa}
                   [] OTHER -> {NoCmd, vspa}
    /\ fw_pc' = "stopping"
    /\ UNCHANGED <<libVars, userVars, h2m, pollVars, vspa_timer, fw_reset_in_progress, history>>

\* prvDoStop stops the timer after the reply went out.
StopTimer ==
    /\ fw_pc = "stopping"
    /\ vspa_timer' = NoCmd
    /\ h2m' = Tail(h2m)
    /\ fw_pc' = "idle"
    /\ UNCHANGED <<libVars, userVars, m2h, pollVars, vspa, fw_reset_in_progress, history>>

\* prvDoReset arms the timer and spins until the card is reset.
DoReset ==
    /\ FwReady("RESET")
    /\ vspa_timer' = "RESET"
    /\ fw_pc' = "hung"
    /\ UNCHANGED <<libVars, userVars, h2m, m2h, pollVars, vspa, fw_reset_in_progress, history>>

\* prvDoCellFollow, prvDoMIB, prvDoSsbScan and the like answer, then pass a
\* command to the scheduler; prvDoMemInit answers nothing.
DoOther ==
    /\ fw_pc = "idle" /\ h2m # <<>> /\ Head(h2m) \in {"FOLLOW", "SCAN", "MEM_INIT"}
    /\ IF Head(h2m) = "MEM_INIT" THEN UNCHANGED m2h ELSE Reply(Head(h2m), "OK")
    /\ h2m' = Tail(h2m)
    /\ UNCHANGED <<libVars, userVars, pollVars, fwVars, history>>

RxLoop ==
    \/ SearchRefused \/ SearchAckTimeout \/ SearchStarted
    \/ \E status \in {"OK", "ERR", "TIMEOUT"} : DoStop(status)
    \/ StopTimer \/ DoReset \/ DoOther

Next ==
    /\ \/ \E u \in User : (\E r \in Request : Call(u, r)) \/ Library(u)
       \/ Poll
       \/ RxLoop
       \/ VspaDone \/ TimerExpires
    /\ UNCHANGED app

Spec == Init /\ [][Next]_vars

\* Threads inside the library run on; the poll thread and vRxLoop never stop;
\* a running timer expires unless the VSPA is done first.
FairSpec ==
    /\ Spec
    /\ \A u \in User : WF_vars(Library(u) /\ UNCHANGED app)
    /\ WF_vars(Poll /\ UNCHANGED app)
    /\ WF_vars(RxLoop /\ UNCHANGED app)
    /\ WF_vars((VspaDone \/ TimerExpires) /\ UNCHANGED app)

-------------------------------------------------------------------------------
(* Properties. *)

InChannel(S) == Cardinality({i \in 1 .. Len(h2m) : h2m[i] \in S})

\* Guarded commands the card has been given and is not done with.
OnCard == InChannel(Guarded) + (IF vspa \in Guarded THEN 1 ELSE 0)

\* The card never has two guarded commands, and while it has one no other
\* can be admitted: is_active is up.  (A STOP that the VSPA refuses gives the
\* flag up all the same.)
OneCommandOnCard ==
    "STOP" \notin app.requests =>
        /\ OnCard <= 1
        /\ OnCard = 1 => is_active

\* A command is answered to the user at most once, although prvSendVspaCmd
\* leaves the timer running after a missing ACK, for a second TIMEOUT reply.
AnsweredOnce == answered <= sent

\* One thread, which awaits the response to a STOP before it asks for another.
OneByOne == app.patient /\ \A u, v \in app.users : u = v

\* The response MSG_NMM_STOP_OK tells the truth: the card has no guarded command
\* when the poll thread sends it to an application that does one thing at a
\* time.  (With two threads a search that was admitted before the STOP may be
\* sent after it: vspa_active, set late by another call, misleads
\* process_stop_request.)
AnsweredStopMeansIdle ==
    [][ OneByOne /\ poll_type # "STOP" /\ poll_type' = "STOP" /\ crt_cmd = "STOP"
        /\ Head(m2h).status = "OK" => OnCard = 0 ]_vars

\* Every call into the library returns: a STOP does not wait for ever, unless
\* the application follows cells (see StopReturns).
CallsReturn ==
    \A u \in User :
        user_pc[u] # "idle" /\ "FOLLOW" \notin app.requests ~> user_pc[u] = "idle"

\* Nothing is under way in the library, the channels or the firmware.
Quiet ==
    /\ \A u \in User : user_pc[u] = "idle"
    /\ h2m = <<>> /\ m2h = <<>>
    /\ poll_pc = "idle" /\ fw_pc = "idle"
    /\ vspa = NoCmd /\ vspa_timer = NoCmd /\ ~ fw_reset_in_progress

\* "Send response if this was a user-initiated STOP command" (nmm_lib.c:2761):
\* no STOP is left without a response once all is quiet.
StopAnswered == Quiet => stops_owed = 0

\* "Otherwise, current command runs on host. Wait for it to finish or hit a
\* checkpoint and abort on its own." (nmm_lib.c:1540): the wait ends.
StopReturns == \A u \in User : user_pc[u] = "stop_wait" ~> user_pc[u] # "stop_wait"
===============================================================================
