----------------------------- MODULE FrameSchedule -----------------------------
(***************************************************************************)
(* A followed cell: the millisecond ticks that vSchedularLoop counts, the  *)
(* commands it schedules, the tracking updates of vVSPALoop, and vMibLoop, *)
(* which decodes the MIB with the help of the VSPA and sets the clock of   *)
(* the cell by it.  Composed with the queue of mailbox 0 (VspaReplies),    *)
(* through which the ticks come.                                           *)
(*                                                                         *)
(* A tick goes round: the phy timer's comparator fires, the VSPA sees its  *)
(* GO bit and sends MS_IND, vSchedularLoop counts it and sets the          *)
(* comparator a millisecond on.  `cell' is the time the clock should show. *)
(* Radio commands that ask the VSPA (CoreAsk) may come in between.         *)
(* Taken for granted: vSchedularLoop and the VSPA's reading of its mailbox *)
(* take less than the millisecond; the queues from and to the VSPA do not  *)
(* fill up (AviMailbox and VspaReplies show what happens then), so that    *)
(* the others leave room for the command of the tick.  A send of           *)
(* vMibLoop and a handler of vVSPALoop are one step.                       *)
(***************************************************************************)
EXTENDS VspaReplies

CONSTANTS
    SfPerFrame,     \* NUM_SF_IN_SFN
    Frames,         \* MAX_SFN_COUNT
    MibFrames,      \* frames from one occasion to decode the MIB to the next
    MaxMissed,      \* missed detections that end the follow (50 in the code)
    MaxRequests     \* bound: cell follows and radio commands in a behaviour

ASSUME FramesAssumption ==
    /\ {SfPerFrame, Frames, MibFrames, MaxMissed} \subseteq Nat \ {0}
    /\ MibFrames % 2 = 0 /\ Frames % MibFrames = 0
    /\ MaxRequests \in Nat

Cycle == SfPerFrame * Frames

VARIABLES
    armed, go,                  \* PHY_TIMER_COMP_VSPA_GO_0 is set; the VSPA's GO bit
    ue,                         \* ue_sfn and ue_sf, which tick together, as tti_cnt
    gnb_sfn, gnb_sf,            \* the clock of the cell
    schedule_mib, mib_scheduled_tti_cnt,
    cons_msd_ssb_det,
    command,                    \* host_mbox of vSchedularLoop
    to_vspa, op_mode,           \* mailbox 0 to the VSPA and the VSPA's command
    mib_cell,                   \* cell time of the SSB in ssb_pbch_sym_mem
    VspaToCm4QMbox1,            \* the VSPA's replies
    xSemVSPABusy, xSemMIBTaskUnlock,
    mib_pc, mib_time,           \* vMibLoop and the cell time of the MIB it decodes
    requests,                   \* history: cell follows and radio commands begun
    cell,                       \* history: the true time of the cell
    synced, spoilt,             \* history: the clock was set, and what may have spoilt it
    crossed, stale              \* history of this decoding: another reply came in;
                                \* output was read before the VSPA had answered

timerVars == <<armed, go>>
clockVars == <<ue, gnb_sfn, gnb_sf>>
scheduleVars == <<schedule_mib, mib_scheduled_tti_cnt, cons_msd_ssb_det>>
vspaVars == <<to_vspa, op_mode, mib_cell>>
semVars == <<xSemVSPABusy, xSemMIBTaskUnlock>>
mibVars == <<mib_pc, mib_time, stale>>
historyVars == <<synced, spoilt>>
frameVars == <<timerVars, clockVars, scheduleVars, command, vspaVars, VspaToCm4QMbox1,
               semVars, mibVars, requests, cell, historyVars, crossed>>

Pbch == {"PBCH_SEARCH_SSB_INDEX", "PBCH_CHANNEL_ESTIMATOR", "PBCH_CHANNEL_EQUALIZER"}
VspaCommand == {"SCAN", "SSB", "MIB", "OTHER"} \cup Pbch

FrameTypeOK ==
    /\ TypeOK
    /\ {armed, go, synced, crossed, stale} \subseteq BOOLEAN
    /\ {xSemVSPABusy, xSemMIBTaskUnlock} \subseteq BOOLEAN
    /\ {ue, cell, mib_cell, mib_time, mib_scheduled_tti_cnt} \subseteq 0 .. Cycle - 1
    /\ gnb_sfn \in 0 .. Frames - 1
    /\ gnb_sf \in 0 .. SfPerFrame - 1
    /\ schedule_mib \in {"MIB_NOT_SCHEDULE", "MIB_ENABLE", "MIB_SCHEDULE"}
    /\ cons_msd_ssb_det \in 0 .. MaxMissed - 1
    /\ command \in {"SSB", "MIB"}
    /\ to_vspa \in Seq(VspaCommand) /\ Len(to_vspa) <= QLen
    /\ op_mode \in {"NO_CMD"} \cup VspaCommand
    /\ VspaToCm4QMbox1 \in Seq({"SCAN", "SSB", "MIB", "PBCH"} \X BOOLEAN)
    /\ Len(VspaToCm4QMbox1) <= QLen
    /\ mib_pc \in {"unlock", "busy", "correct", "reply"} \cup Pbch \cup {"interpolate"}
    /\ requests \in 0 .. MaxRequests
    /\ spoilt \subseteq {"interrupted", "wrapped", "raced"}

FrameInit ==
    /\ Init
    /\ armed = FALSE /\ go = FALSE
    /\ ue = 0 /\ gnb_sfn = 0 /\ gnb_sf = 0
    /\ schedule_mib = "MIB_NOT_SCHEDULE" /\ mib_scheduled_tti_cnt = 0
    /\ cons_msd_ssb_det = 0
    /\ command = "SSB"
    /\ to_vspa = <<>> /\ op_mode = "NO_CMD" /\ mib_cell = 0
    /\ VspaToCm4QMbox1 = <<>>
    /\ xSemVSPABusy = FALSE /\ xSemMIBTaskUnlock = FALSE
    /\ mib_pc = "unlock" /\ mib_time = 0
    /\ requests = 0
    /\ cell \in 0 .. Cycle - 1
    /\ synced = FALSE /\ spoilt = {} /\ crossed = FALSE /\ stale = FALSE

\* A MIB has been asked for and not yet set the clock.
MibUnderWay ==
    \/ "MIB" \in Range(to_vspa) \/ op_mode = "MIB"
    \/ <<"MIB", TRUE>> \in Range(VspaToCm4QMbox1)
    \/ xSemMIBTaskUnlock \/ mib_pc # "unlock"

VoidClock ==
    /\ synced' = FALSE
    /\ spoilt' = IF MibUnderWay THEN spoilt \cup {"interrupted"} ELSE spoilt

-------------------------------------------------------------------------------
(* The timer and the VSPA's main loop. *)

\* Bound: MaxInd ticks.
Fire ==
    /\ armed /\ CoreWaits /\ sched = "blocked" /\ to_vspa = <<>> /\ ind_sent < MaxInd
    /\ armed' = FALSE /\ go' = TRUE
    /\ UNCHANGED <<vars, clockVars, scheduleVars, command, vspaVars, VspaToCm4QMbox1, semVars,
                   mibVars, requests, cell, historyVars, crossed>>

VspaReply(kind, found) ==
    /\ Len(VspaToCm4QMbox1) < QLen
    /\ VspaToCm4QMbox1' = Append(VspaToCm4QMbox1, <<kind, found>>)

\* The command just read, or the one still waiting, in an iteration with or
\* without a tick.  Following the cell and capturing the MIB wait for a tick.
Execute(op, tick) ==
    \/ /\ op \in Pbch
       /\ VspaReply("PBCH", TRUE)
       /\ op_mode' = "NO_CMD"
       /\ UNCHANGED mib_cell
    \/ /\ op \in {"SSB", "MIB"} /\ tick
       /\ \E found \in BOOLEAN :
             /\ VspaReply(op, found)
             /\ mib_cell' = IF op = "MIB" /\ found THEN cell ELSE mib_cell
       /\ op_mode' = "NO_CMD"
    \/ /\ op \notin Pbch /\ ~ (op \in {"SSB", "MIB"} /\ tick)
       /\ op_mode' = op
       /\ UNCHANGED <<VspaToCm4QMbox1, mib_cell>>

\* The GO bit is set: MS_IND, then the mailbox, then the command.  A scan that
\* has just come in is left for the next iteration.
VspaTick ==
    LET reads == to_vspa # <<>> /\ Head(to_vspa) # "SCAN"
    IN /\ go
       /\ go' = FALSE
       /\ MsInd
       /\ cell' = (cell + 1) % Cycle
       /\ to_vspa' = IF reads THEN Tail(to_vspa) ELSE to_vspa
       /\ Execute(IF reads THEN Head(to_vspa) ELSE op_mode, TRUE)
       /\ UNCHANGED <<armed, clockVars, scheduleVars, command, semVars, mibVars, requests, historyVars, crossed>>

VspaRead ==
    /\ ~ go /\ to_vspa # <<>> /\ Head(to_vspa) # "SCAN"
    /\ to_vspa' = Tail(to_vspa)
    /\ Execute(Head(to_vspa), FALSE)
    /\ UNCHANGED <<vars, timerVars, clockVars, scheduleVars, command, semVars, mibVars, requests, cell, historyVars, crossed>>

\* ssb_scan with msInit: the cell's time starts before the reply.  A scan takes
\* many milliseconds, in which no tick is seen: the clock is void.
VspaScan ==
    /\ ~ go /\ to_vspa # <<>> /\ Head(to_vspa) = "SCAN"
    /\ to_vspa' = Tail(to_vspa)
    /\ op_mode' = "NO_CMD"
    /\ \E found \in BOOLEAN :
          /\ IF found THEN MsStart ELSE UNCHANGED vars
          /\ VspaReply("SCAN", found)
    /\ VoidClock
    /\ UNCHANGED <<timerVars, clockVars, scheduleVars, command, mib_cell, semVars, mibVars, requests, cell, crossed>>

Vspa == VspaTick \/ VspaRead \/ VspaScan

-------------------------------------------------------------------------------
(* vSchedularLoop. *)

\* NMM_CTRL_MS_IND: the next tick is set, the clocks move on, and at the end of
\* an odd frame the VSPA has work to do.
SchedTick ==
    LET tti_cnt == (ue + 1) % Cycle
        sfn == tti_cnt \div SfPerFrame
        sends == tti_cnt % SfPerFrame = SfPerFrame - 1 /\ sfn % 2 = 1
        decodes == sfn % MibFrames = MibFrames - 1 /\ schedule_mib = "MIB_SCHEDULE"
    IN /\ VspaToCm4QMbox0 # <<>> /\ Head(VspaToCm4QMbox0) = "MS_IND"
       /\ SchedReceive(sends)
       /\ armed' = TRUE
       /\ ue' = tti_cnt
       /\ gnb_sf' = (gnb_sf + 1) % SfPerFrame
       /\ gnb_sfn' = IF gnb_sf' = 0 THEN (gnb_sfn + 1) % Frames ELSE gnb_sfn
       /\ command' = IF sends THEN IF decodes THEN "MIB" ELSE "SSB" ELSE command
       /\ spoilt' = IF mib_pc = "correct" THEN spoilt \cup {"raced"} ELSE spoilt
       /\ UNCHANGED <<go, scheduleVars, vspaVars, VspaToCm4QMbox1, semVars, mibVars, requests, cell, synced, crossed>>

\* NMM_CTRL_MS_START sets the first tick; anything else is dropped.
SchedOther ==
    /\ VspaToCm4QMbox0 # <<>> /\ Head(VspaToCm4QMbox0) # "MS_IND"
    /\ SchedReceive(FALSE)
    /\ armed' = (armed \/ Head(VspaToCm4QMbox0) = "MS_START")
    /\ UNCHANGED <<go, clockVars, scheduleVars, command, vspaVars, VspaToCm4QMbox1, semVars, mibVars, requests, cell, historyVars, crossed>>

\* The command is with the mailbox; for a MIB the time is noted.
Scheduled(before) ==
    /\ to_vspa' = before \o <<command>>
    /\ IF command = "MIB"
       THEN /\ mib_scheduled_tti_cnt' = ue
            /\ spoilt' = IF MibUnderWay THEN spoilt \cup {"interrupted"} ELSE {}
            /\ synced' = (synced /\ MibUnderWay)
       ELSE UNCHANGED <<mib_scheduled_tti_cnt, historyVars>>

SchedCommand ==
    /\ SchedSend
    /\ IF sched' = "ready" THEN Scheduled(to_vspa)
       ELSE UNCHANGED <<to_vspa, mib_scheduled_tti_cnt, historyVars>>
    /\ UNCHANGED <<timerVars, clockVars, schedule_mib, cons_msd_ssb_det, command, op_mode, mib_cell,
                   VspaToCm4QMbox1, semVars, mibVars, requests, cell, crossed>>

vSchedularLoop ==
    \/ SchedTick \/ SchedOther \/ SchedCommand
    \/ SchedBlock /\ UNCHANGED frameVars

-------------------------------------------------------------------------------
(* vVSPALoop: the VSPA's replies. *)

\* cellfollowstop, and the end of prvDoTrackingUpdate when the cell is lost.
StopFollow ==
    /\ armed' = FALSE
    /\ ue' = 0 /\ gnb_sfn' = 0 /\ gnb_sf' = 0
    /\ schedule_mib' = "MIB_NOT_SCHEDULE" /\ mib_scheduled_tti_cnt' = 0
    /\ cons_msd_ssb_det' = 0
    /\ VoidClock

\* The cell was found again; precise: the frequency error is within the limit.
\* schedule_mib &= ~2 takes SCHEDULE back to ENABLE and leaves the others.
Tracked(precise) ==
    /\ cons_msd_ssb_det' = 0
    /\ schedule_mib' = CASE schedule_mib = "MIB_ENABLE" /\ precise -> "MIB_SCHEDULE"
                         [] schedule_mib = "MIB_SCHEDULE"          -> "MIB_ENABLE"
                         [] OTHER                                  -> schedule_mib
    /\ UNCHANGED <<armed, clockVars, mib_scheduled_tti_cnt, historyVars>>

Missed ==
    IF cons_msd_ssb_det + 1 = MaxMissed THEN StopFollow
    ELSE /\ cons_msd_ssb_det' = cons_msd_ssb_det + 1
         /\ UNCHANGED <<armed, clockVars, schedule_mib, mib_scheduled_tti_cnt, historyVars>>

NextReply(kind) ==
    /\ CoreWaits /\ sched = "blocked" /\ VspaToCm4QMbox1 # <<>> /\ Head(VspaToCm4QMbox1)[1] = kind
    /\ VspaToCm4QMbox1' = Tail(VspaToCm4QMbox1)
    /\ xSemVSPABusy' = TRUE
    /\ crossed' = (crossed \/ kind # "PBCH")
    /\ UNCHANGED <<vars, go, command, vspaVars, mibVars, requests, cell>>

\* A detection of another cell counts as a false alarm and changes nothing.
prvDoTrackingUpdate ==
    /\ NextReply("SSB")
    /\ \/ ~ Head(VspaToCm4QMbox1)[2] /\ Missed
       \/ /\ Head(VspaToCm4QMbox1)[2]
          /\ \/ \E precise \in BOOLEAN : Tracked(precise)
             \/ UNCHANGED <<armed, clockVars, scheduleVars, historyVars>>
    /\ UNCHANGED xSemMIBTaskUnlock

prvDoCellFollowMIB ==
    /\ NextReply("MIB")
    /\ xSemMIBTaskUnlock' = (xSemMIBTaskUnlock \/ Head(VspaToCm4QMbox1)[2])
    /\ UNCHANGED <<armed, clockVars, scheduleVars, historyVars>>

\* prvDoCellFollowCellSearch and the three prvDoPbch handlers.
OtherReply ==
    /\ NextReply("SCAN") \/ NextReply("PBCH")
    /\ UNCHANGED <<armed, clockVars, scheduleVars, historyVars, xSemMIBTaskUnlock>>

vVSPALoop == prvDoTrackingUpdate \/ prvDoCellFollowMIB \/ OtherReply

-------------------------------------------------------------------------------
(* vMibLoop. *)

Unanswered == Range(to_vspa) \cap Pbch # {}

\* The places of vMibLoop that wait for xSemVSPABusy, and those that then send.
MibSends == {"busy", "PBCH_SEARCH_SSB_INDEX", "interpolate"}
MibTakes == MibSends \cup {"PBCH_CHANNEL_ESTIMATOR", "PBCH_CHANNEL_EQUALIZER"}

\* It runs at pc and goes on to next.
MibStep(pc, next) ==
    /\ CoreWaits /\ sched = "blocked" /\ mib_pc = pc
    /\ mib_pc' = next
    /\ UNCHANGED <<vars, timerVars, ue, mib_scheduled_tti_cnt, command, op_mode, mib_cell, VspaToCm4QMbox1, requests, cell>>

\* The symbols of the SSB are demapped; the cell may be another one.
MibUnlock ==
    /\ xSemMIBTaskUnlock
    /\ MibStep("unlock", "busy")
    /\ xSemMIBTaskUnlock' = FALSE
    /\ mib_time' = mib_cell
    /\ cons_msd_ssb_det' \in {0, cons_msd_ssb_det}
    /\ UNCHANGED <<gnb_sfn, gnb_sf, schedule_mib, to_vspa, xSemVSPABusy, stale, crossed, historyVars>>

\* The semaphore is taken before the data is touched and the command sent.
MibCommand(pc, cmd) ==
    /\ MibStep(pc, cmd)
    /\ xSemVSPABusy /\ xSemVSPABusy' = FALSE
    /\ rx # "sending" /\ Len(to_vspa) + 1 < QLen
    /\ to_vspa' = Append(to_vspa, cmd)
    /\ UNCHANGED <<gnb_sfn, gnb_sf, scheduleVars, xSemMIBTaskUnlock, mib_time, historyVars>>

\* The semaphore left by the MIB's own reply is not taken first.
FaultMibSearch ==
    /\ MibStep("busy", "PBCH_SEARCH_SSB_INDEX")
    /\ rx # "sending" /\ Len(to_vspa) + 1 < QLen
    /\ to_vspa' = Append(to_vspa, "PBCH_SEARCH_SSB_INDEX")
    /\ stale' = FALSE
    /\ crossed' = (Unanswered \/ <<"PBCH", TRUE>> \in Range(VspaToCm4QMbox1))
    /\ UNCHANGED <<gnb_sfn, gnb_sf, scheduleVars, semVars, mib_time, historyVars>>

\* The semaphore of the MIB's own reply is taken, perhaps given by others as well.
MibSearch ==
    /\ MibCommand("busy", "PBCH_SEARCH_SSB_INDEX")
    /\ stale' = FALSE
    /\ crossed' = (Unanswered \/ <<"PBCH", TRUE>> \in Range(VspaToCm4QMbox1))

MibEstimate ==
    /\ MibCommand("PBCH_SEARCH_SSB_INDEX", "PBCH_CHANNEL_ESTIMATOR")
    /\ stale' = (stale \/ Unanswered) /\ UNCHANGED crossed

\* The semaphore is not given back.
FaultMibInterpolate ==
    /\ MibStep("PBCH_CHANNEL_ESTIMATOR", "interpolate")
    /\ xSemVSPABusy /\ xSemVSPABusy' = FALSE
    /\ stale' = (stale \/ Unanswered)
    /\ UNCHANGED <<gnb_sfn, gnb_sf, scheduleVars, to_vspa, xSemMIBTaskUnlock, mib_time, crossed, historyVars>>

\* The estimator's output is ready: the semaphore is taken and given back.
MibInterpolate ==
    /\ MibStep("PBCH_CHANNEL_ESTIMATOR", "interpolate")
    /\ xSemVSPABusy
    /\ stale' = (stale \/ Unanswered)
    /\ UNCHANGED <<gnb_sfn, gnb_sf, scheduleVars, to_vspa, semVars, mib_time, crossed, historyVars>>

MibEqualize ==
    /\ MibCommand("interpolate", "PBCH_CHANNEL_EQUALIZER")
    /\ stale' = (stale \/ Unanswered) /\ UNCHANGED crossed

\* The CRC fails, on a weak signal or on output that was not ready, or gnb_sf is
\* set, outside the critical section.
MibDecode ==
    /\ xSemVSPABusy
    /\ stale' = (stale \/ Unanswered)
    /\ \/ MibStep("PBCH_CHANNEL_EQUALIZER", "unlock") /\ UNCHANGED gnb_sf
       \/ /\ MibStep("PBCH_CHANNEL_EQUALIZER", "correct") /\ ~ stale'
          /\ gnb_sf' = mib_time % SfPerFrame
    /\ UNCHANGED <<gnb_sfn, scheduleVars, to_vspa, semVars, mib_time, crossed, historyVars>>

\* 10239, one short of the length of the cycle, makes up for the wrap.
mib_proc_delay ==
    IF ue < mib_scheduled_tti_cnt THEN (Cycle - 1) + ue - mib_scheduled_tti_cnt
    ELSE ue - mib_scheduled_tti_cnt

\* Subframes beyond the end of a frame do not count as a frame.
FaultCarry(sf) == 0

Carry(sf) == IF sf >= SfPerFrame THEN 1 ELSE 0

\* The critical section: the clock of the MIB is advanced by the ticks since.
MibCorrect ==
    LET sf == gnb_sf + (mib_proc_delay % SfPerFrame)
        sfn == (mib_time \div SfPerFrame) + (mib_proc_delay \div SfPerFrame)
    IN /\ MibStep("correct", "reply")
       /\ gnb_sf' = sf % SfPerFrame
       /\ gnb_sfn' = (sfn + Carry(sf)) % Frames
       /\ synced' = TRUE
       /\ spoilt' = IF ue < mib_scheduled_tti_cnt THEN spoilt \cup {"wrapped"} ELSE spoilt
       /\ UNCHANGED <<scheduleVars, to_vspa, semVars, mib_time, stale, crossed>>

\* No further MIB is scheduled, and the host is told of this one.
MibReply ==
    /\ MibStep("reply", "unlock")
    /\ schedule_mib' = "MIB_NOT_SCHEDULE"
    /\ UNCHANGED <<gnb_sfn, gnb_sf, cons_msd_ssb_det, to_vspa, semVars, mib_time, stale, crossed, historyVars>>

vMibLoop ==
    \/ MibUnlock \/ MibSearch \/ MibEstimate \/ MibInterpolate
    \/ MibEqualize \/ MibDecode \/ MibCorrect \/ MibReply

-------------------------------------------------------------------------------
(* vRxLoop: the lowest priority, but for the mutex that another task waits for. *)

MibWaits ==
    \/ mib_pc = "unlock" /\ ~ xSemMIBTaskUnlock
    \/ mib_pc \in MibTakes /\ ~ xSemVSPABusy

RxTurn ==
    \/ sched = "mutex"
    \/ rx = "sending" /\ mib_pc \in MibSends
    \/ VspaToCm4QMbox1 = <<>> /\ MibWaits

\* prvSendVspaCmd, a command that this VSPA does not know.
RxCommand ==
    /\ RxTurn
    /\ \/ (RxSend \/ RxReceive \/ RxTimeout) /\ UNCHANGED <<to_vspa, mib_scheduled_tti_cnt, historyVars>>
       \/ /\ RxSent /\ Len(to_vspa) + 1 < QLen
          /\ IF sched = "mutex" THEN Scheduled(Append(to_vspa, "OTHER"))
             ELSE /\ to_vspa' = Append(to_vspa, "OTHER")
                  /\ UNCHANGED <<mib_scheduled_tti_cnt, historyVars>>
    /\ UNCHANGED <<timerVars, clockVars, schedule_mib, cons_msd_ssb_det, command, op_mode, mib_cell,
                   VspaToCm4QMbox1, semVars, mibVars, requests, cell, crossed>>

\* CMD_CELLFOLLOW and CMD_CELL_FOLLOW_MIB.  Bound: MaxRequests.
RxFollow ==
    /\ rx = "idle" /\ RxMayRun /\ RxTurn
    /\ requests < MaxRequests /\ Len(to_vspa) + 1 < QLen
    /\ requests' = requests + 1
    /\ schedule_mib' \in {"MIB_NOT_SCHEDULE", "MIB_ENABLE"}
    /\ to_vspa' = Append(to_vspa, "SCAN")
    /\ UNCHANGED <<vars, timerVars, clockVars, mib_scheduled_tti_cnt, cons_msd_ssb_det, command, op_mode,
                   mib_cell, VspaToCm4QMbox1, semVars, mibVars, cell, historyVars, crossed>>

\* CMD_SSBSCAN_CELLFOLLOWSTOP: the VSPA is told nothing.
RxFollowStop ==
    /\ rx = "idle" /\ RxMayRun /\ RxTurn
    /\ requests > 0
    /\ StopFollow
    /\ UNCHANGED <<vars, go, command, vspaVars, VspaToCm4QMbox1, semVars, mibVars, requests, cell, crossed>>

-------------------------------------------------------------------------------
(* vRficCoreTask. *)

\* A radio command for which this VSPA has no answer; the command that vRxLoop was
\* sending goes first.  Bound: MaxRequests.
CoreCommand ==
    LET sent == IF rx = "sending" THEN Append(to_vspa, "OTHER") ELSE to_vspa
    IN /\ CoreAsk
       /\ requests < MaxRequests /\ Len(sent) + 1 < QLen
       /\ requests' = requests + 1
       /\ to_vspa' = Append(sent, "OTHER")
       /\ UNCHANGED <<timerVars, clockVars, scheduleVars, command, op_mode, mib_cell, VspaToCm4QMbox1,
                      semVars, mibVars, cell, historyVars, crossed>>

\* A tick taken for the answer is not counted and sets no other tick.
CoreAnswer ==
    /\ CoreReceive
    /\ IF ind_taken' # ind_taken THEN VoidClock ELSE UNCHANGED historyVars
    /\ UNCHANGED <<timerVars, clockVars, scheduleVars, command, vspaVars, VspaToCm4QMbox1, semVars,
                   mibVars, requests, cell, crossed>>

vRficCoreTask ==
    \/ CoreCommand \/ CoreAnswer
    \/ CoreGivesUp /\ UNCHANGED frameVars

FrameNext ==
    \/ Fire \/ Vspa
    \/ vSchedularLoop \/ vVSPALoop \/ vMibLoop
    \/ RxCommand \/ RxFollow \/ RxFollowStop
    \/ vRficCoreTask

FrameSpec == FrameInit /\ [][FrameNext]_<<vars, frameVars>>

\* The VSPA's loop and the firmware's tasks go on; what vRxLoop and vRficCoreTask
\* are told to do is up to the host.
FrameFairSpec ==
    /\ FrameSpec
    /\ WF_<<vars, frameVars>>(Vspa)
    /\ WF_<<vars, frameVars>>(vSchedularLoop)
    /\ WF_<<vars, frameVars>>(vVSPALoop)
    /\ WF_<<vars, frameVars>>(vMibLoop)
    /\ WF_<<vars, frameVars>>(RxCommand /\ rx # "idle")
    /\ WF_<<vars, frameVars>>(vRficCoreTask /\ core # "idle")

-------------------------------------------------------------------------------
(* Properties. *)

\* Between two ticks the clock that was set from the MIB.
ClockSet == synced /\ mib_pc # "correct" /\ CoreWaits /\ sched = "blocked"

\* vMibLoop adds to the MIB's time the ticks that passed while it decoded, and
\* vSchedularLoop counts on from there, whatever tasks and ticks come in between:
\* the clock shows the cell's time.  Not covered: a stop, a scan or a second MIB
\* while one is decoded, a tick between the two writes of vMibLoop, a tick that
\* vRficCoreTask took for its answer; and when the tick count has wrapped in
\* between, the clock is behind by exactly one.
GnbTime ==
    ClockSet /\ spoilt \subseteq {"wrapped"} =>
        gnb_sfn * SfPerFrame + gnb_sf
            = (IF spoilt = {} THEN cell ELSE (cell + Cycle - 1) % Cycle)

\* "#define NUM_SF_IN_SFN (10)" and "#define MAX_SFN_COUNT (1024)"
\* (cmd_ctrl_vspa_intfce.h:43-44): the cycle is as long as these say, and a wrap
\* of the tick count makes no difference.
GnbTimeAcrossWrap ==
    ClockSet /\ spoilt \subseteq {"wrapped"} => gnb_sfn * SfPerFrame + gnb_sf = cell

\* xSemVSPABusy is given by every reply: vMibLoop reads the VSPA's output before
\* the VSPA has answered only if a reply to something else came while it decoded.
OutputReady == stale => crossed

\* A decoding ends: no wait for the VSPA is in vain, though gives of a semaphore
\* that is already there are lost.
DecodingEnds == mib_pc # "unlock" ~> mib_pc = "unlock"
===============================================================================
