# A verification project for PS_NLM_MWC

NLM/NMM is a 5G network-listening application on an NXP LA9310 modem card. A
host program finds cells, follows them and decodes their broadcast channels; the
card's Cortex-M4 runs a FreeRTOS firmware that passes the host's commands to a
signal-processing core, the VSPA. What is hard in it is not the signal
processing but the conversation: three processors, a dozen threads and tasks,
shared rings over PCIe, mailboxes with interrupts, timers, and a card that is
reset underneath a running application. This directory models that conversation
in TLA+, checks it with TLC and proves its safety properties with TLAPS.

Paths below are relative to `src/`; `CM4/` stands for
`nlm_controller/Demo/CORTEX_M4_NXP_LA9310_GCC/`.

## 1. The system

```
 application threads --calls--> nmm_lib.c --bbdev raw ops--> bbdev_la93xx.c
        ^  responses               | poll thread                  | PCIe rings
        '--------------------------'                              v
                                    vRxLoop & other tasks <-- bbdev_ipc.c
                                            |  mailboxes 0 and 1
                                            v
                                     la9310_avi.c  <--interrupts-->  VSPA
```

| Component | State | Operations | Interacts by |
|---|---|---|---|
| IPC channel host to modem (`bbdev_la93xx.c` producing, `CM4/drivers/misc/bbdev_ipc.c` consuming) | a ring of at most 4 descriptors; producer and consumer index, each with a private and a published copy; internal buffers; status words | get_next_raw_buf, enqueue_raw_op, dequeue of a confirmation; bbdev_ipc_dequeue_raw_op, bbdev_ipc_consume_raw_op | memory shared over PCIe |
| IPC channel modem to host (same files) | the same, reversed; filled by several tasks | prvGetTxBuf, prvSendRaw; dequeue_raw_op, consume_raw_op | the same |
| IPC set-up, start, stop, reset | queue configuration, ready flags, ipc_reset state | configure, la93xx_start/stop, prvDoIPCReset, rte_pmd_la93xx_reset_restore_cfg | shared memory, firmware tasks |
| Watchdog (`bbdev_la93xx_wdog.c`) | device handles | rescan and re-initialisation of the card | sysfs, PCIe |
| Host library, commands (`nmm_lib.c`) | struct nmm_state: is_active, stop_in_progress, vspa_active, reset_in_progress, reset_done, crt_cmd | nmm_fapi_send_request, nmm_dbg_send_request, process_stop_request, process_rx and its reply functions, reset_modem | user threads and a poll thread share the record without a lock |
| Host library, decoding | decode jobs, retries, dumps requested | decode_mib, decode_sib, request_dl_dump | worker threads, rings |
| Host library, start-up and shut-down | initialized, callback ring of 16 | nmm_init, nmm_free, the callback loop | threads joined |
| Host library, command timer | timer deadline | cmd_timer_thread | the poll thread arms it |
| Firmware, host commands (`CM4/nmm_app.c`) | one-shot VSPA timer, reset_in_progress, current command | vRxLoop and the prvDo... handlers, prvVspaDone, prvTimerCb | rings, mailboxes |
| Firmware, frame scheduler | frame and subframe counters, MIB and SSB schedule | vSchedularLoop, vMibLoop, prvDoTrackingUpdate | mailbox 0, globals |
| VSPA mailbox, CM4 to VSPA (`CM4/drivers/avi/la9310_avi.c`) | two registers, status bits, software queue of 16, mutex | iLa9310AviHostSendMboxToVspa, AviHndleMboxInterrupt | tasks, interrupt, VSPA |
| VSPA mailbox, VSPA to CM4 | queue of 16, three receiving tasks | AviHndleMboxInterrupt, iLa9310AviHostRecvMboxFromVspa | the same |
| RFIC command engine (`CM4/drivers/rfic/rfic_core.c`) | local and remote queue, event group, response queue | xRficPostLocalSwCmd, vRficSwCmdIrq, vRficCoreTask | tasks, host, mailbox 0 |
| Software command engine, host interrupts | masks, MSI vectors | register, raise | host |
| eDMA driver, V2H streaming | channel bit mask, buffers | allocate, free, interrupt | interrupt, tasks |
| VSPA kernels, PDCCH/PBCH code | numerical data | signal processing | mailboxes |

What makes each correct: a **channel** delivers each message once, in order and
unchanged, never touches a buffer the other side reads and never starves its
sender; the **library** never has two exclusive commands on the card, answers
each command at most once and a STOP truthfully, and returns from every call; a
**mailbox** reads each message once and overwrites none; the **scheduler**
counts every millisecond indication that no other task has taken, and a followed
cell's clock, set from its MIB, shows the cell's time; the **set-up and reset**
bring both ends of a channel up together, with nothing left of an earlier life;
the **RFIC engine** executes what it reports as done, fails no lone command,
never writes into a descriptor whose call has returned and leaves no response
over, but for the calls that meet a command of the host that waits for the VSPA;
**start-up and shut-down** can be repeated and end.

The hard behaviours are listed line by line under "hazards" in `PROJECT.json`,
each with the properties that watch it or the reason why none does.

## 2. Modules

| Module | Models | Theorems in |
|---|---|---|
| `BoundedQueue` | what a channel promises (abstract) | |
| `HostToModemRing` | the ring from the host's driver to the firmware's | `HostToModemRingProofs` |
| `ModemToHostRing`, `MCModemToHostRing` | the ring from the firmware's tasks to the host | `ModemToHostRingProofs` |
| `IpcLifecycle` | set-up, start, stop, `nmm_free`, reset of the card | `IpcLifecycleProofs` |
| `NmmSession`, `MCNmmSession` | the life of a command, from the application to the VSPA and back | `NmmSessionProofs` |
| `AviMailbox` | the mailbox from the CM4 to the VSPA | `AviMailboxProofs` |
| `VspaReplies` | the queue of mailbox 0 from the VSPA and its three receivers | `FrameScheduleProofs` |
| `FrameSchedule` | a followed cell; extends `VspaReplies` | `FrameScheduleProofs` |
| `RficCore`, `MCRficCore` | the RFIC command engine | `RficCoreProofs` |
| `ArithmeticLemmas` | nothing: facts about the remainder and about distances round a ring, for the proofs | itself |

`BoundedQueue` is the abstract specification of one channel: a FIFO of bounded
capacity whose receiver is handed the oldest unfinished message, keeps it while
it works and finishes it; slots come back in order, after that. Weak fairness of
the receiver and of the return of slots is part of the promise.

**`HostToModemRing`** models `enqueue_raw_op` and friends on the host against
`bbdev_ipc_dequeue_raw_op` and `bbdev_ipc_consume_raw_op` on the card. Each
index has the copies it has in the code: `host_pi` (private) and `md_pi` (in
modem memory), `modem_ci` and `hp_ci` (in host memory), and `host_ci`, the
confirmations picked up. A function is split into actions exactly where the
code has a memory barrier or returns to its caller, so the peer sees every state
it could see: `GetBuf` (`get_next_raw_buf` and the memset of `get_tx_buf`),
`FillBuf`, `EnqueueRawOp` and `PublishPi` (either side of the barrier),
`DequeueConfirmation`; `DequeueRawOp` (a look, the index stays), `ConsumeRawOp`
and `PublishCi`. `conf_enable` is fixed when the queue is configured: NMM's own
queues run without confirmations, the raw application's with them. One host
thread sends; bbdev queues are not thread-safe by contract.

**`ModemToHostRing`** is the other direction and differs where it matters: four
firmware tasks send through one queue with no lock. A send is therefore seven
actions, one for every point where a preemption can be noticed, and `Runs`
lets a task move only while no ready task outranks it. `MCModemToHostRing`
gives the priorities `main.c` creates the tasks with.

Each ring implements `BoundedQueue` under the mapping `Queue`: capacity is the
depth less one, the outstanding messages are those from the sender's consumer
index to the published producer index, the finished ones those up to the
receiver's private index.

**`IpcLifecycle`** models how the two ends of the channels meet. They know of
each other by two words of flags (LIB and APP, one word per side) and by the
channels' metadata, which the firmware clears (`bbdev_ipc_init`) and the host
fills in (`la93xx_queue_setup`). The host's actions are those of `nmm_init`
(`Exec`, `SetupQueues`, `Start`, `Started`), of `nmm_free` (`Free`, `WaitLcores`,
`SignalReset`, `Stop`, `Stopped`), the end of a process that is not up, and the
reset of the card with the rescan that finds it again (`ResetCard`, `Rescan`);
the firmware's are `Boot`, `Setup` (`vBBDEVSetup` waiting for the host),
`Handle`, `HandleReset` and `Reopen` (`prvDoIPCReset` before and after its
second of delay). Every message carries the life of the channels it was sent in.
`server` says whether a worker core runs `server_init`; both hosts are explored.

**`NmmSession`** composes the life of a command across both ends. The two
channels are bounded sequences, as `BoundedQueue` promises, with a sender that
gives up on a full one. User threads, the poll thread, `vRxLoop` with the VSPA
behind it, and the VSPA timer are the processes; the actions break where
`nmm_lib.c` touches a shared flag another thread may touch in between: the
test-and-set (`Claim`), the checks after it (`Accept`, `Refuse`), the send, the
late `vspa_active` (`Sent`), each turn of STOP's wait (`StopWait`), the two
halves of every reply function with the user's callback between them, and the
reset with its window between `ResetEnd` and `SendMemInit`. Requests stand for
classes: SEARCH, FOLLOW (and its MIB and SIB1 variants), SCAN, STOP, RESET. The
application (threads, kinds of requests, number of calls, and whether it awaits
the answer to a STOP) is a record chosen initially from `Application`;
`MCNmmSession` names the applications of the runs.

**`AviMailbox`** models the sends to the VSPA: tasks under the mutex, the
software queue, the interrupt handler register by register, the VSPA's reads.
The two words of a message are separate registers, and a read is good only if
they agree. `prompt` says whether a task may get a step between the VSPA's read
and the handler (an interrupt held up by the hardware); both are explored.

**`VspaReplies`** models the other direction: one queue from which
`vRficCoreTask` (priority idle + 4), `vSchedularLoop` (idle + 3) and
`prvSendVspaCmd` in `vRxLoop` (idle + 1) receive, with the kernel's rule that a
message wakes the waiting task of highest priority, and the mutex of the send,
which may make the first two wait for `vRxLoop`. `vRficCoreTask` receives in the
host's commands that dump samples or send a tone (`CoreAsk`, `CoreReceive`,
`CoreGivesUp`); this VSPA has no case for them, so what it takes for its answer
is a message for somebody else. `ind_taken` counts the indications among these.
The VSPA firmware in this repository never sends an ACK on mailbox 0, so the
model has none: `prvSendVspaCmd` ends by its time-out.

**`FrameSchedule`** composes that queue with a followed cell. A millisecond goes
round: the comparator of the phy timer fires (`Fire`), the VSPA sees its GO bit,
sends MS_IND and perhaps runs a command (`VspaTick`), `vSchedularLoop` counts the
tick, sets the comparator again (`SchedTick`) and at the end of an odd frame
sends a command, to track the cell or to capture its MIB (`SchedCommand`).
`vVSPALoop` handles the replies (`prvDoTrackingUpdate`, `prvDoCellFollowMIB`,
`OtherReply`), each of which gives `xSemVSPABusy`; `vMibLoop` decodes a MIB by
three PBCH commands between takes of that semaphore and sets the clock of the
cell by it, adding the ticks that have passed (`MibCorrect`). `RxFollow` and
`RxFollowStop` begin and end a follow; `CoreCommand` and `CoreAnswer` are a radio
command that asks the VSPA and takes a tick for its answer, after which no tick
follows until a new follow sets the comparator. Clocks count modulo
`SfPerFrame * Frames` and wrap as in the code; `cell` is the true time.
What the code does not protect is in the model, and marked: a clock whose
decoding met a tick before the critical section is "raced", one that met a stop,
a scan or a second MIB "interrupted", one whose tick count wrapped "wrapped".

**`RficCore`** models `xRficPostLocalSwCmd`, split where the priorities let
somebody in (`Send`, `Mark`, `SetBits`, `Receive`, `Timeout`), the interrupt of
the host's command with the timer task that sets its event bit
(`vRficSwCmdIrq`, `TimerSetBits`), and `vRficCoreTask`. Descriptors of local
commands lie on the callers' stacks: a descriptor is named by its task. In a
command of the host the core may ask the VSPA (`CoreAsk`) and then waits, at the
mutex of the mailbox and at its queue, for up to 200 times 10 ticks
(`CoreBlocked`); meanwhile tasks post, and a local call, which waits for 1000
ticks, may time out with its descriptor still queued. `delayed` remembers the
calls that met such a wait, `disturbed` that what one left behind may still be
there: the next call that meets nothing takes it away.

Operators named `Fault...` describe plausible mistakes. No specification uses
them; each takes the place of the definition after it in one of the "mutants" of
`PROJECT.json`, which shows that the property in question can fail.

## 3. What the runs show

| Run | Bounds | Shows |
|---|---|---|
| host_to_modem | depth 4, 2 messages, both modes; 31,954 states | refines `BoundedQueue` with its liveness; a sender that got a buffer finds room when it enqueues (`EnqueueNeverBusy`); the message the firmware reads in place is whole and stays (`MessageStableWhileHeld`); a confirmation carries its own operation's verdict (`ConfirmationMatches`); a full ring drains (`SenderNotStarved`) |
| modem_to_host | one sending task, depth 4, 2 messages, both modes; 45,864 states | the same for the other direction, at preemption grain; no two outstanding messages share a buffer (`EachEnqueueHasItsBuffer`) |
| modem_to_host_twotasks | two tasks of different priority | **violated** as the header words it: finding 1 |
| lifecycle | depth 4, 3 lives, 5 messages a life; 2,990 states | a host that is up talks to a firmware that has configured what this host has set up (`BothUp`); the firmware handles the messages of this life, in order (`HandlesWhatWasSent`); `nmm_init` returns, and so does `nmm_free` once it has told the firmware (`InitReturns`, `FreeReturns`) |
| session | 3 applications: two threads with 4 calls of SEARCH, FOLLOW, RESET; one patient thread with 6 of SEARCH, SCAN, STOP; two with 3 of SEARCH, STOP, RESET; 478,268 states | at most one guarded command on the card and only with `is_active` up, unless STOP is used (`OneCommandOnCard`); none answered twice although a missing ACK leaves a timer running (`AnsweredOnce`); the answer "stopped" is true for an application of one thread that awaits it (`AnsweredStopMeansIdle`); every call returns, a STOP that waits on the other thread's command included (`CallsReturn`) |
| session_stoplost | 1 thread, 4 calls | **violated**: finding 2 |
| session_stophangs | 1 thread, 6 calls of FOLLOW, STOP | **violated**: finding 3 |
| avi_mailbox | 2 tasks, 4 messages, queue of 2; 176,026 states | the mutex holder is the one inside the send (`TypeOK`); no message read twice (`ReadOnce`), none written over by a prompt handler (`NothingOverwritten`); queued messages move on while new ones come (`QueueMoves`) |
| avi_stranded | 1 task, queue of 2 | **violated**: finding 4 |
| frame_schedule | 2 requests (follows, or radio commands that ask the VSPA), 9 ticks, cycle of 4 frames of 2 subframes, MIB every 2 frames, queues of 3, 2 misses end a follow; 1.37 million states | a tick that found room is counted, queued, or was taken by `vRficCoreTask` for its answer, and none is lost to `prvSendVspaCmd` (`TicksCounted`); the clock set from a MIB is the cell's, and after a wrap behind by one and no more (`GnbTime`); `vMibLoop` reads the VSPA's output early only when another reply crossed (`OutputReady`); a decoding ends (`DecodingEnds`) |
| frame_wrap | one follow, the same | **violated**: finding 5 |
| rfic_commands | three tasks and the host; 203,010 states | of calls that met no core waiting for the VSPA: no write into the stack frame of one that has returned (`DescriptorAlive`), success means executed (`SuccessMeansExecuted`), a call fails only when it met another (`FailsOnlyIfOverlapped`); a response left over by a call that did meet one is gone with the next call that meets nothing (`NoStaleResponse`); no remote command is lost to a local one (`RemoteServed`) |

Why the bounds are enough. `Depth = 4` is the code's own `IPC_MAX_DEPTH`, and
the indexes wrap, so the ring runs have no bound on their length; two messages
tell a right from a wrong one. `Capacity = 3` is that depth less one. The number
of calls bounds the application, not the system: three calls are a STOP and two
commands it can race with, four are two per thread, and six fill a channel and
leave calls to spare. The mailbox has no run-length bound: messages are reused
once out of the way; four of them fill a queue of two, the registers and one
task's hands; a queue of 16 adds no new case. Three lives have an old life
before and a new one after the one in the middle, and five messages go round the
ring of four. Nine ticks are one more than the cycle of eight, so every counter
wraps and a decoding can begin on either side of the wrap; two requests are a
follow that another follow or a radio command interrupts. The priorities of the
RFIC run are those of `main.c`, with two tasks at one level and one above.

Every invariant and action property of the passing runs is also proved for every
value of the constants, and so is the safety part of both refinements: section 5.

`CHECK_DEADLOCK FALSE` appears where the system may rest: in the `NmmSession`
runs when the application has made its calls, in the `FrameSchedule` runs when
the ticks are used up and no follow is asked for, in the `IpcLifecycle` run after
the last life and when `nmm_free` waits for a core that does not return.

### Fairness

- Rings: `vRxLoop` and `nmm_poll_loop` never stop polling, a send once begun runs
  to its end (weak fairness). Picking up confirmations gets strong fairness: the
  applications that ask for them (`host_to_modem_test`, `modem_to_host_test`)
  spin on the dequeue after each enqueue, and its guard comes and goes with the
  sender's own steps.
- Lifecycle: a call into the library, once made, goes on, and so does the
  firmware. When `nmm_init` and `nmm_free` are called and when a process ends is
  left to the application, and a card reset happens or not.
- Session: threads inside the library run on, the poll thread and `vRxLoop` are
  endless loops, and a running timer expires unless the VSPA finishes first. No
  fairness is given to a new call.
- Mailbox: interrupts are taken, the VSPA polls, a waiting task gets the mutex in
  its turn (FreeRTOS queues the waiters), and while a cell is followed
  `vSchedularLoop` keeps sending. `QueueMoves` rests on the last: without new
  messages it is false, which is finding 4.
- Followed cell: the VSPA's main loop and the firmware's tasks run on; a command
  of `vRxLoop` or `vRficCoreTask`, once begun, is finished (the core gives up after
  200 receives). The timer and the host's requests get no
  fairness: `DecodingEnds` needs no further tick.
- RFIC: the interrupt is taken and the two tasks of highest priority run; the
  core's wait for the VSPA is bounded, so it ends. The
  tasks that post commands get no fairness.

## 4. Findings

1. `bbdev_ipc_get_next_internal_buf` does not reserve the buffer it returns, and
   the firmware's tasks call it without a lock; a task preempted before its
   enqueue shares its buffer with the one that preempted it
   (`CM4/drivers/misc/bbdev_ipc.c:209`; the header says "Each enqueue operation
   has only one associated internal buffer").
2. A STOP whose command is answered meanwhile is never answered: the reply resets
   `crt_cmd`, by which `process_stop_reply` recognises a user's STOP
   (`nmm_lib.c:2756`, `2861`), and `stop_in_progress` stays set.
3. `process_cell_follow` and its variants leave `is_active` set when the send
   fails; a later STOP waits for ever (`nmm_lib.c:2357`, `1544`).
4. `iLa9310AviHostSendMboxToVspa` tests the mailbox and then queues; if the VSPA's
   read and the handler fall in between, the message stays in the queue with no
   interrupt to come (`la9310_avi.c:92`).
5. `vMibLoop` makes up for a wrap of the tick count with 10239, one less than
   the number of ticks in the cycle: a MIB whose decoding spans the wrap sets the
   cell's clock a subframe behind, until the next MIB (`nmm_app.c:1640`).

Each counterexample is the trace of the run that names it. They are quoted in
full, with the text they contradict, in `PROJECT.json`.

Seen while modelling, without a run of their own:

- `nmm_free` waits for all worker cores (`nmm_lib.c:7815`); where one of them
  runs `server_init` (`7407`), an endless loop, it never returns.
- `signal_ipc_reset` finds no buffer when the ring is full: the firmware is not
  told to close, and `la93xx_stop` waits for ever. `FreeReturns` is therefore
  stated for a `nmm_free` whose message was sent.
- `la93xx_stop` clears LIB as well as APP; an `nmm_init` after `nmm_free` in the
  same process would wait for ever. The comment "nmm_init() can only be called
  once" (`nmm_lib.c:140`) excludes it, and so does the model.
- `process_rx` drops the replies of the captures (`nmm_lib.c:2927`).
- `prvVspaDone` stops the timer and tells the host nothing (`nmm_app.c:454`).
  A search ends for the host with the TIMEOUT that the missing ACK brings.
- With STOP among the requests `OneCommandOnCard` is false: a search that
  timed out while the VSPA works, or a STOP that the VSPA refuses, gives up
  `is_active` with a command on the card. Hence its condition.
- A stop of the follow while MS_IND or the GO bit is pending arms the comparator
  again; an indication that finds the queue full ends the chain of ticks, since
  the next one is set when it is counted.
- A dump of samples or a single tone that the host asks of the radio blocks
  `vRficCoreTask` at mailbox 0 for up to two seconds (`rfic_avi_ctrl.c:40-52`). A
  local command posted meanwhile fails after one second (`rfic_core.h:26`) and
  leaves its descriptor, on a stack frame that is gone, in `xLocalQueue`: the core
  executes it later, writes into that frame and posts a response that the next
  caller takes for its own (`rfic_core.c:142-162`). The four properties of the
  RFIC engine say that nothing else leads there.
- In the same wait the core takes the first message of mailbox 0 for its answer. A
  millisecond indication taken so is not counted, and since the next tick is set
  when one is counted, the ticks stop until the next follow.
- The VSPA sends its reply before it writes the cell it found to the shared
  memory (`framework.c:77`), and a PBCH command overwrites a command to track or
  to capture that still waits for its tick.

## 5. What is proved

All proofs are by inductive invariants, each checked by TLC before it was
proved. The table lists what they establish for every value of the constants
that satisfies the module's named assumptions.

| Module | Invariant | Properties |
|---|---|---|
| `HostToModemRingProofs` | `IndexOrder`, `Control`, `Contents`; `MInv` | `TypeOK`, `EnqueueNeverBusy`, `MessageStableWhileHeld`, `ConfirmationMatches`; the safety part of `BoundedQueue` under the mapping `Queue` |
| `ModemToHostRingProofs` | the same for the other direction | `TypeOK` for any number of tasks; with one task (`OneTask`) `MessageStableWhileHeld`, `ConfirmationMatches`, `EachEnqueueHasItsBuffer`, the safety part of `BoundedQueue` |
| `IpcLifecycleProofs` | `Flags`, `Metadata`, `Lives`, `Contents` | `TypeOK`, `BothUp`, `HandlesWhatWasSent` |
| `NmmSessionProofs` | `Shape`, `Balance`; `Stopless`, `Alone`; `OneStop`, `Turns`, `HeldOff`, `Cleared` | `TypeOK`, `AnsweredOnce`, `OneCommandOnCard`, `AnsweredStopMeansIdle` |
| `AviMailboxProofs` | `Hands`, `Distinct`, `Accepted`, `Exclusive` | `TypeOK`, `ReadOnce`, `NothingOverwritten` |
| `FrameScheduleProofs` | `Receivers`; `QueueTypes`, `OneAtATime`; `TickInv`, `Room`, `MibInv` | `TypeOK` and `TicksCounted` of `VspaReplies`, also under `FrameSpec`; `OutputReady`, `FrameTypeOK`, `GnbTime` |
| `RficCoreProofs` | `Events`, `Commands`, `Served`, `Overlaps`, `Delayed`, `Remote` | `TypeOK`, `DescriptorAlive`, `NoStaleResponse`, `SuccessMeansExecuted`, `FailsOnlyIfOverlapped` |

The arguments:

**Rings.** That a held message is stable depends on where `host_pi` stands
relative to `modem_ci`, through two published copies that lag behind. The
invariant says, measured in steps round the ring from the sender's consumer index
(`Dist`): consumed as the sender knows <= consumed <= published <= written; a
private and a published copy differ by one step in the window between barrier and
publication and not otherwise; a sender with a buffer has the buffer of its
slot, and there is room; every written slot has its own buffer, a whole message
and the op that describes it; every finished slot has the verdict on its own op.
Lemmas about `Dist` and `Succ` carry the arithmetic; then there is one lemma per
action. The depth need not be a power of two. In the other direction all this
needs a single sending task: with two it is false, which is finding 1.

**Refinement.** A slot that is finished but not yet free must still show the
message it carried, so `MInv` adds that every outstanding slot has its own
buffer, and that the receiver holds a message only while it works on one. Then
each action is one step: the write of `md->pi` puts, the modem's dequeue
delivers, its consume finishes, the confirmation (or, without confirmations, the
write of `ci`) frees, and the rest touch no outstanding message
(`QueueSlotsStay`). The same argument serves the modem's direction, where the
write of `host_params->pi` puts. That every outstanding slot has its own buffer
is what `EachEnqueueHasItsBuffer` says, so it falls off on the way
(`BuffersDisjoint`); with two sending tasks both it and the refinement are lost
with finding 1, hence `OneTask`, which the run with one task satisfies.

**Lifecycle.** The flags determine which places the two ends can be in together
(`Flags`); the metadata belongs to the host from its set-up to its end and is
clear before (`Metadata`); a life begins with nothing sent and both indexes at
zero (`Lives`), so what lies between the indexes is this life's (`Contents`).
The theorems hold whether or not `SleepHolds`: a host that oversleeps endangers
only `FreeReturns`.

**Session.** `AnsweredOnce` is a balance: answers given, commands waiting for
`vRxLoop`, replies on their way up to the first TIMEOUT (the poll thread resets
the card on it and nothing behind survives) and a running timer, unless a
TIMEOUT is on its way, together are never more than the commands sent. For
`OneCommandOnCard`, `is_active` is a token: a claim by a thread, a command in
the channel, work on the VSPA, a reply without a reset, or a reset under way;
without STOP there is at most one of them, and while there is one the flag is up.
`AnsweredStopMeansIdle` is about the STOP that a response is owed for. Of an
application that does one thing at a time (`OneByOne`) it is in one place: with
its caller, in the channel until `prvDoStop` has served it, or a reply that
`process_stop_reply` has not taken up (`OneStop`). As long as `crt_cmd` says that
nothing but a reset was asked for since, `stop_in_progress` is up and keeps the
reset from being sent (`HeldOff`); so no guarded command lies behind the STOP in
the channel, and when the VSPA has stopped none is left on the card (`Cleared`).
A TIMEOUT's reset empties both channels and takes the STOP with it.

**Mailbox.** No message is in two places and every accepted message is unread;
with a prompt handler whoever is about to write the registers, the holder of the
mutex or the handler, has them to itself.

**Followed cell.** `vSchedularLoop` blocks only on an empty queue, and a message
that comes then wakes it or, before it, `vRficCoreTask` (`Receivers`); `vRxLoop`
receives only while both wait: so `vRxLoop` takes no indication. Every step of
`FrameSchedule` is a step of `VspaReplies` or leaves it alone (`FrameRefines`),
which carries `TicksCounted` over. For `OutputReady`, the command of `vMibLoop`
in the mailbox, its reply and the given semaphore are together at most one, as
long as no other reply has crossed. For `FrameTypeOK`, a tick is at one place at
a time (the GO bit, the indication in the queue, `vSchedularLoop` on its way to
a send) and the mailbox has room for the command it may bring (`TickInv`,
`Room`). For `GnbTime`, a MIB is followed from the command to the end of its
decoding: as long as the clock is not spoilt there is one of them (`OneMib`),
and the cell's time is as far ahead of the firmware's tick count as it was at
the capture, a tick that is still in the queue counted (`Elapsed`). So the ticks
counted since are the age of the MIB, and a clock that was set shows the cell's
time, or the subframe before it after a wrap (`ClockRight`). The remainders of
the nested counts of frames and subframes are the lemmas of `ArithmeticLemmas`
and of a section of the proof.

**RFIC.** No task moves while the core task can run, so an event bit never
outlives the command it announces (`Events`). A task that waits and met no wait
for the VSPA has been served, or is about to be before anybody moves (`Served`);
so the command that is announced or runs is that of a task about to look for its
response, or of a delayed one. While the core waits for the VSPA all calls under
way are delayed ones, and what such a call has in a queue or in the core is known
as `disturbed` until a call that met nothing has found its response (`Delayed`),
which needs the core to itself: only then is nothing left behind.

Only model-checked: liveness and fairness (`SenderNotStarved`, `CallsReturn`,
`QueueMoves`, `DecodingEnds`, `InitReturns`, `FreeReturns`, `RemoteServed`, the
liveness of both refinements of `BoundedQueue`), which are out of the prover's
reach. The properties of the violated runs are false and have no theorem; where
a condition makes one true it has (`BuffersDisjoint`, and `ClockIsRight`, whose
statement includes the subframe that finding 5 loses).

## 6. What is over-approximated or assumed

- Memory barriers are taken at their word: what is written before one is visible
  before what is written after it. No weaker memory model is explored.
- `NmmSession` leaves the outcome of a command to the VSPA open (acknowledged,
  refused, no ACK, with or without the VSPA at work), although the present VSPA
  firmware allows only the last: its properties survive a VSPA that does answer.
- `AnsweredStopMeansIdle` is stated for an application of one thread that awaits
  the response to a STOP before it asks for another (`OneByOne`), which the
  library does not enforce. With two threads it is false: one thread's search is
  answered before that thread sets `vspa_active`; set late, the flag makes the
  STOP that follows the other thread's admitted but unsent search go to the card
  at once, and be answered with OK, with the search sent behind it.
- In `NmmSession` the reset of the card is one step: both channels come back
  empty, the firmware starts afresh. `IpcLifecycle` has its parts.
- `SleepHolds` in `IpcLifecycle`: the host's `sleep(1)` in `nmm_free` is over
  before the firmware's `vTaskDelay(1000)`, which starts after an ACK time-out of
  10 ms. Safety does not need it, `FreeReturns` does.
- `FrameSchedule` takes for granted that `vSchedularLoop` and the VSPA's reading
  of its mailbox take less than a millisecond, and that the queues to and from
  the VSPA do not fill up: the tasks that `vSchedularLoop` can overtake send only
  while there is room for one message more, which is the scheduler's. `AviMailbox`
  and `VspaReplies` show what happens to full queues.
  A MIB's decoding takes any number of ticks.
- `GnbTime` leaves out the clocks marked "raced" and "interrupted": nothing in the
  code prevents them (hazards with a note).
- The mutex of the mailbox is waited for without its timeout of 100 ms, whose
  result the code ignores: no holder blocks or runs for so long.
- In `RficCore` a command's work on the radio is one step, and the timer task's
  command queue does not fill up. The core's wait for the mutex of the mailbox and
  its up to 200 receives are one place, which it may leave at any time, so a local
  call may time out in it or not. A dead descriptor is executed as some command
  that does not wait: what its frame holds by then is not modelled.
- In `VspaReplies` those receives are one wait that ends with a message or without;
  the timeouts between them are made up for by the next receive at once.

## 7. Not modelled

- A host process killed while it is up: the firmware keeps its index and
  handles old descriptors; the code has no recovery but the card's reset. A card
  that does not come back from the reset (`bbdev_la93xx_wdog.c:174` reports
  success all the same), and the walk through sysfs.
- MIB and SIB decoding on the host with its retries and dump requests
  (`decode_mib`, `decode_sib`, `request_dl_dump`): reached only from a search that
  succeeds, which this firmware never reports. On the card `prvDoSIB`,
  `prvDoTimeUpdate` and `prvDoDLDump` serve the same decoding.
- `cmd_timer_thread`: armed only for replies of an unknown type
  (`nmm_lib.c:2941`), which this firmware does not send.
- The callback ring of 16 and its thread: one producer, one consumer, of DPDK's;
  a response that does not fit is dropped.
- The captures and test modes: registers, and replies nobody passes on.
- Mailbox 1: the code of mailbox 0 on its own registers.
- The software command engine and the host's interrupt events: one command, one
  semaphore and one task, in a straight line.
- The eDMA driver: one user at a time in this program, inside `prvVSPAMemInit`.
- Signal processing on the VSPA, PBCH and PDCCH code: numerical, not a matter of
  states. Drivers for I2C, DSPI, GPIO, UART, the CLI, DCS: register programming.
- Vendored code (FreeRTOS, DPDK, lwIP), which is nearly all of the repository's
  lines, is present only as the semantics relied on; the websocket server, the
  web interface and the MATLAB models are tools around the program.

## 8. Running it

    tlc -workers 2 -config NmmSession.cfg MCNmmSession.tla
    tlapm NmmSessionProofs.tla

and so on for the module and configuration that `PROJECT.json` gives each run,
and for each of the eight modules with theorems in section 2.
