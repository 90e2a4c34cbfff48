------------------------------ MODULE IpcLifecycle ------------------------------
(***************************************************************************)
(* How the two ends of the IPC come up, go down and come up again: the     *)
(* host's driver (queue set-up, la93xx_start, la93xx_stop, the reset of    *)
(* the card), the library's nmm_free around it, and the firmware           *)
(* (bbdev_ipc_init, vBBDEVSetup, vRxLoop, prvDoIPCReset).                  *)
(*                                                                         *)
(* They meet in two words of flags in the card's memory, each written by   *)
(* one side, and in the metadata of the channels, which the firmware       *)
(* clears and the host fills in.  A life is what lies between two set-ups  *)
(* of the channels by the host; the messages of the host-to-modem channel  *)
(* carry their life and number.  What happens on a channel that is up is   *)
(* the subject of HostToModemRing and ModemToHostRing.                     *)
(***************************************************************************)
EXTENDS Naturals, FiniteSets

CONSTANTS
    Depth,          \* descriptors of the ring
    MaxLife,        \* bound: lives of the channels
    MaxSent,        \* bound: messages in a life
    SleepHolds      \* the sleep(1) of nmm_free is over before the vTaskDelay(1000)
                    \* of prvDoIPCReset, which begins 10 ms later

ASSUME DepthAssumption == Depth \in Nat \ {0, 1}
ASSUME BoundAssumption == MaxLife \in Nat /\ MaxSent \in Nat
ASSUME SleepAssumption == SleepHolds \in BOOLEAN

VARIABLES
    host,           \* where the host process is
    server,         \* a worker core runs server_init, which does not return
    notified,       \* history: signal_ipc_reset found a buffer
    num_valid_queues,           \* the driver has set up the queues
    host_pi, host_ready, mod_ready,
    md_pi, op_type, bd_m,       \* the channel's metadata: the index, the host's part
                                \* and the modem's part are filled in
    ring,           \* messages in the descriptors
    modem, ci,      \* where the firmware is; md_priv_queue.ci
    life, sent, handled         \* history: the life, its messages sent and handled

hostVars == <<host, server, notified, num_valid_queues, host_pi>>
mdVars == <<md_pi, op_type, bd_m, ring>>
modemVars == <<modem, ci>>
historyVars == <<life, sent, handled>>
vars == <<hostVars, host_ready, mod_ready, mdVars, modemVars, historyVars>>

Message == [life : 1 .. MaxLife, n : 1 .. MaxSent + 1, reset : BOOLEAN]
NoMessage == [life |-> 0, n |-> 0, reset |-> FALSE]

TypeOK ==
    /\ host \in {"none", "probed", "configured", "starting", "up", "waiting", "freeing",
                 "sleeping", "stopping", "closed", "rescan"}
    /\ server \in BOOLEAN /\ notified \in BOOLEAN /\ num_valid_queues \in BOOLEAN
    /\ op_type \in BOOLEAN /\ bd_m \in BOOLEAN
    /\ host_pi \in 0 .. Depth - 1 /\ md_pi \in 0 .. Depth - 1 /\ ci \in 0 .. Depth - 1
    /\ host_ready \subseteq {"LIB", "APP"} /\ mod_ready \subseteq {"LIB", "APP"}
    /\ ring \in [0 .. Depth - 1 -> Message \cup {NoMessage}]
    /\ modem \in {"boot", "setup", "up", "delay"}
    /\ life \in 0 .. MaxLife /\ sent \in 0 .. MaxSent + 1 /\ handled \in 0 .. sent

Init ==
    /\ host = "none" /\ server \in BOOLEAN /\ notified = FALSE
    /\ num_valid_queues = FALSE /\ host_pi = 0
    /\ host_ready = {} /\ mod_ready = {}
    /\ md_pi = 0 /\ op_type = FALSE /\ bd_m = FALSE
    /\ ring = [i \in 0 .. Depth - 1 |-> NoMessage]
    /\ modem = "boot" /\ ci = 0
    /\ life = 0 /\ sent = 0 /\ handled = 0

FaultSucc(i) == i + 1

Succ(i) == (i + 1) % Depth

-------------------------------------------------------------------------------
(* The host: set-up and start. *)

NewLife ==
    /\ life < MaxLife
    /\ life' = life + 1 /\ sent' = 0 /\ handled' = 0

\* setup_la93xx_dev in a new process, with the card's signature in place; the
\* kernel driver has set LIB.
Probe ==
    /\ modem # "boot"
    /\ host_ready' = host_ready \cup {"LIB"}
    /\ num_valid_queues' = FALSE
    /\ NewLife
    /\ UNCHANGED <<server, notified, host_pi, mod_ready, mdVars, modemVars>>

Exec == host = "none" /\ host' = "probed" /\ Probe

\* la93xx_queue_setup: a queue that is already valid is taken over as it is;
\* what earlier messages have left in the modem's memory stays there.
SetupQueues ==
    /\ host = "probed"
    /\ host' = "configured"
    /\ num_valid_queues' = TRUE
    /\ IF num_valid_queues THEN host_pi' = md_pi /\ UNCHANGED mdVars
       ELSE /\ md_pi' = 0 /\ host_pi' = 0
            /\ op_type' = TRUE
            /\ UNCHANGED <<bd_m, ring>>
    /\ UNCHANGED <<server, notified, host_ready, mod_ready, modemVars, historyVars>>

\* la93xx_start: APP is set, then the firmware's is waited for.
Start ==
    /\ host = "configured"
    /\ host' = "starting"
    /\ host_ready' = host_ready \cup {"APP"}
    /\ UNCHANGED <<server, notified, num_valid_queues, host_pi, mod_ready, mdVars, modemVars, historyVars>>

Started ==
    /\ host = "starting" /\ "APP" \in mod_ready
    /\ host' = "up"
    /\ UNCHANGED <<server, notified, num_valid_queues, host_pi, host_ready, mod_ready, mdVars, modemVars, historyVars>>

HasRoom == Succ(host_pi) # ci

Put(reset) ==
    /\ ring' = [ring EXCEPT ![host_pi] = [life |-> life, n |-> sent + 1, reset |-> reset]]
    /\ host_pi' = Succ(host_pi) /\ md_pi' = Succ(host_pi)
    /\ sent' = sent + 1
    /\ UNCHANGED <<op_type, bd_m>>

Send ==
    /\ host = "up" /\ sent < MaxSent /\ HasRoom
    /\ Put(FALSE)
    /\ UNCHANGED <<host, server, notified, num_valid_queues, host_ready, mod_ready, modemVars, life, handled>>

-------------------------------------------------------------------------------
(* The host: nmm_free, a process that ends, and the reset of the card. *)

\* do_poll is cleared and the worker cores are waited for.
Free ==
    /\ host = "up"
    /\ host' = "waiting"
    /\ UNCHANGED <<server, notified, num_valid_queues, host_pi, host_ready, mod_ready, mdVars, modemVars, historyVars>>

WaitLcores ==
    /\ host = "waiting" /\ ~ server
    /\ host' = "freeing"
    /\ UNCHANGED <<server, notified, num_valid_queues, host_pi, host_ready, mod_ready, mdVars, modemVars, historyVars>>

\* signal_ipc_reset: without a buffer the firmware is told nothing.
SignalReset ==
    /\ host = "freeing"
    /\ host' = "sleeping"
    /\ notified' = HasRoom
    /\ IF HasRoom THEN Put(TRUE) ELSE UNCHANGED <<host_pi, mdVars, sent>>
    /\ UNCHANGED <<server, num_valid_queues, host_ready, mod_ready, modemVars, life, handled>>

\* la93xx_stop that leaves the flags to the next start.
FaultStop ==
    /\ host = "sleeping"
    /\ host' = "stopping"
    /\ UNCHANGED <<server, notified, num_valid_queues, host_pi, host_ready, mod_ready, mdVars, modemVars, historyVars>>

\* la93xx_stop: the flags are cleared, LIB as well, and the firmware waited for.
Stop ==
    /\ host = "sleeping"
    /\ host' = "stopping"
    /\ host_ready' = {}
    /\ UNCHANGED <<server, notified, num_valid_queues, host_pi, mod_ready, mdVars, modemVars, historyVars>>

Stopped ==
    /\ host = "stopping" /\ "APP" \notin mod_ready
    /\ host' = "closed"
    /\ UNCHANGED <<server, notified, num_valid_queues, host_pi, host_ready, mod_ready, mdVars, modemVars, historyVars>>

\* The process ends, or is ended before it has told the firmware of itself.
Exit ==
    /\ host \in {"probed", "configured", "closed"}
    /\ host' = "none"
    /\ UNCHANGED <<server, notified, num_valid_queues, host_pi, host_ready, mod_ready, mdVars, modemVars, historyVars>>

\* rte_pmd_la93xx_reset: the card is taken from the bus and reset.
ResetCard ==
    /\ host = "up" /\ life < MaxLife
    /\ host' = "rescan"
    /\ modem' = "boot"
    /\ host_ready' = {} /\ mod_ready' = {}
    /\ UNCHANGED <<server, notified, num_valid_queues, host_pi, mdVars, ci, historyVars>>

\* The card is back on the bus in time and is set up as by a new process.
Rescan == host = "rescan" /\ host' = "probed" /\ Probe

-------------------------------------------------------------------------------
(* The firmware. *)

\* The firmware's index outlives the initialisation.
Faultbbdev_ipc_init ==
    /\ md_pi' = 0 /\ op_type' = FALSE /\ bd_m' = FALSE
    /\ UNCHANGED <<ci, ring>>

bbdev_ipc_init ==
    /\ md_pi' = 0 /\ op_type' = FALSE /\ bd_m' = FALSE
    /\ ci' = 0
    /\ UNCHANGED ring

Boot ==
    /\ modem = "boot"
    /\ modem' = "setup"
    /\ bbdev_ipc_init
    /\ mod_ready' = {"LIB"}
    /\ UNCHANGED <<hostVars, host_ready, historyVars>>

\* "TODO: Try reducing to one check for LIB".
Faultbbdev_ipc_is_host_initialized == "LIB" \in host_ready

bbdev_ipc_is_host_initialized == {"LIB", "APP"} \subseteq host_ready

\* The host is told of the first set-up only.
FaultSignal == IF life = 1 THEN {"APP"} ELSE {}

Signal == {"APP"}

\* vBBDEVSetup configures the queues that have a type; then bbdev_ipc_signal_ready.
Setup ==
    /\ modem = "setup" /\ bbdev_ipc_is_host_initialized
    /\ modem' = "up"
    /\ bd_m' = op_type
    /\ md_pi' = 0
    /\ mod_ready' = mod_ready \cup Signal
    /\ UNCHANGED <<hostVars, host_ready, op_type, ring, ci, historyVars>>

\* prvProcessHostRx: the message is handled and its descriptor given back.
Handle ==
    /\ modem = "up" /\ bd_m /\ ci # md_pi
    /\ ~ ring[ci].reset
    /\ ci' = Succ(ci)
    /\ handled' = handled + 1
    /\ UNCHANGED <<hostVars, host_ready, mod_ready, mdVars, modem, life, sent>>

\* prvDoIPCReset: no more messages are sent, the VSPA is stopped, a second passes.
HandleReset ==
    /\ modem = "up" /\ bd_m /\ ci # md_pi
    /\ ring[ci].reset
    /\ modem' = "delay"
    /\ UNCHANGED <<hostVars, host_ready, mod_ready, mdVars, ci, historyVars>>

\* bbdev_ipc_close and bbdev_ipc_init, in far less time than a process takes to
\* start.
Reopen ==
    /\ modem = "delay"
    /\ SleepHolds => host_ready = {}
    /\ modem' = "setup"
    /\ bbdev_ipc_init
    /\ mod_ready' = {"LIB"}
    /\ UNCHANGED <<hostVars, host_ready, historyVars>>

HostGoesOn ==
    \/ SetupQueues \/ Start \/ Started
    \/ WaitLcores \/ SignalReset \/ Stop \/ Stopped \/ Rescan

Firmware == Boot \/ Setup \/ Handle \/ HandleReset \/ Reopen

Next == HostGoesOn \/ Exec \/ Send \/ Free \/ Exit \/ ResetCard \/ Firmware

Spec == Init /\ [][Next]_vars

\* A call of the library goes on; when it is made is up to the application.
FairSpec == Spec /\ WF_vars(HostGoesOn) /\ WF_vars(Firmware)

-------------------------------------------------------------------------------
(* Properties. *)

Up == host \in {"up", "waiting", "freeing"}

\* A host that is up talks to a firmware that has configured the channels which
\* this host has set up: no clearing of the metadata hits a channel in use.
BothUp == Up => modem = "up" /\ op_type /\ bd_m /\ {"LIB", "APP"} \subseteq host_ready

\* From one life to the next the indexes start together: the firmware handles
\* the messages of this life, in order, none of an earlier one and none twice.
HandlesWhatWasSent ==
    modem = "up" /\ bd_m /\ ci # md_pi => ring[ci].life = life /\ ring[ci].n = handled + 1

\* nmm_init returns (and so does the reset of a card that comes back).
InitReturns == host = "starting" ~> host # "starting"

\* nmm_free returns once it has sent the IPC reset; before that it waits for
\* the worker cores, and with no buffer for the message it waits for ever.
FreeReturns == host = "stopping" /\ notified ~> host = "closed"
===============================================================================
