-------------------------- MODULE IpcLifecycleProofs --------------------------
(***************************************************************************)
(* Safety of set-up, shut-down and reset of the IPC for every ring size    *)
(* and any number of lives and messages, with or without a host that       *)
(* oversleeps, by the inductive invariant IInv.                            *)
(***************************************************************************)
EXTENDS IpcLifecycle, TLAPS

Slot == 0 .. Depth - 1

\* Steps round the ring from a to b.
Dist(a, b) == IF b >= a THEN b - a ELSE b + Depth - a

Ending == host \in {"sleeping", "stopping"}

\* What the flags say of the two ends, and where one end can be while the
\* other is where it is.
Flags ==
    /\ "APP" \in host_ready <=> host \in {"starting", "up", "waiting", "freeing", "sleeping"}
    /\ host \in {"probed", "configured", "starting", "up", "waiting", "freeing"} => "LIB" \in host_ready
    /\ "APP" \in mod_ready <=> modem \in {"up", "delay"}
    /\ modem = "boot" => host \in {"none", "rescan"}
    /\ modem = "up" => host = "starting" \/ Up \/ Ending
    /\ modem = "delay" => Ending
    /\ Up => modem = "up"

\* The metadata is the host's from its set-up to its end, cleared before.
Metadata ==
    /\ host = "probed" => ~ num_valid_queues
    /\ host \in {"configured", "starting", "up", "waiting", "freeing"} => op_type
    /\ modem = "setup" => ci = 0 /\ (Ending => ~ op_type)
    /\ modem = "up" /\ ~ Ending => bd_m

\* A life begins with nothing sent.
Lives ==
    /\ host # "none" => life >= 1
    /\ host = "probed" => sent = 0
    /\ host \in {"configured", "starting"} => host_pi = 0 /\ md_pi = 0 /\ sent = 0
    /\ host \in {"up", "waiting", "freeing"} => sent <= MaxSent

\* The ring holds what was sent in this life and not yet handled; the reset is
\* the last of it.
Contents ==
    modem = "up" /\ bd_m =>
        /\ host_pi = md_pi
        /\ Dist(ci, md_pi) = sent - handled
        /\ \A i \in Slot : Dist(ci, i) < sent - handled =>
              /\ ring[i].life = life /\ ring[i].n = handled + 1 + Dist(ci, i)
              /\ ring[i].reset => Ending

IInv == TypeOK /\ Flags /\ Metadata /\ Lives /\ Contents

-------------------------------------------------------------------------------
(* Arithmetic of the ring. *)

LEMMA SuccType ==
    ASSUME NEW i \in Slot
    PROVE  Succ(i) \in Slot /\ Succ(i) = (IF i + 1 = Depth THEN 0 ELSE i + 1)
  <1>1. CASE i + 1 = Depth
    <2>1. Depth % Depth = 0
      BY DepthAssumption
    <2> QED
      BY <1>1, <2>1, DepthAssumption DEF Succ, Slot
  <1>2. CASE i + 1 # Depth
    <2>1. (i + 1) % Depth = i + 1
      BY <1>2, DepthAssumption DEF Slot
    <2> QED
      BY <1>2, <2>1, DepthAssumption DEF Succ, Slot
  <1> QED
    BY <1>1, <1>2

LEMMA DistType ==
    ASSUME NEW a \in Slot, NEW b \in Slot
    PROVE  /\ Dist(a, b) \in Nat
           /\ Dist(a, b) = 0 <=> a = b
  BY DepthAssumption DEF Dist, Slot

\* A slot put in front of the others is one step further than all of them.
LEMMA DistSucc ==
    ASSUME NEW a \in Slot, NEW b \in Slot, Succ(b) # a
    PROVE  Dist(a, Succ(b)) = Dist(a, b) + 1
  BY SuccType, DepthAssumption DEF Dist, Slot

LEMMA DistInjective ==
    ASSUME NEW a \in Slot, NEW b \in Slot, NEW c \in Slot, Dist(a, b) = Dist(a, c)
    PROVE  b = c
  BY DepthAssumption DEF Dist, Slot

\* A slot that is given up is one step that the others are nearer.
LEMMA DistSuccOrigin ==
    ASSUME NEW a \in Slot, NEW b \in Slot
    PROVE  Dist(Succ(a), b) = IF a = b THEN Depth - 1 ELSE Dist(a, b) - 1
  BY SuccType, DepthAssumption DEF Dist, Slot

-------------------------------------------------------------------------------
(* The invariant. *)

LEMMA Slots == 0 \in Slot /\ Slot = 0 .. Depth - 1
  BY DepthAssumption DEF Slot

LEMMA InitInv == Init => IInv
  <1> SUFFICES ASSUME Init PROVE IInv
    OBVIOUS
  <1> USE DEF Init
  <1>1. TypeOK
    <2>1. ring \in [Slot -> Message \cup {NoMessage}]
      BY Slots
    <2>2. host_ready \subseteq {"LIB", "APP"} /\ mod_ready \subseteq {"LIB", "APP"}
      OBVIOUS
    <2>3. life \in 0 .. MaxLife /\ sent \in 0 .. MaxSent + 1 /\ handled \in 0 .. sent
      BY BoundAssumption
    <2> QED
      BY <2>1, <2>2, <2>3, Slots DEF TypeOK
  <1>2. Flags /\ Metadata /\ Lives /\ Contents
    BY DEF Flags, Metadata, Lives, Contents, Up, Ending
  <1> QED
    BY <1>1, <1>2 DEF IInv

LEMMA ExecInv ==
    ASSUME IInv, Exec PROVE IInv'
  <1> USE DEF Exec, Probe, NewLife, IInv, Up, Ending, hostVars, mdVars, modemVars, historyVars
  <1>1. TypeOK'
    <2>1. host_ready' \subseteq {"LIB", "APP"}
      BY DEF TypeOK
    <2>2. life' \in 0 .. MaxLife /\ sent' \in 0 .. MaxSent + 1 /\ handled' \in 0 .. sent'
      BY BoundAssumption DEF TypeOK
    <2> QED
      BY <2>1, <2>2 DEF TypeOK
  <1>2. Flags'
    BY DEF TypeOK, Flags
  <1>3. Metadata'
    BY DEF TypeOK, Flags, Metadata
  <1>4. Lives'
    <2>1. life' >= 1
      BY BoundAssumption DEF TypeOK
    <2> QED
      BY <2>1 DEF TypeOK, Lives
  <1>5. Contents'
    BY DEF Contents, Flags, TypeOK
  <1> QED
    BY <1>1, <1>2, <1>3, <1>4, <1>5

LEMMA SetupQueuesInv ==
    ASSUME IInv, SetupQueues PROVE IInv'
  <1> USE DEF SetupQueues, IInv, Up, Ending, hostVars, mdVars, modemVars, historyVars
  <1>1. TypeOK'
    BY Slots DEF TypeOK
  <1>2. Flags'
    BY DEF TypeOK, Flags
  <1>3. Metadata'
    BY DEF TypeOK, Flags, Metadata
  <1>4. Lives'
    BY DEF TypeOK, Flags, Metadata, Lives
  <1>5. Contents'
    BY DEF Contents, Flags, TypeOK
  <1> QED
    BY <1>1, <1>2, <1>3, <1>4, <1>5

LEMMA StartInv ==
    ASSUME IInv, Start PROVE IInv'
  <1> USE DEF Start, IInv, Up, Ending, hostVars, mdVars, modemVars, historyVars
  <1>1. TypeOK'
    BY BoundAssumption, DepthAssumption DEF TypeOK, Flags, Lives
  <1>2. Flags'
    BY DEF TypeOK, Flags
  <1>3. Metadata'
    BY DEF TypeOK, Flags, Metadata
  <1>4. Lives'
    BY BoundAssumption DEF TypeOK, Flags, Lives
  <1>5. Contents'
    BY DEF Contents, Flags, TypeOK
  <1> QED
    BY <1>1, <1>2, <1>3, <1>4, <1>5

LEMMA StartedInv ==
    ASSUME IInv, Started PROVE IInv'
  <1> USE DEF Started, IInv, Up, Ending, hostVars, mdVars, modemVars, historyVars
  <1>1. TypeOK'
    BY BoundAssumption, DepthAssumption DEF TypeOK, Flags, Lives
  <1>2. Flags'
    BY DEF TypeOK, Flags
  <1>3. Metadata'
    BY DEF TypeOK, Flags, Metadata
  <1>4. Lives'
    BY BoundAssumption DEF TypeOK, Flags, Lives
  <1>5. Contents'
    BY DEF Contents, Flags, TypeOK
  <1> QED
    BY <1>1, <1>2, <1>3, <1>4, <1>5

LEMMA FreeInv ==
    ASSUME IInv, Free PROVE IInv'
  <1> USE DEF Free, IInv, Up, Ending, hostVars, mdVars, modemVars, historyVars
  <1>1. TypeOK'
    BY BoundAssumption, DepthAssumption DEF TypeOK, Flags, Lives
  <1>2. Flags'
    BY DEF TypeOK, Flags
  <1>3. Metadata'
    BY DEF TypeOK, Flags, Metadata
  <1>4. Lives'
    BY BoundAssumption DEF TypeOK, Flags, Lives
  <1>5. Contents'
    BY DEF Contents, Flags, TypeOK
  <1> QED
    BY <1>1, <1>2, <1>3, <1>4, <1>5

LEMMA WaitLcoresInv ==
    ASSUME IInv, WaitLcores PROVE IInv'
  <1> USE DEF WaitLcores, IInv, Up, Ending, hostVars, mdVars, modemVars, historyVars
  <1>1. TypeOK'
    BY BoundAssumption, DepthAssumption DEF TypeOK, Flags, Lives
  <1>2. Flags'
    BY DEF TypeOK, Flags
  <1>3. Metadata'
    BY DEF TypeOK, Flags, Metadata
  <1>4. Lives'
    BY BoundAssumption DEF TypeOK, Flags, Lives
  <1>5. Contents'
    BY DEF Contents, Flags, TypeOK
  <1> QED
    BY <1>1, <1>2, <1>3, <1>4, <1>5

LEMMA StopInv ==
    ASSUME IInv, Stop PROVE IInv'
  <1> USE DEF Stop, IInv, Up, Ending, hostVars, mdVars, modemVars, historyVars
  <1>1. TypeOK'
    BY BoundAssumption, DepthAssumption DEF TypeOK, Flags, Lives
  <1>2. Flags'
    BY DEF TypeOK, Flags
  <1>3. Metadata'
    BY DEF TypeOK, Flags, Metadata
  <1>4. Lives'
    BY BoundAssumption DEF TypeOK, Flags, Lives
  <1>5. Contents'
    BY DEF Contents, Flags, TypeOK
  <1> QED
    BY <1>1, <1>2, <1>3, <1>4, <1>5

LEMMA StoppedInv ==
    ASSUME IInv, Stopped PROVE IInv'
  <1> USE DEF Stopped, IInv, Up, Ending, hostVars, mdVars, modemVars, historyVars
  <1>1. TypeOK'
    BY BoundAssumption, DepthAssumption DEF TypeOK, Flags, Lives
  <1>2. Flags'
    BY DEF TypeOK, Flags
  <1>3. Metadata'
    BY DEF TypeOK, Flags, Metadata
  <1>4. Lives'
    BY BoundAssumption DEF TypeOK, Flags, Lives
  <1>5. Contents'
    BY DEF Contents, Flags, TypeOK
  <1> QED
    BY <1>1, <1>2, <1>3, <1>4, <1>5

LEMMA ExitInv ==
    ASSUME IInv, Exit PROVE IInv'
  <1> USE DEF Exit, IInv, Up, Ending, hostVars, mdVars, modemVars, historyVars
  <1>1. TypeOK'
    BY BoundAssumption, DepthAssumption DEF TypeOK, Flags, Lives
  <1>2. Flags'
    BY DEF TypeOK, Flags
  <1>3. Metadata'
    BY DEF TypeOK, Flags, Metadata
  <1>4. Lives'
    BY BoundAssumption DEF TypeOK, Flags, Lives
  <1>5. Contents'
    BY DEF Contents, Flags, TypeOK
  <1> QED
    BY <1>1, <1>2, <1>3, <1>4, <1>5

LEMMA ResetCardInv ==
    ASSUME IInv, ResetCard PROVE IInv'
  <1> USE DEF ResetCard, IInv, Up, Ending, hostVars, mdVars, modemVars, historyVars
  <1>1. TypeOK'
    BY BoundAssumption, DepthAssumption DEF TypeOK, Flags, Lives
  <1>2. Flags'
    BY DEF TypeOK, Flags
  <1>3. Metadata'
    BY DEF TypeOK, Flags, Metadata
  <1>4. Lives'
    BY BoundAssumption DEF TypeOK, Flags, Lives
  <1>5. Contents'
    BY DEF Contents, Flags, TypeOK
  <1> QED
    BY <1>1, <1>2, <1>3, <1>4, <1>5

LEMMA RescanInv ==
    ASSUME IInv, Rescan PROVE IInv'
  <1> USE DEF Rescan, Probe, NewLife, IInv, Up, Ending, hostVars, mdVars, modemVars, historyVars
  <1>1. TypeOK'
    <2>1. host_ready' \subseteq {"LIB", "APP"}
      BY DEF TypeOK
    <2>2. life' \in 0 .. MaxLife /\ sent' \in 0 .. MaxSent + 1 /\ handled' \in 0 .. sent'
      BY BoundAssumption DEF TypeOK
    <2> QED
      BY <2>1, <2>2 DEF TypeOK
  <1>2. Flags'
    BY DEF TypeOK, Flags
  <1>3. Metadata'
    BY DEF TypeOK, Flags, Metadata
  <1>4. Lives'
    <2>1. life' >= 1
      BY BoundAssumption DEF TypeOK
    <2> QED
      BY <2>1 DEF TypeOK, Lives
  <1>5. Contents'
    BY DEF Contents, Flags, TypeOK
  <1> QED
    BY <1>1, <1>2, <1>3, <1>4, <1>5

LEMMA BootInv ==
    ASSUME IInv, Boot PROVE IInv'
  <1> USE DEF Boot, bbdev_ipc_init, IInv, Up, Ending, hostVars, mdVars, modemVars, historyVars
  <1>1. TypeOK'
    <2>1. mod_ready' \subseteq {"LIB", "APP"} /\ modem' = "setup" /\ md_pi' \in Slot /\ ci' \in Slot
      BY Slots
    <2> QED
      BY <2>1, Slots DEF TypeOK
  <1>2. Flags'
    BY DEF TypeOK, Flags
  <1>3. Metadata'
    BY DEF TypeOK, Flags, Metadata
  <1>4. Lives'
    BY BoundAssumption DEF TypeOK, Flags, Lives
  <1>5. Contents'
    BY DEF Contents, Flags, TypeOK
  <1> QED
    BY <1>1, <1>2, <1>3, <1>4, <1>5

LEMMA HandleResetInv ==
    ASSUME IInv, HandleReset PROVE IInv'
  <1> USE DEF HandleReset, IInv, Up, Ending, hostVars, mdVars, modemVars, historyVars
  <1>1. TypeOK'
    BY BoundAssumption, DepthAssumption DEF TypeOK, Flags, Lives
  <1>2. Flags'
    <2>1. Dist(ci, ci) = 0 /\ Dist(ci, md_pi) \in Nat /\ Dist(ci, md_pi) # 0 /\ ci \in Slot
      BY DistType DEF TypeOK, Slot
    <2>2. Dist(ci, md_pi) = sent - handled
      BY DEF Contents
    <2>3. Dist(ci, ci) < sent - handled
      BY <2>1, <2>2
    <2>4. Ending
      BY <2>1, <2>3 DEF Contents
    <2> QED
      BY <2>4 DEF TypeOK, Flags
  <1>3. Metadata'
    BY DEF TypeOK, Flags, Metadata
  <1>4. Lives'
    BY BoundAssumption DEF TypeOK, Flags, Lives
  <1>5. Contents'
    BY DEF Contents, Flags, TypeOK
  <1> QED
    BY <1>1, <1>2, <1>3, <1>4, <1>5

LEMMA ReopenInv ==
    ASSUME IInv, Reopen PROVE IInv'
  <1> USE DEF Reopen, bbdev_ipc_init, IInv, Up, Ending, hostVars, mdVars, modemVars, historyVars
  <1>1. TypeOK'
    <2>1. mod_ready' \subseteq {"LIB", "APP"} /\ modem' = "setup" /\ md_pi' \in Slot /\ ci' \in Slot
      BY Slots
    <2> QED
      BY <2>1, Slots DEF TypeOK
  <1>2. Flags'
    BY DEF TypeOK, Flags
  <1>3. Metadata'
    BY DEF TypeOK, Flags, Metadata
  <1>4. Lives'
    BY BoundAssumption DEF TypeOK, Flags, Lives
  <1>5. Contents'
    BY DEF Contents, Flags, TypeOK
  <1> QED
    BY <1>1, <1>2, <1>3, <1>4, <1>5

-------------------------------------------------------------------------------
(* A message is put into the ring, and one is handled. *)

\* A message put into the ring of a host that is up is the last of the ring.
LEMMA PutType ==
    ASSUME IInv, NEW reset \in BOOLEAN, Put(reset), Up, sent <= MaxSent
    PROVE  /\ host_pi' \in Slot /\ md_pi' \in Slot
           /\ ring' \in [Slot -> Message \cup {NoMessage}]
           /\ sent' = sent + 1 /\ sent' \in 0 .. MaxSent + 1
           /\ op_type' = op_type /\ bd_m' = bd_m
  <1>1. host_pi \in Slot /\ Succ(host_pi) \in Slot
    BY SuccType DEF IInv, TypeOK, Slot
  <1>2. life \in 1 .. MaxLife
    BY BoundAssumption DEF IInv, TypeOK, Lives, Up
  <1>3. sent + 1 \in 1 .. MaxSent + 1
    BY BoundAssumption DEF IInv, TypeOK
  <1>4. [life |-> life, n |-> sent + 1, reset |-> reset] \in Message
    BY <1>2, <1>3 DEF Message
  <1>5. ring' \in [Slot -> Message \cup {NoMessage}]
    BY <1>1, <1>4 DEF Put, IInv, TypeOK, Slot
  <1> QED
    BY <1>1, <1>3, <1>5 DEF Put

LEMMA PutContents ==
    ASSUME IInv, NEW reset \in BOOLEAN, Put(reset), Up, HasRoom,
           UNCHANGED <<modem, ci, life, handled>>, reset => Ending'
    PROVE  Contents'
  <1> DEFINE held == sent - handled
  <1>1. /\ modem = "up" /\ bd_m /\ ~ Ending
    BY DEF IInv, Flags, Metadata, Up, Ending
  <1>2. /\ host_pi = md_pi /\ Dist(ci, md_pi) = held
        /\ \A i \in Slot : Dist(ci, i) < held =>
              ring[i].life = life /\ ring[i].n = handled + 1 + Dist(ci, i) /\ ~ ring[i].reset
    BY <1>1 DEF IInv, Contents
  <1>3. /\ md_pi \in Slot /\ ci \in Slot /\ Succ(md_pi) \in Slot
        /\ sent \in Nat /\ handled \in Nat /\ held \in Nat
        /\ ring \in [Slot -> Message \cup {NoMessage}]
    <2>1. sent \in Nat /\ handled \in 0 .. sent
      BY BoundAssumption DEF IInv, TypeOK
    <2> QED
      BY <2>1, SuccType DEF IInv, TypeOK, Slot
  <1>4. /\ host_pi' = md_pi' /\ md_pi' = Succ(md_pi) /\ sent' = sent + 1
        /\ ring' = [ring EXCEPT ![md_pi] = [life |-> life, n |-> sent + 1, reset |-> reset]]
    BY <1>2 DEF Put
  <1>5. Dist(ci, md_pi)' = held + 1
    BY <1>2, <1>3, <1>4, DistSucc DEF HasRoom, Dist
  <1>6. ASSUME NEW i \in Slot, Dist(ci, i) < held + 1
        PROVE  /\ ring'[i].life = life /\ ring'[i].n = handled + 1 + Dist(ci, i)
               /\ ring'[i].reset => Ending'
    <2>1. CASE i = md_pi
      <3>1. ring'[i] = [life |-> life, n |-> sent + 1, reset |-> reset]
        BY <2>1, <1>3, <1>4
      <3>2. handled + 1 + Dist(ci, i) = sent + 1
        BY <2>1, <1>2, <1>3
      <3> QED
        BY <3>1, <3>2
    <2>2. CASE i # md_pi
      <3>1. ring'[i] = ring[i]
        BY <2>2, <1>3, <1>4
      <3>2. Dist(ci, i) # held
        BY <2>2, <1>2, <1>3, DistInjective
      <3>3. Dist(ci, i) < held
        BY <3>2, <1>3, <1>6, DistType
      <3> QED
        BY <3>1, <3>3, <1>2
    <2> QED
      BY <2>1, <2>2
  <1>7. \A i \in Slot : Dist(ci, i)' = Dist(ci, i)
    BY DEF Dist
  <1> QED
    BY <1>3, <1>4, <1>5, <1>6, <1>7 DEF Contents

LEMMA SendInv ==
    ASSUME IInv, Send PROVE IInv'
  <1> USE DEF Send, IInv, Up, Ending, modemVars
  <1>1. Put(FALSE) /\ Up /\ HasRoom /\ sent <= MaxSent
    BY DEF Lives
  <1>2. /\ host_pi' \in Slot /\ md_pi' \in Slot
        /\ ring' \in [Slot -> Message \cup {NoMessage}]
        /\ sent' = sent + 1 /\ sent' \in 0 .. MaxSent + 1
        /\ op_type' = op_type /\ bd_m' = bd_m
    BY <1>1, PutType
  <1>3. handled' \in 0 .. sent'
    BY <1>2, BoundAssumption DEF TypeOK
  <1>4. TypeOK'
    BY <1>2, <1>3, Slots DEF TypeOK
  <1>5. Flags' /\ Metadata'
    BY <1>2 DEF TypeOK, Flags, Metadata
  <1>6. Lives'
    BY <1>2, BoundAssumption DEF TypeOK, Lives
  <1>7. Contents'
    BY <1>1, PutContents
  <1> QED
    BY <1>4, <1>5, <1>6, <1>7

LEMMA SignalResetInv ==
    ASSUME IInv, SignalReset PROVE IInv'
  <1> USE DEF SignalReset, IInv, Up, Ending, modemVars, mdVars
  <1>1. CASE ~ HasRoom
    <2>1. TypeOK'
      BY <1>1 DEF TypeOK, HasRoom
    <2>2. Flags' /\ Metadata' /\ Lives'
      BY <1>1 DEF TypeOK, Flags, Metadata, Lives
    <2>3. Contents'
      BY <1>1 DEF TypeOK, Flags, Contents, Dist
    <2> QED
      BY <2>1, <2>2, <2>3
  <1>2. CASE HasRoom
    <2>1. Put(TRUE) /\ Up /\ HasRoom /\ sent <= MaxSent
      BY <1>2 DEF Lives
    <2>2. /\ host_pi' \in Slot /\ md_pi' \in Slot
          /\ ring' \in [Slot -> Message \cup {NoMessage}]
          /\ sent' = sent + 1 /\ sent' \in 0 .. MaxSent + 1
          /\ op_type' = op_type /\ bd_m' = bd_m
      BY <2>1, PutType
    <2>3. handled' \in 0 .. sent'
      BY <2>2, BoundAssumption DEF TypeOK
    <2>4. TypeOK'
      BY <1>2, <2>2, <2>3, Slots DEF TypeOK
    <2>5. Flags' /\ Metadata' /\ Lives'
      BY <2>2 DEF TypeOK, Flags, Metadata, Lives
    <2>6. Contents'
      BY <2>1, PutContents
    <2> QED
      BY <2>4, <2>5, <2>6
  <1> QED
    BY <1>1, <1>2

\* The host has set up the channels and waits: both indexes start with the life.
LEMMA SetupInv ==
    ASSUME IInv, Setup PROVE IInv'
  <1> USE DEF Setup, Signal, bbdev_ipc_is_host_initialized, IInv, Up, Ending, hostVars, historyVars
  <1>1. host \in {"starting", "sleeping"}
    BY DEF Flags, TypeOK
  <1>2. TypeOK'
    <2>1. mod_ready' \subseteq {"LIB", "APP"} /\ md_pi' \in Slot
      BY Slots DEF TypeOK
    <2> QED
      BY <2>1, Slots DEF TypeOK
  <1>3. Flags' /\ Metadata' /\ Lives'
    BY <1>1 DEF TypeOK, Flags, Metadata, Lives
  <1>4. Contents'
    <2>1. SUFFICES ASSUME bd_m' PROVE Contents'
      BY DEF Contents
    <2>2. host = "starting" /\ ci = 0 /\ host_pi = 0 /\ sent = 0
      BY <1>1, <2>1 DEF Metadata, Lives
    <2>3. handled = 0
      BY <2>2 DEF TypeOK
    <2>4. Dist(ci, md_pi)' = 0
      BY <2>2 DEF Dist
    <2>5. \A i \in Slot : ~ Dist(ci, i)' < 0
      BY <2>2, Slots DEF Dist
    <2> QED
      BY <2>2, <2>3, <2>4, <2>5 DEF Contents
  <1> QED
    BY <1>2, <1>3, <1>4

\* There is something to handle: the oldest message is this life's next.
LEMMA OldestIsNext ==
    ASSUME IInv, modem = "up", bd_m, ci # md_pi
    PROVE  /\ sent - handled >= 1
           /\ ring[ci].life = life /\ ring[ci].n = handled + 1
           /\ ring[ci].reset => Ending
  <1>1. ci \in Slot /\ md_pi \in Slot
    BY DEF IInv, TypeOK, Slot
  <1>2. sent \in Nat /\ handled \in Nat
    BY BoundAssumption DEF IInv, TypeOK
  <1>3. Dist(ci, ci) = 0 /\ Dist(ci, md_pi) \in Nat /\ Dist(ci, md_pi) # 0
    BY <1>1, DistType
  <1>4. Dist(ci, md_pi) = sent - handled
    BY DEF IInv, Contents
  <1>5. Dist(ci, ci) < sent - handled /\ handled + 1 + Dist(ci, ci) = handled + 1
    BY <1>2, <1>3, <1>4
  <1> QED
    BY <1>1, <1>2, <1>3, <1>4, <1>5 DEF IInv, Contents

LEMMA HandleInv ==
    ASSUME IInv, Handle PROVE IInv'
  <1> USE DEF Handle, IInv, Up, Ending, hostVars, mdVars
  <1> DEFINE held == sent - handled
  <1>1. /\ ci \in Slot /\ md_pi \in Slot /\ Succ(ci) \in Slot
        /\ sent \in Nat /\ handled \in Nat /\ held >= 1
    <2>1. sent \in Nat /\ handled \in 0 .. sent
      BY BoundAssumption DEF TypeOK
    <2>2. ci \in Slot /\ md_pi \in Slot
      BY DEF TypeOK, Slot
    <2>3. held >= 1
      BY OldestIsNext
    <2> QED
      BY <2>1, <2>2, <2>3, SuccType
  <1>2. TypeOK'
    <2>1. ci' \in Slot /\ handled' \in 0 .. sent
      BY <1>1
    <2> QED
      BY <2>1 DEF TypeOK, Slot
  <1>3. Flags' /\ Metadata' /\ Lives'
    BY DEF TypeOK, Flags, Metadata, Lives
  <1>4. Contents'
    <2>1. host_pi = md_pi /\ Dist(ci, md_pi) = held
      BY DEF Contents
    <2>2. Dist(ci, md_pi)' = held - 1
      BY <1>1, <2>1, DistSuccOrigin DEF Dist
    <2>3. ASSUME NEW i \in Slot, Dist(ci, i)' < held - 1
          PROVE  /\ ring[i].life = life /\ ring[i].n = handled + 2 + Dist(ci, i)'
                 /\ ring[i].reset => Ending
      <3>1. Dist(ci, i)' = Dist(Succ(ci), i)
        BY DEF Dist
      <3>2. Dist(ci, i) \in Nat /\ Dist(ci, md_pi) \in Nat /\ held < Depth
        BY <1>1, <2>1, DistType, DepthAssumption DEF Dist, Slot
      <3>3. i # ci
        BY <2>3, <3>1, <3>2, <1>1, DistSuccOrigin, DepthAssumption
      <3>4. Dist(ci, i)' = Dist(ci, i) - 1
        BY <3>1, <3>3, <1>1, DistSuccOrigin
      <3>5. Dist(ci, i) < held /\ handled + 1 + Dist(ci, i) = handled + 2 + Dist(ci, i)'
        BY <2>3, <3>2, <3>4, <1>1
      <3> QED
        BY <3>5 DEF Contents
    <2>4. handled' + 1 = handled + 2 /\ sent' - handled' = held - 1
      BY <1>1
    <2> QED
      BY <2>1, <2>2, <2>3, <2>4 DEF Contents
  <1> QED
    BY <1>2, <1>3, <1>4

-------------------------------------------------------------------------------
(* The theorems. *)

LEMMA NextInv ==
    ASSUME IInv, [Next]_vars PROVE IInv'
  <1>1. ASSUME UNCHANGED vars PROVE IInv'
    BY <1>1 DEF vars, hostVars, mdVars, modemVars, historyVars, IInv, TypeOK, Flags,
                Metadata, Lives, Contents, Dist, Up, Ending
  <1>2. ASSUME HostGoesOn PROVE IInv'
    BY <1>2, SetupQueuesInv, StartInv, StartedInv, WaitLcoresInv, SignalResetInv,
       StopInv, StoppedInv, RescanInv DEF HostGoesOn
  <1>3. ASSUME Firmware PROVE IInv'
    BY <1>3, BootInv, SetupInv, HandleInv, HandleResetInv, ReopenInv DEF Firmware
  <1>4. ASSUME Exec \/ Send \/ Free \/ Exit \/ ResetCard PROVE IInv'
    BY <1>4, ExecInv, SendInv, FreeInv, ExitInv, ResetCardInv
  <1> QED
    BY <1>1, <1>2, <1>3, <1>4 DEF Next

\* The invariant holds for any ring and any number of lives and messages, whether
\* or not the host oversleeps.
THEOREM Inductive == Spec => []IInv
  BY InitInv, NextInv, PTL DEF Spec

\* The flags, the metadata, the indexes and the ring's contents keep their types.
THEOREM TypeCorrect == Spec => []TypeOK
  <1>1. IInv => TypeOK
    BY DEF IInv
  <1> QED
    BY <1>1, Inductive, PTL

\* A host that is up talks to a firmware that has configured its channels: neither
\* a start, a stop nor a reset clears the metadata under it.
THEOREM BothEndsUp == Spec => []BothUp
  <1>1. IInv => BothUp
    BY DEF IInv, TypeOK, Flags, Metadata, BothUp, Up, Ending
  <1> QED
    BY <1>1, Inductive, PTL

\* The firmware handles the messages of this life, in order, and of no other.
THEOREM OnlyThisLife == Spec => []HandlesWhatWasSent
  <1>1. IInv => HandlesWhatWasSent
    BY OldestIsNext DEF HandlesWhatWasSent
  <1> QED
    BY <1>1, Inductive, PTL
===============================================================================
