\* One sending task, without confirmations (NMM) and with them
\* (bbdev_ipc_raw_demo.c).
CONSTANTS
    RxLoop = RxLoop
    VSPALoop = VSPALoop
    Task = {RxLoop}
    Prio <- MCPrio
    Depth = 4
    Msg = {m1, m2}
    NoMsg = NoMsg
SPECIFICATION FairSpec
INVARIANTS
    TypeOK
    MessageStableWhileHeld
    ConfirmationMatches
    EachEnqueueHasItsBuffer
PROPERTIES
    ImplementsQueue
    SenderNotStarved
