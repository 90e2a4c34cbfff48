\* Four descriptors (IPC_MAX_DEPTH), without confirmations as NMM configures
\* its queues and with them as the raw application does.
CONSTANTS
    Depth = 4
    Msg = {m1, m2}
    NoMsg = NoMsg
SPECIFICATION FairSpec
INVARIANTS
    TypeOK
    EnqueueNeverBusy
    MessageStableWhileHeld
    ConfirmationMatches
PROPERTIES
    ImplementsQueue
    SenderNotStarved
