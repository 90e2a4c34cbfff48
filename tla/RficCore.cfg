\* The three tasks that command the radio, and the host.
CONSTANTS
    RxLoop = RxLoop
    VSPALoop = VSPALoop
    Console = Console
    Task = {RxLoop, VSPALoop, Console}
    Prio <- MCPrio
SPECIFICATION FairSpec
INVARIANTS
    TypeOK
    DescriptorAlive
    NoStaleResponse
    SuccessMeansExecuted
    FailsOnlyIfOverlapped
PROPERTIES
    RemoteServed
