\* Two sending tasks, one above the other.
CONSTANTS
    RxLoop = RxLoop
    VSPALoop = VSPALoop
    Task = {RxLoop, VSPALoop}
    Prio <- MCPrio
    Depth = 4
    Msg = {m1, m2}
    NoMsg = NoMsg
SPECIFICATION Spec
INVARIANTS
    EachEnqueueHasItsBuffer
