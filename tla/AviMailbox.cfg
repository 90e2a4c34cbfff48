\* Two tasks that send again and again, a queue of two, interrupts that come
\* at once and interrupts that come late.
CONSTANTS
    Task = {rx, sched}
    Msg = {m1, m2, m3, m4}
    NoMsg = none
    QLen = 2
SPECIFICATION FairSpec
INVARIANTS
    TypeOK
PROPERTIES
    ReadOnce
    NothingOverwritten
    QueueMoves
