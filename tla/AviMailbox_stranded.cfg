\* One task is enough.
CONSTANTS
    Task = {sched}
    Msg = {m1, m2, m3, m4}
    NoMsg = none
    QLen = 2
SPECIFICATION Spec
INVARIANTS
    NothingStranded
