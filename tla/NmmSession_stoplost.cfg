CONSTANTS
    u1 = u1
    u2 = u2
    User = {u1, u2}
    Application <- Stopping
    Capacity = 3
SPECIFICATION Spec
INVARIANTS
    StopAnswered
\* Once its calls are spent the application rests, and so does the system.
CHECK_DEADLOCK FALSE
