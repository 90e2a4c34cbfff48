CONSTANTS
    u1 = u1
    u2 = u2
    User = {u1, u2}
    Application <- Applications
    Capacity = 3
SPECIFICATION FairSpec
INVARIANTS
    TypeOK
    OneCommandOnCard
    AnsweredOnce
PROPERTIES
    AnsweredStopMeansIdle
    CallsReturn
\* Once its calls are spent the application rests, and so does the system.
CHECK_DEADLOCK FALSE
