CONSTANTS
    Turns = {t1, t2, t3}
    MaxIterations = 2
    MaxBuffer = 4
SPECIFICATION FairSpec
CHECK_DEADLOCK FALSE
INVARIANTS
    TypeOK
    ResultsFollowCalls
    RejectionsExplained
    GrowsByFailuresOnly
PROPERTIES
    RejectionIsPermanent
    TurnsEnd
