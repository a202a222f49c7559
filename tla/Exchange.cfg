CONSTANTS
    Calls = {c1, c2, c3}
    Keys <- MCKeys
    Echoes <- MCEchoes
    MaxOrphans = 1
    NoReply = NoReply
SPECIFICATION Spec
SYMMETRY Symmetry
CHECK_DEADLOCK FALSE
INVARIANTS
    TypeOK
    AnsweredOnce
    EntriesHaveOwners
    ClosedAbortsRegistered
    UnrelatedNeverCollide
    UndisturbedGetOwnAnswer
PROPERTIES
    SettledOnce
