CONSTANTS
    Calls = {h, c1, c2}
    HandshakeCalls = {h}
    Keys <- MCKeys
    Echoes <- MCEchoes
    MaxOrphans = 1
    NoReply = NoReply
SPECIFICATION ServiceFairSpec
CHECK_DEADLOCK FALSE
INVARIANTS
    ServiceTypeOK
    ExitIsClean
PROPERTIES
    EveryCallEnds
    ImplementsRequestReply
    Settles
