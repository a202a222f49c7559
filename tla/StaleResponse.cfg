CONSTANTS
    Calls = {c1, c2}
    Keys <- MCKeys
    Echoes <- MCEchoes
    MaxOrphans = 1
    NoReply = NoReply
SPECIFICATION Spec
CHECK_DEADLOCK FALSE
INVARIANT
    ReturnsMatchingResponse
