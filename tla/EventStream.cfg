CONSTANTS
    UuidLength = 2
    ValueLength = 1
    Uuids <- MCUuids
    Messages <- MCMessages
    MaxSent = 2
    Missing = Missing
    Malformed = Malformed
SPECIFICATION Spec
CHECK_DEADLOCK FALSE
INVARIANTS
    TypeOK
    InStep
PROPERTIES
    ImplementsFeed
