CONSTANTS
    Entries <- MCEntries
    MaxEntries = 2
    Category <- MCCategory
    MaxControls = 2
    None = None
SPECIFICATION Spec
CHECK_DEADLOCK FALSE
INVARIANTS
    TypeOK
    ParsedIsLastWellFormed
    ParentsPresent
    FailsOnUncaughtOnly
    OmittedWithReason
