CONSTANTS
    Users = {u, v}
    Limit = 2
    Window = 2
    MaxTime = 4
    MaxTurns = 4
SPECIFICATION Spec
CHECK_DEADLOCK FALSE
INVARIANTS
    TypeOK
    Spaced
    CountsTheWindow
