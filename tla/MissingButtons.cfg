CONSTANTS
    Updates = {u1, u2, u3}
    Actions = {a, b}
    Guarded = {a, b}
    TTL = 0
    MaxTime = 1
    MaxEngines = 1
    MaxUses = 2
SPECIFICATION Spec
CHECK_DEADLOCK FALSE
INVARIANT
    DeferralsGetButtons
