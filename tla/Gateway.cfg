CONSTANTS
    Updates = {u1, u2, u3}
    Actions = {a, f}
    Guarded = {a}
    TTL = 0
    MaxTime = 1
    MaxEngines = 2
    MaxUses = 2
SPECIFICATION Spec
SYMMETRY Symmetry
CHECK_DEADLOCK FALSE
INVARIANTS
    TypeOK
    OneRunPerYes
    OffersOwnDeferrals
PROPERTIES
    ImplementsConsent
    NoIsFinal
