CONSTANTS
    Turns = {t1, t2, t3}
    MaxIterations = 2
    MaxBuffer = 4
SPECIFICATION Spec
CHECK_DEADLOCK FALSE
INVARIANT
    ValidatorHappyWithHead
