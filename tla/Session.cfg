CONSTANT
    MaxSessions = 2
SPECIFICATION LoginSpec
CHECK_DEADLOCK FALSE
INVARIANTS
    LoginTypeOK
    CleanAfterOneUse
    ConnectedHoldsCredentials
    BlameIsJustified
PROPERTIES
    OwnerReturns
    KeepaliveFollowsDisconnect
