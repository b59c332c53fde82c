SPECIFICATION FairSpec
CHECK_DEADLOCK FALSE
CONSTANTS
    Keystores = {k1, k2}
    NoFile = NoFile
    Damaged = Damaged
    MaxCommands = 2
    MaxDisturbances = 2
INVARIANTS TypeOK SuccessIsEnrollable NeverLockedOut DataStaysReachable
PROPERTY ComesUpSecured
