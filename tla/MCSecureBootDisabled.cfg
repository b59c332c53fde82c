SPECIFICATION Spec
CHECK_DEADLOCK FALSE
CONSTANTS
    Keystores = {k1, k2}
    NoFile = NoFile
    Damaged = Damaged
    MaxCommands = 1
    MaxDisturbances = 1
INVARIANT DisabledHalts
