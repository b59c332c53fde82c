SPECIFICATION Spec
CHECK_DEADLOCK FALSE
CONSTANTS
    Disks = {d1, d2, d3}
    Names = {n1, n2, n3}
    Servers = {srv}
    Unset = Unset
    Unseen = Unseen
    MaxBoots = 3
    MaxCommands = 1
    MaxDisturbances = 2
SYMMETRY Symmetry
INVARIANTS TypeOK BuildIsEphemeral SettingsArrive StorageAsAsked GuardedUntilLocked SourceSpared
PROPERTY ArtifactsKept ImplementsEphemeral
