SPECIFICATION Spec
CONSTANTS
    p1 = p1
    p2 = p2
    d = d
    f = f
    g = g
    Top = Top
    Paths = {p1, p2}
    Names = {d, f, g}
    List <- MCList
    PinLists <- MCPinLists
    Under <- MCUnder
    Shapes <- MCShapes
INVARIANTS
    TypeOK
    Merged
    FailsOnClash
    PinsWin
    LossesReported
CHECK_DEADLOCK FALSE
