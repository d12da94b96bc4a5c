SPECIFICATION Spec
CONSTANTS
    Row = {0, 1}
    ZeroRow = 0
    Pmax = 7
    RingW = 5
    Window = 3
    Jmax = 2
    PeekArmed = FALSE
    ShearArmed = TRUE
    SnapArmed = FALSE
INVARIANT WindowExact
PROPERTY RefinesCache
