SPECIFICATION Spec
CONSTANTS
    Row = {0, 1}
    ZeroRow = 0
    Pmax = 5
    RingW = 3
    Window = 2
    Jmax = 1
    PeekArmed = TRUE
    ShearArmed = FALSE
    SnapArmed = TRUE
INVARIANT IInv
PROPERTY RefinesCache
