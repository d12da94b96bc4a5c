SPECIFICATION Spec
CONSTANTS
    Tok = {a, b}
    Foreign = f
    MaxPrompt = 3
    TooLong = {4, 6}
    MaxInner = 3
    Prompts <- MCPrompts
    Inner <- MCInner
    Pmax = 4
    Jmax = 2
    RewindBound = 1
    SnapMin = 1
    MaxGen = 2
    Armed = {"snapshot", "dead_client", "excluded", "device_error"}
INVARIANT IInv
INVARIANT NullFloor
PROPERTY UsesCache
