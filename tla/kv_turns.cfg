SPECIFICATION Spec
CONSTANTS
    Tok = {a, b}
    Foreign = f
    MaxPrompt = 3
    TooLong = {}
    MaxInner = 3
    Prompts <- MCPrompts
    Inner <- MCInner
    Pmax = 6
    Jmax = 3
    RewindBound = 2
    SnapMin = 2
    MaxGen = 3
    Armed = {"snapshot"}
INVARIANT Mirror
INVARIANT AttendsContext
PROPERTY UsesCache
