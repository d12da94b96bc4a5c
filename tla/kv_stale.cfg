SPECIFICATION Spec
CONSTANTS
    Tok = {a, b}
    Foreign = f
    MaxPrompt = 3
    TooLong = {}
    MaxInner = 3
    Prompts <- MCPrompts
    Inner <- MCInner
    Pmax = 4
    Jmax = 3
    RewindBound = 1
    SnapMin = 2
    MaxGen = 2
    Armed = {"dead_client"}
INVARIANT AttendsContext
