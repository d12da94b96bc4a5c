SPECIFICATION Spec
CONSTANTS
    Chat = {c1, c2}
    ChanCap = 2
    MaxTokens = 2
    KairosOn = FALSE
    StallArmed = TRUE
    AbortArmed = FALSE
PROPERTY TurnsReturn
CHECK_DEADLOCK FALSE
