SPECIFICATION ServingSpec
CONSTANTS
    Chat = {"c1"}
    ChanCap = 2
    MaxTokens = 3
    KairosOn = TRUE
    StallArmed = TRUE
    AbortArmed = TRUE
PROPERTY Answered
PROPERTY EveryTurnEnds
PROPERTY GateOpens
PROPERTY HonestEnd
PROPERTY ChatsEnd
INVARIANT StreamWhole
INVARIANT AbortReported
CHECK_DEADLOCK FALSE
