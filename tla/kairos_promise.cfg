SPECIFICATION FairSpec
CONSTANTS
    Session = {s1}
    Note = {n1}
    Watch = {}
    Timer = {t1, t2}
    MaxChain = 1
    Cooldown = 1
    MaxPerHour = 1
    Hour = 1
    CheckinIdle = 0
    NudgeLines = 3
    MaxLag = 0
    Armed = {"tick_in_turn"}
PROPERTY PromiseKept
