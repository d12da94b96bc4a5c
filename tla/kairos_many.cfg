SPECIFICATION Spec
CONSTANTS
    Session = {s1}
    Note = {n1, n2}
    Watch = {}
    Timer = {t1, t2}
    MaxChain = 1
    Cooldown = 1
    MaxPerHour = 2
    Hour = 2
    CheckinIdle = 1
    NudgeLines = 1
    MaxLag = 0
    Armed = {}
INVARIANT RaisedIsTold
