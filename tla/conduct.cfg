SPECIFICATION ConductSpec
CONSTANTS
    Session = {"s1"}
    Note = {"n1"}
    Watch = {"n1"}
    Timer = {"t1", "t2"}
    MaxChain = 1
    Cooldown = 1
    MaxPerHour = 1
    Hour = 1
    CheckinIdle = 0
    NudgeLines = 3
    MaxLag = 0
    Armed = {"tick_in_turn", "speak_over"}
    MaxProc = 2
    LaunchFaults = {"other_profile", "cli"}
    Knob = {"enabled", "max_heat"}
    Default <- KnobDefault
    Lo <- KnobLo
    Hi <- KnobHi
    Asked = {0, 2, 9}
    Heat0 = {0, 1}
    Hooks = 1
    MaxBeats = 8
    Id = {"n1", "n2"}
    StreamRounds = 3
    BlockRounds = 5
    Hold = 4
    MaxBuf = 6
    MaxDelta = 3
    Call = {"c1", "c2"}
    Result = {"r1", "r2"}
    Console = {"s1", "s2"}
    MaxSessions = 1
    MaxGateTurns = 3
    MaxFaultTurns = 2
    GateFaults = {{}, {"note"}, {"scene"}, {"gone"}, {"raise"}, {"rejoin"}, {"overlap"}}
    Mood = {"calm", "wry"}
    Trait = {"a", "b"}
    MaxTraits = 1
    MaxReplies = 2
    PersonaFaults = {{}, {"crash"}, {"replay"}}
    Caller = {"a", "b"}
    Worker = {"v", "w"}
    Priority = {0}
    MaxSeq = 2
    MaxText = 1
    RouterFaults = {"race", "stop"}
INVARIANT HearsHim
PROPERTY Extends
INVARIANT ScreenShowsAnswer
PROPERTY ToolsAsShown
INVARIANT WhatSheChose
PROPERTY KeptForLater
PROPERTY PolicyKept
INVARIANT NotesKept
INVARIANT OverlapsHarmless
INVARIANT SceneSafe
INVARIANT RaisedIsTold
INVARIANT OneStack
CHECK_DEADLOCK FALSE
