SPECIFICATION WarmSpec
CONSTANT MaxTurns = 2
CONSTANT MaxWait = 3
CONSTANT MaxAux = 2
CONSTANT GateFaults = {{}, {"off"}, {"down"}, {"fails"}, {"slow"}, {"old"}, {"openai"}}
CHECK_DEADLOCK FALSE
INVARIANT GatesAll
