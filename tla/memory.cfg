SPECIFICATION MemorySpec
CONSTANTS
  Attr = {"s"}
  Value = {"a", "b"}
  Loose = {"x"}
  MaxRows = 2
  MaxLayers = 2
  Lo = 0
  Hi = 4
  MaxMentions = 1
  RegistryFaults = {{}, {"echo", "compact"}, {"fold"}, {"crash"}, {"overlap"}}
  Thread = {"u", "v"}
  Mood = {"calm", "bright"}
  RingSize = 2
  MaxReceipts = 3
  MaxRaced = 2
  SpineFaults = {{}, {"race"}, {"crash"}, {"gone"}, {"disk"}}
INVARIANT HisWordStands
INVARIANT NothingLost
INVARIANT RecordTrue
PROPERTY NothingStale
 
INVARIANT FiledAsMeant
PROPERTY DecidedOnce
PROPERTY AttentionRuns
INVARIANT AxisTest
INVARIANT WeightsRight
CHECK_DEADLOCK FALSE
