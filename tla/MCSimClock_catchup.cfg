SPECIFICATION ClockSpec
CONSTANTS
  Mode = "realtime"
  WallPerTick = 2
  Speedup = 1
  MaxWork = 5
  MaxOversleep = 0
  MaxTickCount = 4
  NoAnchor = NoAnchor
CHECK_DEADLOCK FALSE
PROPERTY NeverSpeedsUp
