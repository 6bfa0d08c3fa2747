SPECIFICATION ClockSpec
CONSTANTS
  Mode = "realtime"
  WallPerTick = 2
  Speedup = 3
  MaxWork = 5
  MaxOversleep = 2
  MaxTickCount = 6
  NoAnchor = NoAnchor
CHECK_DEADLOCK FALSE
INVARIANTS
  ClockTypeOK
  NeverAhead
  NoDrift
