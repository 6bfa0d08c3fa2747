SPECIFICATION ProducerSpec
CONSTANTS
  Mode = "fast"
  WallPerTick = 1
  Speedup = 1
  MaxWork = 0
  MaxOversleep = 0
  MaxTickCount = 4
  NoAnchor = NoAnchor
  ArrayOutput = 400
  SunlitLoad = 300
  EclipseLoad = 400
  MinSoc = 200
  MaxSoc = 1000
  InitialSoc = 900
  SunHeat = 12
  SteadyHeat = 8
  Radiated <- Radiation
  InitialTemp = 285
  Coldest = 276
  Hottest = 300
  InShadow <- Shadow
  Matching <- SkySats
  CommandLines <- OneCommand
  MaxTicks = 2
  QueueLimit = 4
  BrokerFaults = {}
  MaxSessions = 2
  MaxGap = 1
CHECK_DEADLOCK FALSE
INVARIANT SimTimeMonotone
