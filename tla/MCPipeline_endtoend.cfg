SPECIFICATION PipelineFairSpec
CONSTANTS
  Mode = "realtime"
  WallPerTick = 1
  Speedup = 1
  MaxWork = 0
  MaxOversleep = 1
  MaxTickCount = 3
  NoAnchor = NoAnchor
  ArrayOutput = 400
  SunlitLoad = 300
  EclipseLoad = 400
  MinSoc = 200
  MaxSoc = 1000
  InitialSoc = 900
  SunHeat = 12
  SteadyHeat = 8
  Radiated <- Radiation
  InitialTemp = 285
  Coldest = 276
  Hottest = 300
  InShadow <- Shadow
  Matching <- SkySats
  Sats <- SkySats
  Kinds = {"row"}
  CommandLines <- FullDemo
  MaxTicks = 0
  QueueLimit = 6
  BrokerFaults = {}
  MaxSessions = 1
  MaxGap = 0
  HourLength = 2
  MinuteLength = 2
  Hours <- TwoHours
  MaxRecords = 6
  MaxRows = 4
  Failures = {}
  NoRecord = NoRecord
  IdleLimit = 2
  FromBeginning = TRUE
  Faults = {"slow"}
  MaxLives = 1
CHECK_DEADLOCK FALSE
INVARIANTS
  BytesInBytesOut
  MartsShowTheSimulation
PROPERTIES
  ConsumerSpec
  HaltHonoured
  DemoArchivesWhatItReads
