SPECIFICATION DemoSpec
CONSTANTS
  FadeWindow = 3
  FadeThreshold = 600
  FadeSlack = 200
  ResidualThreshold = 14
  SmallDelta = 0
  RequiredMinutes = 4
  TemperatureCeiling = 202
  SlopeWindow = 3
  MinRise = 2
  NoReading = NoReading
  MinuteLength = 2
  Tables <- Rollups
  FaultFiles <- SomeFiles
  NoSat = NoSat
  ArrayOutput = 300
  SunlitLoad = 100
  EclipseLoad = 100
  MinSoc = 200
  MaxSoc = 1000
  InitialSoc = 600
  SunHeat = 12
  SteadyHeat = 4
  Radiated <- Radiation
  InitialTemp = 67
  Coldest = 24
  Hottest = 101
  InShadow <- Shadow
  Scenarios <- Runs
  Grain = 2
  NoScenario = NoScenario
CHECK_DEADLOCK FALSE
INVARIANTS
  DetectionTypeOK
  OneEventEach
  FadeEventsFollowCusum
  StuckEventsFollowRuns
  RunawayEventsFollowClimbs
  ScoresAccountForAll
  HealthySatellitesStaySilent
  InjectedFaultsAreFound
