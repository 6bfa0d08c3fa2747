SPECIFICATION FairSpec
CONSTANTS
  Sats = {s1, s2}
  Hours <- TwoHours
  MaxRecords = 4
  MaxRows = 5
  Failures = {}
  NoRecord = NoRecord
  IdleLimit = 0
  FromBeginning = TRUE
  Kinds = {"row", "bad"}
  Faults = {"slow"}
  MaxLives = 1
CHECK_DEADLOCK FALSE
INVARIANTS
  TypeOK
  CommittedRowsKept
  ClosedMeansArchived
PROPERTIES
  BatcherSpec
  ImplementsDurableArchive
  StopHonoured
  StopArchivesHeld
