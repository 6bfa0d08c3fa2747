SPECIFICATION Spec
CONSTANTS
  Sats = {s1}
  Hours <- TwoHours
  MaxRecords = 2
  MaxRows = 5
  Failures = {}
  NoRecord = NoRecord
  IdleLimit = 1
  FromBeginning = TRUE
  Kinds = {"row"}
  Faults = {}
  MaxLives = 2
CHECK_DEADLOCK FALSE
INVARIANT ConsumedIsArchived
