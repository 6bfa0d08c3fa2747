SPECIFICATION BatcherSpec
CONSTANTS
  Sats = {s1}
  Hours <- TwoHours
  MaxRecords = 4
  MaxRows = 2
  Failures = {"dense"}
  NoRecord = NoRecord
CHECK_DEADLOCK FALSE
INVARIANT ClosedMeansArchived
