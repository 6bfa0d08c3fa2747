SPECIFICATION BatcherSpec
CONSTANTS
  Sats = {s1, s2}
  Hours <- ThreeHours
  MaxRecords = 5
  MaxRows = 3
  Failures = {"sink", "late", "dense"}
  NoRecord = NoRecord
CHECK_DEADLOCK FALSE
SYMMETRY SatSymmetry
INVARIANTS
  BatcherTypeOK
  NoRowDropped
  PartitionPurity
  OnlyLateRowsBehind
  BelowCapBetweenCalls
  StatsBalance
