SPECIFICATION Spec
CONSTANTS
  Sats = {s1, s2}
  Hours <- TwoHours
  MaxRecords = 3
  MaxRows = 2
  Failures = {"sink", "late", "dense"}
  NoRecord = NoRecord
  IdleLimit = 1
  FromBeginning = TRUE
  Kinds = {"row", "bad", "poison"}
  Faults = {"crash"}
  MaxLives = 2
CHECK_DEADLOCK FALSE
SYMMETRY SatSymmetry
INVARIANTS
  NoRowTwice
  CleanExitAccounts
