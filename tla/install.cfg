SPECIFICATION Spec
CONSTANTS
  MaxVersion = 2
  MaxEdits = 2
  MaxFaults = 1
  MaxCrashes = 1
  HandWindows = {}
  Absent = Absent
  NoPlan = NoPlan
  NoJob = NoJob
  NoSnap = NoSnap
INVARIANTS
  TypeOK
  HandKept
  HandInPlace
  ReceiptTrue
  NeverSelfBlocked
PROPERTIES
  AllOrNothing
CHECK_DEADLOCK FALSE
