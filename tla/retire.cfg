SPECIFICATION Spec
CONSTANTS
  c1 = c1
  l1 = l1
  l2 = l2
  v1 = v1
  f = f
  x = x
  y = y
  Cmds = {c1}
  Lessons = {l1, l2}
  Verifiers = {v1}
  Files = {f}
  Contents = {x, y}
  Defs <- MCDefs
  Probes = 4
  Lines <- MCLines
  Naming <- MCNaming
  MaxAge = 0
  PerDay = 1
  MaxTime = 1
  MaxEdits = 2
  Missing = Missing
  None = None
  NoRun = NoRun
INVARIANTS
  TypeOK
  AttestsInputs
  VerdictsBacked
PROPERTIES
  FreshHolds
