SPECIFICATION Spec
CONSTANTS
  p1 = p1
  c1 = c1
  c2 = c2
  c3 = c3
  Procs = {p1}
  Commits = {c1, c2, c3}
  Past <- MCPast
  RaceWindows = {}
  MaxEvents = 3
  Absent = Absent
  Damaged = Damaged
  NoProc = NoProc
  NoConfig = NoConfig
  NoSeen = NoSeen
  NoPlan = NoPlan
SYMMETRY Symmetry
INVARIANTS
  TypeOK
  RememberedOnlyForward
  FetchedRemote
  BindingTrue
  ConfigKept
  AlarmTrue
PROPERTIES
  InstalledOnlyForward
