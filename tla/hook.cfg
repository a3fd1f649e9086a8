SPECIFICATION Spec
CONSTANTS
  h1 = h1
  h2 = h2
  Hooks = {h1, h2}
  Events <- MCEvents
  Texts <- MCTexts
  Budget = 5
  Marker = 1
  MaxEdits = 1
  MaxTurns = 2
  Absent = Absent
  NoWhen = NoWhen
  NoRequest = NoRequest
  NoSig = NoSig
  NoRun = NoRun
  Free = Free
  User = User
INVARIANTS
  TypeOK
  PrintedValid
  PrintedFirst
  OncePerRequest
PROPERTIES
  SilentMeansKept
  EveryHookEnds
