CONSTANTS
  MaxLevel = 3
  MaxRound = 1
  NoMark = NoMark
  Keys = {k1}
  NumOps = 2
  TornWrites = FALSE
  Conns = {c1, c2}
  Ceilers = {t1}
  Ui = Ui
  None = None
  RequestLevels = {2, 3}
  RequestRounds = {0}
  Requests <- MCRequests
  ConfigLevels = {1, 2}
  GapThreshold = 1
  MaxQueue = 1
  Failing = {"sign", "rollback", "ceiling", "operator"}
  SignMayFail = TRUE
SYMMETRY Threads
SPECIFICATION Spec
INVARIANTS
  TypeOK
  NoDoubleSignUnlessExcused
  SignedStaysCovered
PROPERTIES
  PromiseKept
  SeedNeverLowers
