CONSTANTS
  MaxLevel = 4
  MaxRound = 1
  NoMark = NoMark
  Keys = {k1}
  NumOps = 1
  TornWrites = TRUE
  Conns = {c1, c2}
  Ceilers = {t1, t2}
  Ui = Ui
  None = None
  RequestLevels = {2, 3}
  RequestRounds = {0}
  Requests <- MCRequests
  ConfigLevels = {1}
  GapThreshold = 1
  MaxQueue = 1
  Failing = {"sign", "rollback", "ceiling", "operator"}
  SignMayFail = TRUE
SPECIFICATION FairSpec
INVARIANTS
  CeilingIsOnDisk
  CrashCostsOneLevel
PROPERTIES
  EveryRequestAnswered
