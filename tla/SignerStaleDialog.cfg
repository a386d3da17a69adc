CONSTANTS
  MaxLevel = 3
  MaxRound = 1
  NoMark = NoMark
  Keys = {k1}
  NumOps = 1
  TornWrites = FALSE
  Conns = {c1}
  Ceilers = {t1}
  Ui = Ui
  None = None
  RequestLevels = {2, 3}
  RequestRounds = {0, 1}
  Requests <- MCRequests
  ConfigLevels = {1}
  GapThreshold = 1
  MaxQueue = 1
  Failing = {}
  SignMayFail = FALSE
SPECIFICATION Spec
INVARIANT NoDoubleSign
