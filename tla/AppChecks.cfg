CONSTANTS
  Pins = {p1, p2}
  RightPin = p1
  NoPin = NoPin
  None = None
  Pkhs = {a, b}
  Cap = 1
  MaxFailed = 2
  MaxQueue = 2
  MaxTouches = 6
  SetupQueue = 3
  SetupTouches = 7
SYMMETRY KeySymmetry
SPECIFICATION Spec
INVARIANTS
  SignerStartsOnce
  TimerNeverStuck
  SetupIsSafe
  NeverHangs
