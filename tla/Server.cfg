SPECIFICATION Spec
CHECK_DEADLOCK FALSE
CONSTANTS
    c1 = c1  c2 = c2  c3 = c3
    None = None
    MaxDataLen = 65535
    Conns <- MCConns
    MaxConn = 2
    RingSize = 2
    Frames <- MCFrames
    KeyFiles <- MCKeyFiles
    Chain = "main"
    MaxOpens = 3
    MaxRequests = 3
    MaxFaults = 1
INVARIANTS SharedStateExact AnswersRight
PROPERTIES SlotsComeBack LedGoesDark
