CONSTANTS
  c1 = c1
  c2 = c2
  c3 = c3
  k1 = k1
  k2 = k2
  k3 = k3
  Cards = {c1, c2, c3}
  Images = {rel, dev}
  Release = rel
  Signed = {rel}
  Forged = {dev}
  Old = old
  Octez = octez
  Keys = {k1, k2}
  Torn = torn
  Nothing = Nothing
  Starts <- MCStarts
  Kinds = {"plain", "restore", "migrate"}
  MaxHead = 2
  MaxFaults = 1
  MaxRuns = 1
SPECIFICATION Spec
CHECK_DEADLOCK FALSE
INVARIANTS SourceKept TrustedImage
PROPERTIES SuccessIsGood FlashEnds
