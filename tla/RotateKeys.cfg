CONSTANTS
  Devices = {d1, d2}
  First = d1
  NoKey = NoKey
  NumFiles = 2
  MaxFaults = 2
  MayReplace = {TRUE, FALSE}
  MayDry = {TRUE, FALSE}
SPECIFICATION Spec
CHECK_DEADLOCK FALSE
PROPERTIES
  CompleteIsActive
  AliasFollowsChain
  RotationCompletes
