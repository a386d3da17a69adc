CONSTANTS
  Keys = {k1}
  Ops = {block, att}
  Chains = {main, test}
  Mainnet = main
  None = None
  HostUser = "device"
  Mounts = {"inspected", "failed"}
  MaxLevel = 3
  Gap = 1
  MaxFaults = 2
  Damages = {"keys", "gone", "bad", "owner", "mode", "dir", "file", "corrupt", "marks", "panic", "migrate", "config"}
SPECIFICATION Spec
CHECK_DEADLOCK FALSE
PROPERTIES
  CardChainKept
  RepairsKeepFloor
  RepairsConverge
