CONSTANTS
  Devices = {d1, d2}
  None = None
  Backends = {"networkd", "nm"}
  Signers = {"usb", "lan"}
  Former = {"old"}
  Alike <- MCAlike
  MaxFaults = 1
  MaxRuns = 3
  MaxCuts = 1
SPECIFICATION Spec
CHECK_DEADLOCK FALSE
SYMMETRY DeviceSymmetry
INVARIANTS CompleteIsSet CleanIsClean
PROPERTIES OverwrittenIsKept SetupResumes ToolSurvives
