CONSTANTS
  Checks = {c1, c2}
  Absent = Absent
  Legacy = {"v1", "v2"}
  Written = {"v2", "bad", "rot"}
  Threshold = 2
  MaxFailed = 2
  MaxCuts = 2
SYMMETRY CheckSymmetry
SPECIFICATION Spec
CHECK_DEADLOCK FALSE
INVARIANTS
  KeysSurviveUnlessOverlapped
  RebootsBounded
  
