\* Three requests, each an update of one of two targets, an installation or a removal; one fault.
CONSTANTS
  t1 = t1
  t2 = t2
  Targets <- MCTargets
  Versions = {v0, v1}
  Old = v0
  Places = {"default", "custom"}
  Faults = {"download", "files", "restart", "report", "kill", "service"}
  MaxRequests = 3
  MaxFaults = 1
  None = None
  Broken = Broken
SYMMETRY MCSymmetry
SPECIFICATION Spec
INVARIANTS
  BinaryWhole
  
  
PROPERTIES
  ConfirmedRuns
  OneFinalReport
CHECK_DEADLOCK FALSE
