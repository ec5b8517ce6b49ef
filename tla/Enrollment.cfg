SPECIFICATION Spec
CONSTANTS
  MaxAttempts = 2
  MaxPolls = 2
  MaxVersion = 2
  MaxCounter = 2
  Services = {"none", "mem", "sealed"}
  Faults = {"net", "impostor", "gateway", "disk"}
  MaxFaults = 1
INVARIANTS PinnedOnly EnrollmentHolds
PROPERTIES EnrollmentReplaced EnrollTerminates
CHECK_DEADLOCK FALSE
