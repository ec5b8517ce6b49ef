SPECIFICATION LiveSpec
CONSTANTS
  e1 = e1
  e2 = e2
  deviceKey = deviceKey
  otherKey = otherKey
  NoKey = NoKey
  Event <- MCEvent
  Key <- MCKey
  DeviceKey = deviceKey
  Faults = {"offline", "disk", "drop"}
  MaxFaults = 1
  MaxSeq = 3
  BootMode = "fresh"
CHECK_DEADLOCK TRUE
INVARIANTS NothingLost
PROPERTIES EventuallyDelivered SuppressionDetected Refinement
