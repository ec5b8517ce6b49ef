SPECIFICATION Spec
CONSTANTS
  e1 = e1
  e2 = e2
  deviceKey = deviceKey
  otherKey = otherKey
  NoKey = NoKey
  Event <- MCEvent
  Key <- MCKey
  DeviceKey = deviceKey
  Faults = {"pump", "crash", "unreachable", "disk", "drop", "duplicate", "corrupt", "garble", "forge"}
  MaxFaults = 2
  MaxSeq = 2
  BootMode = "fresh"
CHECK_DEADLOCK TRUE
SYMMETRY EventSymmetry
INVARIANTS LedgerGenuine AlertsExplained
