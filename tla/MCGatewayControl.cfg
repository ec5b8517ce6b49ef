SPECIFICATION Spec
CONSTANTS
  sync = sync
  s1 = s1
  s2 = s2
  Applier = {sync}
  Sync = sync
  Signer = {s1, s2}
  Body <- MCBody
  Defect = {"undecodable", "signature", "envelope", "proto", "tenant"}
  Faults = {"crash", "gateway", "disk", "xpc"}
  MaxFaults = 2
  MaxVersion = 2
  MaxCounter = 2
  MaxTime = 2
  MaxAge = 0
  MaxSkew = 0
  Ahead = 1
INVARIANTS NoReplay Authentic RecordConverges PolicyKept
SYMMETRY SignerSymmetry
