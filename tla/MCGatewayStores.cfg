SPECIFICATION StoresSpec
CHECK_DEADLOCK FALSE
CONSTANTS
  acme = acme
  other = other
  alice = alice
  bob = bob
  k1 = k1
  k2 = k2
  r1 = r1
  r2 = r2
  e1 = e1
  e2 = e2
  NoKey = NoKey
  Workspace <- MCWorkspace
  Email <- MCEmail
  Key <- MCKey
  Event <- MCEvent
  Request <- MCRequest
  Enrolling = {acme}
  Owner = alice
  MaxWork = 6
  Memberships <- MCMemberships
  MaxStoreFaults = 1
  StoreFaults = {"store", "restart", "hydrate", "spool"}
  MaxEvents = 2
SYMMETRY Symmetry
INVARIANTS StoresAgree LedgerRestorable
