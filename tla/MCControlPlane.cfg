SPECIFICATION Spec
CHECK_DEADLOCK FALSE
CONSTANTS
  admin = admin
  stranger = stranger
  local = local
  outsider = outsider
  User = {admin, stranger, local, outsider}
  Founder = {admin}
  FounderRole <- MCFounderRole
  DomainUser = {admin, stranger, local}
  SsoUser = {admin, stranger, outsider}
  SsoRequired = TRUE
  Key = {k1}
  Request = {r1, r2}
  MaxRequests = 4
  MaxTime = 2
  Ttl = 0
INVARIANTS NoEscalation AdmittedOnly SuspensionSticks NothingHalfDone
CONSTRAINT Followed
SYMMETRY RequestSymmetry
