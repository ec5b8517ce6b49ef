SPECIFICATION Spec
CONSTANTS
  Pids = {p1, p2}
  OpenPid = open
  Binaries <- MCBinaries
  App <- MCApp
  Policies <- MCPolicies
  MaxVersion = 3
  MaxFaults = 1
INVARIANTS ClientExact Contained LaunchFindsNew
PROPERTIES EventuallyPublished
CHECK_DEADLOCK FALSE
