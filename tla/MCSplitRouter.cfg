SPECIFICATION Spec
CONSTANTS
  w = w
  p = p
  Procs <- MCProcs
  Flows = {f1}
  Hosts <- MCHosts
  Policies <- MCPolicies
  Tunnels = {"loopback", "wireguard"}
INVARIANTS WorkNeverDirect RoutesAgree
