SPECIFICATION GuardsSpec
CONSTANTS
  w = w
  p = p
  Pids <- MCPids
  Launched = {w}
  Payloads <- MCPayloads
  Requests <- MCRequests
  Policies <- MCPolicies
  MaxMoves = 4
  MaxTime = 2
  MaxFailures = 1
INVARIANTS DenialsExplained
PROPERTIES ClipboardGuarded SubjectsNoticed
