--------------------------- MODULE MCSplitRouter ---------------------------
(* SplitRouter with two processes, three policies and the hosts that tell  *)
(* them apart: an address that becomes blocked, first in a spelling that   *)
(* does not parse, its IPv6 twin and a name that is blocked and matched by *)
(* the steering only after normalisation.                                  *)
EXTENDS SplitRouter

CONSTANTS w, p
MCProcs == {w, p}

Host(labels, dots, ip, v6) == [labels |-> labels, dots |-> dots, ip |-> ip, v6 |-> v6]
addr == Host(<<"192.0.2.1">>, 0, TRUE, FALSE)
addr6 == Host(<<"2001:db8::1">>, 0, TRUE, TRUE)
intra == Host(<<"files", "corp">>, 1, FALSE, FALSE)
MCHosts == {addr, addr6, intra}

Corp == Host(<<"corp">>, 0, FALSE, FALSE)
Wireguard == [mode |-> "Wireguard", dns |-> None]
Resolver(all) ==
  [mode |-> "Dns", dns |-> [resolvers |-> {"r"}, match_domains |-> {Corp}, steer_all |-> all]]
Bundle(blocked, providers) ==
  [blocked_hosts |-> blocked, providers |-> providers, not_after |-> 1]
MCPolicies ==
  << Bundle({}, << Wireguard >>),
     Bundle({Host(intra.labels, 0, FALSE, FALSE), Host(addr.labels, 1, FALSE, FALSE)}, << Wireguard, Resolver(FALSE) >>),
     Bundle({addr, addr6}, << Resolver(TRUE) >>) >>
=============================================================================
