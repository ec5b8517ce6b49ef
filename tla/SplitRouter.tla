----------------------------- MODULE SplitRouter -----------------------------
(***************************************************************************)
(* Where the traffic of a process goes.                                    *)
(*                                                                         *)
(*   SplitRouter (clave-net/src/router.rs)          flows                  *)
(*   Tunnel::is_established, encapsulate            established            *)
(*     (lib.rs, loopback.rs, wireguard.rs)                                 *)
(*   Daemon::open_flow, open_dns_flow, ...          opening                *)
(*     (clave-daemon/src/lib.rs)                                           *)
(*   spawn_split_tunnel (win_main.rs) and           divert                 *)
(*     run_split_tunnel (clave-win/src/divert.rs)                          *)
(*                                                                         *)
(* The policy is loaded before the router's lock is taken and the zone is  *)
(* read under it; a flow keeps the disposition it was opened with while    *)
(* the link, the policy and the zone change.  Processes join and leave the *)
(* zone at any time, which covers what WorkZone lets them do.  WinDivert   *)
(* keeps the blocked addresses it was started with.                        *)
(***************************************************************************)
EXTENDS PolicyDecisions, FiniteSets

CONSTANTS Procs,      \* processes
          Flows,      \* flow identifiers, which are used again
          Hosts,      \* hosts connected to, and names asked for
          Policies,   \* the bundles the gateway issues, as a function of the version
          Tunnels     \* the kinds of tunnel: "loopback", "wireguard"

NoFlow == "none"
Disposition == {"Tunnel", "Direct", "Block", "HeldOffline"}

\* not_after is an unsigned number, and an IPv4 address that parses has one spelling.
ASSUME RouterAssumption ==
  /\ Tunnels \subseteq {"loopback", "wireguard"}
  /\ DOMAIN Policies \subseteq Nat
  /\ \A v \in DOMAIN Policies : Policies[v].not_after \in Nat
  /\ \A v \in DOMAIN Policies : \A h \in Hosts, b \in Policies[v].blocked_hosts :
       h.ip /\ ~h.v6 /\ b.ip /\ normalize_host(h) = normalize_host(b) => h = b

VARIABLES
  zones,         \* the supervised processes
  version,       \* Daemon.policy
  tunnel,        \* the tunnel the router was built with
  handshake,     \* wireguard: the last handshake is under 180 s old
  flows,         \* SplitRouter.flows
  opening,       \* an open under way: the policy has been read
  divert,        \* the addresses spawn_split_tunnel collected at start-up
  origin,        \* auxiliary: what a flow was opened for
  traffic        \* auxiliary: where the packets of the flow have gone

vars == <<zones, version, tunnel, handshake, flows, opening, divert, origin, traffic>>

policy == Policies[version]
NotOpening == [kind |-> "none"]
Route == {"Direct", "ToGateway"}

\* filter_map(parse::<IpAddr>): a blocked host that is a name is left out.
BlockedAddresses(pol) == {h \in pol.blocked_hosts : h.ip}

TypeOK ==
  /\ zones \subseteq Procs
  /\ version \in DOMAIN Policies
  /\ tunnel \in Tunnels /\ handshake \in BOOLEAN
  /\ flows \in [Flows -> Disposition \cup {NoFlow}]
  /\ \E v \in DOMAIN Policies : divert = BlockedAddresses(Policies[v])
  /\ traffic \in [Flows -> SUBSET Route]

NoOrigin == [proc |-> NoProc]

Init ==
  /\ zones = {} /\ version \in DOMAIN Policies
  /\ tunnel \in Tunnels /\ handshake = FALSE
  /\ flows = [f \in Flows |-> NoFlow]
  /\ opening = NotOpening
  /\ divert = BlockedAddresses(policy)
  /\ origin = [f \in Flows |-> NoOrigin]
  /\ traffic = [f \in Flows |-> {}]

(***************************************************************************)
(* What changes under the router's feet                                    *)
(***************************************************************************)
ZoneChange(p) ==
  /\ zones' = IF p \in zones THEN zones \ {p} ELSE zones \cup {p}
  /\ UNCHANGED <<version, tunnel, handshake, flows, opening, divert, origin, traffic>>

update_policy ==
  /\ version + 1 \in DOMAIN Policies
  /\ version' = version + 1
  /\ UNCHANGED <<zones, tunnel, handshake, flows, opening, divert, origin, traffic>>

\* Handshakes happen when datagrams are exchanged, and age.
Handshake ==
  /\ tunnel = "wireguard"
  /\ handshake' = ~handshake
  /\ UNCHANGED <<zones, version, tunnel, flows, opening, divert, origin, traffic>>

is_established == tunnel = "loopback" \/ handshake

(***************************************************************************)
(* Opening                                                                 *)
(***************************************************************************)
\* A work flow falls back to the direct route when the link is down.
FallbackMutant(route) ==
  IF route = "Tunnel" /\ ~is_established THEN "Direct" ELSE route

resolve(route) ==
  IF route = "Tunnel" /\ ~is_established THEN "HeldOffline" ELSE route

open_flow_load(f, p, host) ==
  /\ opening = NotOpening
  /\ opening' = [kind |-> "flow", id |-> f, proc |-> p, host |-> host,
                 blocked |-> is_blocked(policy, host)]
  /\ UNCHANGED <<zones, version, tunnel, handshake, flows, divert, origin, traffic>>

open_dns_flow_load(f, p, qname) ==
  /\ opening = NotOpening
  /\ opening' = [kind |-> "dns", id |-> f, proc |-> p, host |-> qname,
                 steering |-> dns_steering(policy)]
  /\ UNCHANGED <<zones, version, tunnel, handshake, flows, divert, origin, traffic>>

Insert(disposition) ==
  /\ flows' = [flows EXCEPT ![opening.id] = disposition]
  /\ origin' = [origin EXCEPT ![opening.id] =
       [proc |-> opening.proc, host |-> opening.host, kind |-> opening.kind,
        supervised |-> opening.proc \in zones, opened |-> opening]]
  /\ traffic' = [traffic EXCEPT ![opening.id] = {}]
  /\ opening' = NotOpening
  /\ UNCHANGED <<zones, version, tunnel, handshake, divert>>

open_flow ==
  /\ opening.kind = "flow"
  /\ Insert(resolve(classify_flow(opening.proc \in zones, opening.blocked)))

open_dns_flow ==
  /\ opening.kind = "dns"
  /\ Insert(resolve(classify_dns_flow(opening.proc \in zones, opening.host, opening.steering)))

close_flow(f) ==
  /\ flows[f] # NoFlow
  /\ flows' = [flows EXCEPT ![f] = NoFlow]
  /\ UNCHANGED <<zones, version, tunnel, handshake, opening, divert, origin, traffic>>

(***************************************************************************)
(* Packets.  encapsulate returns a datagram, or nothing: for an empty      *)
(* packet (loopback) or while wireguard queues it behind a handshake.      *)
(***************************************************************************)
\* A flow the router does not know is let through.
UnknownPassesMutant(f) ==
  /\ traffic' = [traffic EXCEPT ![f] = @ \cup
       CASE flows[f] \in {"Tunnel", "HeldOffline"} -> {"ToGateway"}
         [] flows[f] \in {"Direct", NoFlow} -> {"Direct"}
         [] flows[f] = "Block" -> {}]
  /\ UNCHANGED <<zones, version, tunnel, handshake, flows, opening, divert, origin>>

outbound(f) ==
  /\ traffic' = [traffic EXCEPT ![f] = @ \cup
       CASE flows[f] \in {"Tunnel", "HeldOffline"} -> {"ToGateway"}
         [] flows[f] = "Direct" -> {"Direct"}
         [] flows[f] \in {"Block", NoFlow} -> {}]
  /\ UNCHANGED <<zones, version, tunnel, handshake, flows, opening, divert, origin>>

Next ==
  \/ \E p \in Procs : ZoneChange(p)
  \/ update_policy
  \/ Handshake
  \/ \E f \in Flows, p \in Procs, h \in Hosts : open_flow_load(f, p, h) \/ open_dns_flow_load(f, p, h)
  \/ open_flow \/ open_dns_flow
  \/ \E f \in Flows : close_flow(f) \/ outbound(f)

Spec == Init /\ [][Next]_vars

\* The verdict on an outbound IPv4 connect; an IPv6 one is let through unread.
run_split_tunnel(p, host) ==
  IF ~host.v6 /\ p \in zones /\ host \in divert THEN "Block" ELSE "Allow"

-----------------------------------------------------------------------------
Opened(f) == origin[f] # NoOrigin

\* "Offline: work apps with no tunnel should fail-closed": nothing a process
\* sends on a flow it opened from inside the zone leaves the machine directly,
\* whatever the link, the zone and the policy do later and after the flow is
\* closed; but for a DNS query the policy it was opened under did not steer.
WorkNeverDirect ==
  \A f \in Flows : Opened(f) /\ origin[f].supervised /\ "Direct" \in traffic[f] =>
    /\ origin[f].kind = "dns"
    /\ origin[f].opened.steering # None
    /\ decide_dns(TRUE, origin[f].host, origin[f].opened.steering) = "Personal"

\* What a flow was opened as is what happens to it: the personal traffic of a
\* process that joins the zone later is not captured by the tunnel, and a
\* blocked destination gets nothing until the flow is opened again.
OneRouteOnly ==
  \A f \in Flows : Opened(f) =>
    /\ ~origin[f].supervised => "ToGateway" \notin traffic[f]
    /\ origin[f].supervised /\ origin[f].kind = "flow" /\ origin[f].opened.blocked => traffic[f] = {}
    /\ Cardinality(traffic[f]) <= 1

\* The policy blocks h, if at all, in a spelling that parses as an address.
Readable(h) ==
  \A b \in policy.blocked_hosts : normalize_host(b) = normalize_host(h) => b.ip

\* The three answers to one question are the same while the policy is valid:
\* decide says no to a connect exactly when the router would drop the flow,
\* and WinDivert when it concerns an address it could read under the policy
\* the daemon was started with.
OneAnswer ==
  \A p \in Procs, h \in Hosts :
    LET refused == ~IsAllow(decide([kind |-> "NetConnect", proc |-> p, host |-> h],
                                   zones, policy, policy.not_after))
    IN /\ refused <=> classify_flow(p \in zones, is_blocked(policy, h)) = "Block"
       /\ divert = BlockedAddresses(policy) /\ h.ip /\ ~h.v6 /\ Readable(h) =>
            (refused <=> run_split_tunnel(p, h) = "Block")

\* The router keeps to what a flow was opened as, and agrees with the two other
\* places that answer for the same connect.
RoutesAgree == TypeOK /\ OneRouteOnly /\ OneAnswer

=============================================================================
