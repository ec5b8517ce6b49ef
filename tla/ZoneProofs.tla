----------------------------- MODULE ZoneProofs -----------------------------
(***************************************************************************)
(* Proofs about the work zone and about what being in it means for traffic:*)
(* SplitRouter, for any processes, flows, hosts and policies, and WorkZone,*)
(* for any pids, launchers and number of starts, failures and restarts.    *)
(***************************************************************************)
EXTENDS SplitRouter, WorkZone, TLAPS, FiniteSetTheorems

(***************************************************************************)
(* Part 1: SplitRouter                                                     *)
(***************************************************************************)

\* An open that has loaded the policy and not yet taken the router's lock.
OpeningOK ==
  opening.kind # "none" => opening.id \in Flows /\ opening.kind \in {"flow", "dns"}

\* A query that was left to the machine's own resolver on purpose.
Unsteered(o) ==
  /\ o.kind = "dns"
  /\ o.opened.steering # None
  /\ decide_dns(TRUE, o.host, o.opened.steering) = "Personal"

\* A flow is remembered as what it was opened as, and what it has sent agrees
\* with that, also after it was closed.
FlowOK(f) ==
  /\ flows[f] = "Direct" => traffic[f] \subseteq {"Direct"}
  /\ flows[f] \in {"Tunnel", "HeldOffline"} => traffic[f] \subseteq {"ToGateway"}
  /\ flows[f] = "Block" => traffic[f] = {}
  /\ traffic[f] \subseteq {"Direct"} \/ traffic[f] \subseteq {"ToGateway"}
  /\ Opened(f) /\ origin[f].supervised /\ (flows[f] = "Direct" \/ "Direct" \in traffic[f]) =>
       Unsteered(origin[f])
  /\ Opened(f) /\ ~origin[f].supervised =>
       flows[f] \in {"Direct", NoFlow} /\ "ToGateway" \notin traffic[f]
  /\ Opened(f) /\ origin[f].supervised /\ origin[f].kind = "flow" /\ origin[f].opened.blocked =>
       flows[f] \in {"Block", NoFlow} /\ traffic[f] = {}

\* The inductive invariant behind WorkNeverDirect and OneRouteOnly: the two speak of
\* the packets that were sent, which only the disposition of the flow explains.
RouterInv ==
  /\ TypeOK
  /\ OpeningOK
  /\ DOMAIN origin = Flows
  /\ \A f \in Flows : FlowOK(f)

-----------------------------------------------------------------------------
\* What the two classifications may answer, before and after resolve.
LEMMA ResolveType ==
  ASSUME NEW route \in {"Tunnel", "Direct", "Block"}
  PROVE  /\ resolve(route) \in Disposition
         /\ resolve(route) = "Direct" <=> route = "Direct"
         /\ resolve(route) = "Block" <=> route = "Block"
BY DEF resolve, Disposition

LEMMA FlowRoute ==
  ASSUME NEW supervised \in BOOLEAN, NEW blocked
  PROVE  /\ classify_flow(supervised, blocked) \in {"Tunnel", "Direct", "Block"}
         /\ classify_flow(supervised, blocked) = "Direct" <=> ~supervised
         /\ supervised /\ blocked => classify_flow(supervised, blocked) = "Block"
BY DEF classify_flow

LEMMA DnsRoute ==
  ASSUME NEW supervised \in BOOLEAN, NEW host, NEW steering
  PROVE  /\ classify_dns_flow(supervised, host, steering) \in {"Tunnel", "Direct"}
         /\ ~supervised => classify_dns_flow(supervised, host, steering) = "Direct"
         /\ supervised /\ classify_dns_flow(supervised, host, steering) = "Direct" =>
              steering # None /\ decide_dns(TRUE, host, steering) = "Personal"
<1>1. decide_dns(supervised, host, steering) \in {"Steer", "Personal"}
  BY DEF decide_dns
<1>2. CASE ~supervised
  BY <1>2 DEF classify_dns_flow
<1>3. CASE supervised /\ steering = None
  BY <1>3 DEF classify_dns_flow
<1>4. CASE supervised /\ steering # None
  <2>1. supervised = TRUE
    BY <1>4
  <2>2. classify_dns_flow(supervised, host, steering)
          = IF decide_dns(supervised, host, steering) = "Steer" THEN "Tunnel" ELSE "Direct"
    BY <1>4 DEF classify_dns_flow
  <2> QED BY <1>1, <1>4, <2>1, <2>2
<1> QED BY <1>2, <1>3, <1>4

-----------------------------------------------------------------------------
LEMMA InitRouter == Init => RouterInv
<1> SUFFICES ASSUME Init PROVE RouterInv
  OBVIOUS
<1>1. TypeOK
  BY DEF Init, TypeOK, policy
<1>2. OpeningOK /\ DOMAIN origin = Flows
  BY DEF Init, OpeningOK, NotOpening
<1>3. ASSUME NEW f \in Flows PROVE FlowOK(f)
  <2>1. flows[f] = NoFlow /\ traffic[f] = {} /\ ~Opened(f)
    BY DEF Init, Opened
  <2> QED BY <2>1 DEF FlowOK, NoFlow
<1> QED BY <1>1, <1>2, <1>3 DEF RouterInv

\* What the processes, the gateway and the link do leaves every flow alone.
LEMMA SurroundingsRouter ==
  ASSUME RouterInv, (\E p \in Procs : ZoneChange(p)) \/ update_policy \/ Handshake
  PROVE  RouterInv'
<1>1. UNCHANGED <<flows, opening, divert, origin, traffic, tunnel>>
  BY DEF ZoneChange, update_policy, Handshake
<1>2. zones' \subseteq Procs /\ version' \in DOMAIN Policies /\ handshake' \in BOOLEAN
  BY DEF ZoneChange, update_policy, Handshake, RouterInv, TypeOK
<1>3. TypeOK' /\ OpeningOK'
  BY <1>1, <1>2 DEF RouterInv, TypeOK, OpeningOK
<1>4. ASSUME NEW f \in Flows PROVE FlowOK(f)'
  BY <1>1 DEF RouterInv, FlowOK, Opened, Unsteered
<1> QED BY <1>1, <1>3, <1>4 DEF RouterInv

LEMMA LoadRouter ==
  ASSUME RouterInv, NEW f \in Flows, NEW p \in Procs, NEW h \in Hosts,
         open_flow_load(f, p, h) \/ open_dns_flow_load(f, p, h)
  PROVE  RouterInv'
<1>1. UNCHANGED <<zones, version, tunnel, handshake, flows, divert, origin, traffic>>
  BY DEF open_flow_load, open_dns_flow_load
<1>2. OpeningOK'
  BY DEF open_flow_load, open_dns_flow_load, OpeningOK
<1>3. TypeOK'
  BY <1>1 DEF RouterInv, TypeOK
<1>4. ASSUME NEW g \in Flows PROVE FlowOK(g)'
  BY <1>1 DEF RouterInv, FlowOK, Opened, Unsteered
<1> QED BY <1>1, <1>2, <1>3, <1>4 DEF RouterInv

\* The flow that is inserted is the one whose policy was loaded before.
LEMMA InsertRouter ==
  ASSUME RouterInv, NEW d \in Disposition, opening.kind \in {"flow", "dns"}, Insert(d),
         opening.proc \in zones /\ d = "Direct" =>
           /\ opening.kind = "dns" /\ opening.steering # None
           /\ decide_dns(TRUE, opening.host, opening.steering) = "Personal",
         opening.proc \notin zones => d = "Direct",
         opening.proc \in zones /\ opening.kind = "flow" /\ opening.blocked => d = "Block"
  PROVE  RouterInv'
<1>1. PICK id \in Flows : id = opening.id
  BY DEF RouterInv, OpeningOK
<1> DEFINE o == [proc |-> opening.proc, host |-> opening.host, kind |-> opening.kind,
                 supervised |-> opening.proc \in zones, opened |-> opening]
<1>2. /\ flows' = [flows EXCEPT ![id] = d] /\ origin' = [origin EXCEPT ![id] = o]
      /\ traffic' = [traffic EXCEPT ![id] = {}] /\ opening' = NotOpening
      /\ UNCHANGED <<zones, version, tunnel, handshake, divert>>
  BY <1>1 DEF Insert
<1>3. TypeOK' /\ OpeningOK' /\ DOMAIN origin' = Flows
  BY <1>1, <1>2 DEF RouterInv, TypeOK, OpeningOK, NotOpening
<1>4. ASSUME NEW f \in Flows, f # id PROVE FlowOK(f)'
  <2>1. flows'[f] = flows[f] /\ origin'[f] = origin[f] /\ traffic'[f] = traffic[f]
    BY <1>2, <1>4 DEF RouterInv, TypeOK
  <2> QED BY <2>1 DEF RouterInv, FlowOK, Opened, Unsteered
<1>5. FlowOK(id)'
  <2>1. flows'[id] = d /\ origin'[id] = o /\ traffic'[id] = {}
    BY <1>1, <1>2 DEF RouterInv, TypeOK
  <2>2. /\ o.supervised <=> opening.proc \in zones
        /\ o.kind = opening.kind /\ o.host = opening.host /\ o.opened = opening
    OBVIOUS
  <2>3. o.supervised /\ d = "Direct" => Unsteered(o)
    BY <2>2 DEF Unsteered
  <2> HIDE DEF o
  <2>4. /\ o.supervised /\ d = "Direct" => Unsteered(origin'[id])
        /\ ~o.supervised => d = "Direct"
        /\ o.supervised /\ o.kind = "flow" /\ o.opened.blocked => d = "Block"
    BY <2>1, <2>2, <2>3
  <2>5. Unsteered(origin[id])' <=> Unsteered(origin'[id])
    BY DEF Unsteered
  <2> QED BY <2>1, <2>4, <2>5 DEF FlowOK
<1> QED BY <1>3, <1>4, <1>5 DEF RouterInv

LEMMA OpenRouter ==
  ASSUME RouterInv, open_flow \/ open_dns_flow
  PROVE  RouterInv'
<1> DEFINE s == opening.proc \in zones
           route == IF opening.kind = "flow" THEN classify_flow(s, opening.blocked)
                    ELSE classify_dns_flow(s, opening.host, opening.steering)
<1>1. s \in BOOLEAN
  OBVIOUS
<1>2. opening.kind \in {"flow", "dns"} /\ Insert(resolve(route))
  BY DEF open_flow, open_dns_flow
<1> HIDE DEF s
<1>3. /\ route \in {"Tunnel", "Direct", "Block"}
      /\ s /\ route = "Direct" =>
           /\ opening.kind = "dns" /\ opening.steering # None
           /\ decide_dns(TRUE, opening.host, opening.steering) = "Personal"
      /\ ~s => route = "Direct"
      /\ s /\ opening.kind = "flow" /\ opening.blocked => route = "Block"
  BY <1>1, <1>2, FlowRoute, DnsRoute
<1> HIDE DEF route
<1>4. /\ resolve(route) \in Disposition
      /\ resolve(route) = "Direct" <=> route = "Direct"
      /\ resolve(route) = "Block" <=> route = "Block"
  BY <1>3, ResolveType
<1> QED BY <1>2, <1>3, <1>4, InsertRouter DEF s

LEMMA CloseRouter ==
  ASSUME RouterInv, NEW f \in Flows, close_flow(f)
  PROVE  RouterInv'
<1>1. /\ flows' = [flows EXCEPT ![f] = NoFlow]
      /\ UNCHANGED <<zones, version, tunnel, handshake, opening, divert, origin, traffic>>
  BY DEF close_flow
<1>2. TypeOK' /\ OpeningOK' /\ DOMAIN origin' = Flows
  BY <1>1 DEF RouterInv, TypeOK, OpeningOK
<1>3. ASSUME NEW g \in Flows PROVE FlowOK(g)'
  <2>1. flows'[g] = flows[g] \/ flows'[g] = NoFlow
    BY <1>1 DEF RouterInv, TypeOK
  <2> QED BY <1>1, <2>1 DEF RouterInv, FlowOK, Opened, Unsteered, NoFlow
<1> QED BY <1>2, <1>3 DEF RouterInv

LEMMA OutboundRouter ==
  ASSUME RouterInv, NEW f \in Flows, outbound(f)
  PROVE  RouterInv'
<1> DEFINE sent == CASE flows[f] \in {"Tunnel", "HeldOffline"} -> {"ToGateway"}
                     [] flows[f] = "Direct" -> {"Direct"}
                     [] flows[f] \in {"Block", NoFlow} -> {}
<1>1. /\ traffic' = [traffic EXCEPT ![f] = @ \cup sent]
      /\ UNCHANGED <<zones, version, tunnel, handshake, flows, opening, divert, origin>>
  BY DEF outbound
<1>2. /\ flows[f] \in {"Tunnel", "HeldOffline"} => sent = {"ToGateway"}
      /\ flows[f] = "Direct" => sent = {"Direct"}
      /\ flows[f] \in {"Block", NoFlow} => sent = {}
      /\ flows[f] \in {"Tunnel", "HeldOffline", "Direct", "Block", NoFlow}
  BY DEF RouterInv, TypeOK, Disposition, NoFlow
<1> HIDE DEF sent
<1>3. sent \subseteq Route
  BY <1>2 DEF Route
<1>4. TypeOK' /\ OpeningOK' /\ DOMAIN origin' = Flows
  BY <1>1, <1>3 DEF RouterInv, TypeOK, OpeningOK
<1>5. ASSUME NEW g \in Flows PROVE FlowOK(g)'
  <2>1. CASE g # f
    <3>1. traffic'[g] = traffic[g]
      BY <1>1, <2>1 DEF RouterInv, TypeOK
    <3> QED BY <3>1, <1>1 DEF RouterInv, FlowOK, Opened, Unsteered
  <2>2. CASE g = f
    <3>1. traffic'[f] = traffic[f] \cup sent
      BY <1>1 DEF RouterInv, TypeOK
    <3>2. FlowOK(f)
      BY DEF RouterInv
    <3>3. Unsteered(origin[f])' <=> Unsteered(origin[f])
      BY <1>1 DEF Unsteered
    <3> HIDE DEF Unsteered
    <3> QED BY <1>1, <1>2, <2>2, <3>1, <3>2, <3>3 DEF FlowOK, Opened, NoFlow
  <2> QED BY <2>1, <2>2
<1> QED BY <1>4, <1>5 DEF RouterInv

LEMMA StepRouter == RouterInv /\ [Next]_vars => RouterInv'
<1> SUFFICES ASSUME RouterInv, [Next]_vars PROVE RouterInv'
  OBVIOUS
<1>1. CASE UNCHANGED vars
  BY <1>1 DEF vars, RouterInv, TypeOK, OpeningOK, FlowOK, Opened, Unsteered
<1>2. CASE (\E p \in Procs : ZoneChange(p)) \/ update_policy \/ Handshake
  BY <1>2, SurroundingsRouter
<1>3. CASE \E f \in Flows, p \in Procs, h \in Hosts :
             open_flow_load(f, p, h) \/ open_dns_flow_load(f, p, h)
  BY <1>3, LoadRouter
<1>4. CASE open_flow \/ open_dns_flow
  BY <1>4, OpenRouter
<1>5. CASE \E f \in Flows : close_flow(f) \/ outbound(f)
  BY <1>5, CloseRouter, OutboundRouter
<1> QED BY <1>1, <1>2, <1>3, <1>4, <1>5 DEF Next

-----------------------------------------------------------------------------
\* decide, the router and WinDivert answer alike, by what they look at.
LEMMA AnswersAgree == TypeOK => OneAnswer
<1> SUFFICES ASSUME TypeOK, NEW p \in Procs, NEW h \in Hosts
             PROVE  LET refused == ~IsAllow(decide([kind |-> "NetConnect", proc |-> p, host |-> h],
                                                   zones, policy, policy.not_after))
                    IN /\ refused <=> classify_flow(p \in zones, is_blocked(policy, h)) = "Block"
                       /\ divert = BlockedAddresses(policy) /\ h.ip /\ ~h.v6 /\ Readable(h) =>
                            (refused <=> run_split_tunnel(p, h) = "Block")
  BY DEF OneAnswer
<1> DEFINE act == [kind |-> "NetConnect", proc |-> p, host |-> h]
           verdict == decide(act, zones, policy, policy.not_after)
           blocked == p \in zones /\ is_blocked(policy, h)
<1>1. policy.not_after \in Nat
  BY RouterAssumption DEF TypeOK, policy
<1>2. ~(policy.not_after > policy.not_after)
  BY <1>1
<1>3. verdict = IF p \notin zones THEN Allow("NotSupervised")
                ELSE IF is_blocked(policy, h) THEN Deny("Network") ELSE Allow("Network")
  BY <1>2 DEF decide
<1>4. ~IsAllow(verdict) <=> blocked
  BY <1>3 DEF IsAllow, Allow, Deny
<1>5. classify_flow(p \in zones, is_blocked(policy, h)) = "Block" <=> blocked
  BY DEF classify_flow
<1>6. ASSUME divert = BlockedAddresses(policy), h.ip, ~h.v6, Readable(h)
      PROVE  run_split_tunnel(p, h) = "Block" <=> blocked
  <2>1. h \in divert => is_blocked(policy, h)
    BY <1>6 DEF BlockedAddresses, is_blocked
  <2>2. is_blocked(policy, h) => h \in divert
    BY <1>6, RouterAssumption DEF BlockedAddresses, is_blocked, Readable, TypeOK, policy
  <2> QED BY <1>6, <2>1, <2>2 DEF run_split_tunnel
<1> HIDE DEF verdict, blocked
<1> QED BY <1>4, <1>5, <1>6 DEF verdict

\* Two routes are never mixed: a set within a singleton has at most one element.
LEMMA AtMostOne ==
  ASSUME NEW S, NEW x, S \subseteq {x}
  PROVE  Cardinality(S) <= 1
<1>1. S = {} \/ S = {x}
  OBVIOUS
<1>2. Cardinality({}) = 0 /\ Cardinality({x}) = 1
  BY FS_EmptySet, FS_Singleton
<1> QED BY <1>1, <1>2

\* What the invariant says of the packets: no flow mixes the two routes.
LEMMA OneRoute == RouterInv => OneRouteOnly
<1> SUFFICES ASSUME RouterInv, NEW f \in Flows, Opened(f)
             PROVE  /\ ~origin[f].supervised => "ToGateway" \notin traffic[f]
                    /\ origin[f].supervised /\ origin[f].kind = "flow" /\ origin[f].opened.blocked
                         => traffic[f] = {}
                    /\ Cardinality(traffic[f]) <= 1
  BY DEF OneRouteOnly
<1>1. FlowOK(f)
  BY DEF RouterInv
<1>2. Cardinality(traffic[f]) <= 1
  BY <1>1, AtMostOne DEF FlowOK
<1> QED BY <1>1, <1>2 DEF FlowOK

\* A work process that is in the zone when it opens a flow sends nothing on it
\* directly, however the zone, the policy and the link change afterwards and for as
\* many flows as there are.
THEOREM RouterSafe == Spec => []WorkNeverDirect
<1>1. RouterInv => WorkNeverDirect
  BY DEF RouterInv, WorkNeverDirect, FlowOK, Unsteered
<1> QED BY InitRouter, StepRouter, <1>1, PTL DEF Spec

\* Personal traffic never enters the tunnel and no flow mixes two routes; and decide,
\* SplitRouter and WinDivert give the same answer to the same connect.
THEOREM OneAnswerToAConnect == Spec => []RoutesAgree
<1>1. RouterInv => RoutesAgree
  BY OneRoute, AnswersAgree DEF RouterInv, RoutesAgree
<1> QED BY InitRouter, StepRouter, <1>1, PTL DEF Spec

-----------------------------------------------------------------------------
(***************************************************************************)
(* Part 2: WorkZone                                                        *)
(***************************************************************************)

\* The inductive invariant behind PassExact.  As long as the job has not changed since
\* an exact query, what the supervisor holds is the job; and it says what each half of a
\* pass has done already: the joins have reached all but `todo', and once the members
\* are listed every one that is neither live nor fresh is still to leave.
PassInv ==
  /\ quiet => supervisor.live = InJob
  /\ supervisor.at = "join" => supervisor.live \ supervisor.todo \subseteq members
  /\ supervisor.at = "leave" =>
       /\ supervisor.todo \cap supervisor.live = {}
       /\ supervisor.live \subseteq members
       /\ members \subseteq supervisor.live \cup supervisor.todo \cup fresh
  /\ supervisor.at = "sleep" /\ quiet =>
       /\ supervisor.live \subseteq members
       /\ members \subseteq supervisor.live \cup fresh

ZoneInv == ZoneTypeOK /\ PassInv

LEMMA ZoneBounds == MaxStarts \in Nat /\ MaxFailures \in Nat /\ MaxRestarts \in Nat
BY WorkZoneAssumption

\* What a pid may hold, and what a launcher may be at.
ProcessKind == {NoProcess} \cup [live : {TRUE}, work : BOOLEAN, job : BOOLEAN]
LaunchState == {Idle} \cup [at : {"spawned", "joined"}, pid : Pids, web : BOOLEAN]

LEMMA ProcessMade ==
  /\ NoProcess \in ProcessKind
  /\ \A w, j \in BOOLEAN : Process(w, j) \in ProcessKind
BY DEF ProcessKind, Process

LEMMA ProcessFields ==
  ASSUME NEW x \in ProcessKind
  PROVE  /\ x.live \in BOOLEAN /\ x.work \in BOOLEAN /\ x.job \in BOOLEAN
         /\ ~x.live => ~x.job
         /\ x.live => [x EXCEPT !.job = TRUE] \in ProcessKind
<1>1. CASE x = NoProcess
  BY <1>1 DEF NoProcess
<1>2. CASE x \in [live : {TRUE}, work : BOOLEAN, job : BOOLEAN]
  BY <1>2 DEF ProcessKind
<1> QED BY <1>1, <1>2 DEF ProcessKind

\* The parts of the type invariant, by the names above.
LEMMA ZoneTypes ==
  ZoneTypeOK <=>
    /\ process \in [Pids -> ProcessKind] /\ launcher \in [Launchers -> LaunchState]
    /\ members \subseteq Pids /\ fresh \subseteq Pids /\ quiet \in BOOLEAN
    /\ supervisor \in [at : {"sleep", "join", "leave"}, live : SUBSET Pids, todo : SUBSET Pids]
    /\ starts \in 0..MaxStarts /\ failures \in 0..MaxFailures /\ restarts \in 0..MaxRestarts
BY DEF ZoneTypeOK, ProcessKind, LaunchState

\* A step of a process: one pid changes hands.  While `quiet' stays, the job does not change.
LEMMA ProcessStep ==
  ASSUME ZoneInv, NEW p \in Pids, NEW x \in ProcessKind,
         process' = [process EXCEPT ![p] = x],
         quiet' \in BOOLEAN, quiet' => quiet /\ (x.job <=> process[p].job),
         UNCHANGED <<members, supervisor, fresh>>
  PROVE  PassInv' /\ process' \in [Pids -> ProcessKind]
<1>1. process \in [Pids -> ProcessKind]
  BY ZoneTypes DEF ZoneInv
<1>2. process' \in [Pids -> ProcessKind]
  BY <1>1
<1>3. ASSUME quiet' PROVE InJob' = InJob
  <2>1. \A q \in Pids : process'[q].job <=> process[q].job
    BY <1>1, <1>3
  <2> QED BY <2>1 DEF InJob
<1> QED BY <1>2, <1>3 DEF ZoneInv, PassInv

LEMMA StartsZone ==
  ASSUME ZoneInv, NEW p \in Pids, PersonalStart(p) \/ Exit(p) \/ \E q \in Pids : ChildStart(q, p)
  PROVE  ZoneInv'
<1> USE ZoneTypes, ZoneBounds DEF ZoneInv
<1>0. process \in [Pids -> ProcessKind]
  OBVIOUS
<1>1. CASE PersonalStart(p)
  <2>1. Process(FALSE, FALSE) \in ProcessKind /\ ~Process(FALSE, FALSE).job
    BY ProcessMade DEF Process
  <2>2. process[p] \in ProcessKind /\ ~process[p].live
    BY <1>0, <1>1 DEF PersonalStart, Start
  <2>3. ~process[p].job
    BY <2>2, ProcessFields
  <2>4. PassInv' /\ process' \in [Pids -> ProcessKind]
    BY <1>1, <2>1, <2>3, ProcessStep DEF PersonalStart, Start
  <2>5. starts' \in 0..MaxStarts
    BY <1>1 DEF PersonalStart, Start
  <2> QED BY <1>1, <2>4, <2>5 DEF PersonalStart, ZoneTypeOK, ProcessKind
<1>2. CASE Exit(p)
  <2>1. NoProcess \in ProcessKind /\ ~NoProcess.job
    BY DEF ProcessKind, NoProcess
  <2>2. PassInv' /\ process' \in [Pids -> ProcessKind]
    BY <1>2, <2>1, ProcessStep DEF Exit
  <2> QED BY <1>2, <2>2 DEF Exit, ZoneTypeOK, ProcessKind
<1>3. ASSUME NEW q \in Pids, ChildStart(q, p)
      PROVE  ZoneInv'
  <2>1. process[q] \in ProcessKind /\ process[p] \in ProcessKind /\ ~process[p].live
    BY <1>0, <1>3 DEF ChildStart, Start
  <2>2. ~process[p].job
    BY <2>1, ProcessFields
  <2>3. process[q].job \in BOOLEAN
    BY <2>1, ProcessFields
  <2>4. PassInv' /\ process' \in [Pids -> ProcessKind]
    BY <1>3, <2>1, <2>2, <2>3, ProcessStep DEF ChildStart, Start
  <2>5. starts' \in 0..MaxStarts
    BY <1>3 DEF ChildStart, Start
  <2> QED BY <1>3, <2>4, <2>5 DEF ChildStart, ZoneTypeOK, ProcessKind
<1> QED BY <1>1, <1>2, <1>3

LEMMA InitZone == ZoneInit => ZoneInv
<1> SUFFICES ASSUME ZoneInit PROVE ZoneInv
  OBVIOUS
<1>1. ZoneTypeOK
  <2>1. supervisor \in [at : {"sleep", "join", "leave"}, live : SUBSET Pids, todo : SUBSET Pids]
    BY DEF ZoneInit, Sleeping
  <2>2. starts \in 0..MaxStarts /\ failures \in 0..MaxFailures /\ restarts \in 0..MaxRestarts
    BY ZoneBounds DEF ZoneInit
  <2>3. process \in [Pids -> ProcessKind] /\ launcher \in [Launchers -> LaunchState]
    BY ProcessMade DEF ZoneInit, LaunchState
  <2> QED BY <2>1, <2>2, <2>3, ZoneTypes DEF ZoneInit
<1>2. PassInv
  BY DEF ZoneInit, PassInv, Sleeping
<1> QED BY <1>1, <1>2 DEF ZoneInv

\* The launcher.  What joins before the members were listed is either left by this pass
\* or fresh when it is joined later.
LEMMA LaunchZone ==
  ASSUME ZoneInv, NEW l \in Launchers,
         \/ \E p \in Pids, web \in BOOLEAN : spawn_contained(l, p, web)
         \/ on_zone_join(l) \/ contain(l)
  PROVE  ZoneInv'
<1> USE ZoneTypes, ZoneBounds DEF ZoneInv
<1>0. process \in [Pids -> ProcessKind] /\ launcher \in [Launchers -> LaunchState]
  OBVIOUS
<1>1. ASSUME NEW p \in Pids, NEW web \in BOOLEAN, spawn_contained(l, p, web)
      PROVE  ZoneInv'
  <2>1. Process(TRUE, FALSE) \in ProcessKind /\ ~Process(TRUE, FALSE).job
    BY ProcessMade DEF Process
  <2>2. process[p] \in ProcessKind /\ ~process[p].live
    BY <1>0, <1>1 DEF spawn_contained, Start
  <2>3. ~process[p].job
    BY <2>2, ProcessFields
  <2>4. PassInv' /\ process' \in [Pids -> ProcessKind]
    BY <1>1, <2>1, <2>3, ProcessStep DEF spawn_contained, Start
  <2>5. starts' \in 0..MaxStarts
    BY <1>1 DEF spawn_contained, Start
  <2>6. launcher' \in [Launchers -> LaunchState]
    BY <1>0, <1>1 DEF spawn_contained, LaunchState
  <2> QED BY <1>1, <2>4, <2>5, <2>6 DEF spawn_contained, ZoneTypeOK, ProcessKind, LaunchState
<1>2. CASE on_zone_join(l)
  <2>1. launcher[l] \in [at : {"spawned", "joined"}, pid : Pids, web : BOOLEAN]
    BY <1>0, <1>2 DEF on_zone_join, LaunchState, Idle
  <2>2. launcher' \in [Launchers -> LaunchState]
    <3>1. [launcher[l] EXCEPT !.at = "joined"] \in LaunchState /\ Idle \in LaunchState
      BY <2>1 DEF LaunchState
    <3> QED BY <1>0, <1>2, <3>1 DEF on_zone_join
  <2>3. InJob' = InJob
    BY <1>2 DEF on_zone_join, InJob
  <2>4. PassInv'
    BY <1>2, <2>3 DEF on_zone_join, PassInv
  <2>5. members' \subseteq Pids /\ fresh' \subseteq Pids
    BY <1>2, <2>1 DEF on_zone_join
  <2> QED BY <1>2, <2>2, <2>4, <2>5 DEF on_zone_join, ZoneTypeOK, ProcessKind, LaunchState
<1>3. CASE contain(l)
  <2>0. launcher[l] \in [at : {"spawned", "joined"}, pid : Pids, web : BOOLEAN]
    BY <1>0, <1>3 DEF contain, LaunchState, Idle
  <2> DEFINE p == launcher[l].pid
  <2>1. p \in Pids /\ process[p] \in ProcessKind
    BY <1>0, <2>0
  <2> HIDE DEF p
  <2>2. launcher' \in [Launchers -> LaunchState]
    BY <1>0, <1>3 DEF contain, LaunchState
  <2>3. UNCHANGED <<members, supervisor, starts, restarts, fresh>>
    BY <1>3 DEF contain
  <2>4. CASE /\ process[p].live
             /\ process' = [process EXCEPT ![p].job = TRUE]
             /\ quiet' = (quiet /\ process[p].job)
             /\ UNCHANGED failures
    <3>1. [process[p] EXCEPT !.job = TRUE] \in ProcessKind /\ [process[p] EXCEPT !.job = TRUE].job
      <4>1. [process[p] EXCEPT !.job = TRUE] \in ProcessKind
        BY <2>1, <2>4, ProcessFields
      <4>2. process[p] # NoProcess
        BY <2>4 DEF NoProcess
      <4> QED BY <2>1, <4>1, <4>2 DEF ProcessKind
    <3>2. process' = [process EXCEPT ![p] = [process[p] EXCEPT !.job = TRUE]]
      BY <2>4
    <3>3. PassInv' /\ process' \in [Pids -> ProcessKind]
      BY <2>1, <2>3, <2>4, <3>1, <3>2, ProcessStep
    <3> QED BY <2>2, <2>3, <2>4, <3>3 DEF ZoneTypeOK, ProcessKind, LaunchState
  <2>5. CASE /\ process[p].live => failures < MaxFailures
             /\ failures' = IF process[p].live THEN failures + 1 ELSE failures
             /\ UNCHANGED <<process, quiet>>
    <3>1. PassInv'
      BY <2>3, <2>5 DEF PassInv, InJob
    <3>2. failures' \in 0..MaxFailures
      BY <2>5
    <3> QED BY <2>2, <2>3, <2>5, <3>1, <3>2 DEF ZoneTypeOK, ProcessKind, LaunchState
  <2> QED BY <1>3, <2>4, <2>5 DEF contain, p
<1> QED BY <1>1, <1>2, <1>3

\* The supervisor.  A failed query lists nobody and is not quiet; every other step moves
\* one pid from `todo' to where it belongs.
LEMMA SuperviseZone ==
  ASSUME ZoneInv, Supervise
  PROVE  ZoneInv'
<1> USE ZoneTypes, ZoneBounds DEF ZoneInv
<1>0. supervisor \in [at : {"sleep", "join", "leave"}, live : SUBSET Pids, todo : SUBSET Pids]
  OBVIOUS
<1>1. CASE SuperviseQuery
  <2> PICK result \in SUBSET Pids :
        /\ contained_pids(result)
        /\ supervisor' = [at |-> "join", live |-> result, todo |-> result]
        /\ quiet' = (result = InJob)
    BY <1>1 DEF SuperviseQuery
  <2>1. failures' \in 0..MaxFailures
    BY DEF contained_pids
  <2>2. UNCHANGED <<process, members, launcher, starts, restarts, fresh>> /\ InJob' = InJob
    BY <1>1 DEF SuperviseQuery, InJob
  <2>3. PassInv'
    BY <2>2 DEF PassInv
  <2> QED BY <2>1, <2>2, <2>3 DEF ZoneTypeOK, ProcessKind, LaunchState
<1>2. ASSUME NEW p \in Pids, SuperviseJoin(p)
      PROVE  ZoneInv'
  <2>1. /\ supervisor'.at = "join" /\ supervisor'.live = supervisor.live
        /\ supervisor'.todo = supervisor.todo \ {p}
        /\ supervisor' \in [at : {"sleep", "join", "leave"}, live : SUBSET Pids, todo : SUBSET Pids]
    BY <1>0, <1>2 DEF SuperviseJoin
  <2>2. InJob' = InJob
    BY <1>2 DEF SuperviseJoin, InJob
  <2>3. PassInv'
    BY <1>2, <2>1, <2>2 DEF SuperviseJoin, PassInv
  <2> QED BY <1>2, <2>1, <2>3 DEF SuperviseJoin, ZoneTypeOK, ProcessKind, LaunchState
<1>3. CASE supervised_pids
  <2>1. /\ supervisor'.at = "leave" /\ supervisor'.live = supervisor.live
        /\ supervisor'.todo = members \ supervisor.live
        /\ supervisor' \in [at : {"sleep", "join", "leave"}, live : SUBSET Pids, todo : SUBSET Pids]
    BY <1>0, <1>3 DEF supervised_pids
  <2>2. InJob' = InJob
    BY <1>3 DEF supervised_pids, InJob
  <2>3. PassInv'
    BY <1>3, <2>1, <2>2 DEF supervised_pids, PassInv
  <2> QED BY <1>3, <2>1, <2>3 DEF supervised_pids, ZoneTypeOK, ProcessKind, LaunchState
<1>4. ASSUME NEW p \in Pids, SuperviseLeave(p)
      PROVE  ZoneInv'
  <2>1. /\ supervisor'.at = "leave" /\ supervisor'.live = supervisor.live
        /\ supervisor'.todo = supervisor.todo \ {p}
        /\ supervisor' \in [at : {"sleep", "join", "leave"}, live : SUBSET Pids, todo : SUBSET Pids]
    BY <1>0, <1>4 DEF SuperviseLeave
  <2>2. InJob' = InJob
    BY <1>4 DEF SuperviseLeave, InJob
  <2>3. PassInv'
    BY <1>4, <2>1, <2>2 DEF SuperviseLeave, PassInv
  <2> QED BY <1>4, <2>1, <2>3 DEF SuperviseLeave, ZoneTypeOK, ProcessKind, LaunchState
<1>5. CASE SuperviseSleep
  <2>1. /\ supervisor'.at = "sleep" /\ supervisor'.live = supervisor.live
        /\ supervisor' \in [at : {"sleep", "join", "leave"}, live : SUBSET Pids, todo : SUBSET Pids]
    BY <1>0, <1>5 DEF SuperviseSleep, Sleeping
  <2>2. InJob' = InJob
    BY <1>5 DEF SuperviseSleep, InJob
  <2>3. PassInv'
    BY <1>5, <2>1, <2>2 DEF SuperviseSleep, PassInv
  <2> QED BY <1>5, <2>1, <2>3 DEF SuperviseSleep, ZoneTypeOK, ProcessKind, LaunchState
<1> QED BY <1>1, <1>2, <1>3, <1>4, <1>5 DEF Supervise

LEMMA RestartZone ==
  ASSUME ZoneInv, Restart
  PROVE  ZoneInv'
<1> USE ZoneTypes, ZoneBounds DEF ZoneInv
<1>1. process' \in [Pids -> ProcessKind] /\ launcher' \in [Launchers -> LaunchState]
  BY ProcessMade DEF Restart, LaunchState
<1>2. supervisor' \in [at : {"sleep", "join", "leave"}, live : SUBSET Pids, todo : SUBSET Pids]
  BY DEF Restart, Sleeping
<1>3. restarts' \in 0..MaxRestarts
  BY DEF Restart
<1>4. PassInv'
  BY DEF Restart, Sleeping, PassInv
<1> QED BY <1>1, <1>2, <1>3, <1>4 DEF Restart, ZoneTypeOK, ProcessKind, LaunchState

LEMMA StepZone == ZoneInv /\ [ZoneNext]_zoneVars => ZoneInv'
<1> SUFFICES ASSUME ZoneInv, [ZoneNext]_zoneVars PROVE ZoneInv'
  OBVIOUS
<1>1. ASSUME NEW p \in Pids, PersonalStart(p) \/ Exit(p) PROVE ZoneInv'
  BY <1>1, StartsZone
<1>2. ASSUME NEW p \in Pids, NEW c \in Pids, ChildStart(p, c) PROVE ZoneInv'
  BY <1>2, StartsZone
<1>3. ASSUME NEW l \in Launchers, NEW p \in Pids, launch(l, p) \/ launch_web(l, p) PROVE ZoneInv'
  BY <1>3, LaunchZone DEF launch, launch_web
<1>4. ASSUME NEW l \in Launchers, on_zone_join(l) \/ contain(l) PROVE ZoneInv'
  BY <1>4, LaunchZone
<1>5. CASE UNCHANGED zoneVars
  BY <1>5 DEF zoneVars, ZoneInv, ZoneTypeOK, PassInv, InJob
<1> QED BY <1>1, <1>2, <1>3, <1>4, <1>5, SuperviseZone, RestartZone DEF ZoneNext

\* A pass of the supervisor in which no process entered or left the job ends with exactly
\* the job's processes in the zone, but for launches that joined after it had listed the
\* members: for any number of processes, launchers and failed queries, however spawns,
\* exits and the use of a pid again fall between the steps of the pass.
THEOREM PassLeavesTheJob == ZoneSpec => []PassExact
<1>1. ZoneInv => PassExact
  BY DEF ZoneInv, PassInv, PassExact
<1> QED BY InitZone, StepZone, <1>1, PTL DEF ZoneSpec
=============================================================================
