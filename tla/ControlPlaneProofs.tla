------------------------- MODULE ControlPlaneProofs -------------------------
(***************************************************************************)
(* Theorems about ControlPlane, for any users, devices, number of          *)
(* concurrent requests and bounds.                                         *)
(***************************************************************************)
EXTENDS ControlPlane, TLAPS

Admitted(u) == \/ u \in Founder
               \/ invitation[u].state # "none" /\ AdmissibleLogin(u, u \in SsoUser)

\* What a request that is under way has established and may rely on.
Sound(q) ==
  /\ q.verified => q.on \in SsoUser
  /\ q.pc = "invitation" => q.kind = "login"
  /\ q.pc = "target" => /\ q.kind \in {"role", "suspend", "restore"}
                        /\ q.kind = "role" => Founded(q.arg)
  /\ q.pc = "put" /\ q.kind = "invite" => Founded(q.arg)
  /\ q.pc = "put" /\ q.kind # "invite" =>
       /\ q.kind \in {"login", "role", "suspend", "restore", "activate", "deactivate"}
       /\ q.m.status # "none" /\ Founded(q.m.role) /\ Admitted(q.on)
       /\ q.kind \in {"suspend", "deactivate"} => q.m.status = "suspended"
  /\ q.pc = "mark" => IsMember(q.on)
  /\ q.pc = "record" => IsMember(q.on)
  /\ q.pc = "register" => device[q.key].status # "none"
  /\ q.pc = "certify" => q.key \in registered

\* What a request may write for a user whose suspension has to last.
Respects(q, u) ==
  MayOverwrite(q, u) => q.kind = "role" /\ q.m.status = "suspended"

RequestsSound == \A r \in Request : Sound(req[r])

SuspensionInv ==
  \A u \in barred \ overtaken : /\ membership[u].status = "suspended"
                                /\ \A r \in Request : Respects(req[r], u)

PlaneInv ==
  /\ NoEscalation /\ AdmittedOnly /\ InvitationNotBurnt /\ EnrolledInOrder
  /\ RequestsSound /\ SuspensionInv

----------------------------------------------------------------------------
\* The placeholder for "no request" is typed.
LEMMA NoRequestType == NoRequest \in RequestState
<1>1. AnyUser \in User /\ AnyKey \in Key
  BY PlaneAssumption DEF AnyUser, AnyKey
<1> QED
  BY <1>1, PlaneAssumption DEF NoRequest, RequestState, Kind, Pc, Role, Member, Owner,
     NoMembership, Membership

\* The state of a request always has its type when it is replaced by a typed one.
LEMMA ReqType ==
  ASSUME TypeOK, NEW r \in Request, NEW q \in RequestState, req' = [req EXCEPT ![r] = q]
  PROVE  req' \in [Request -> RequestState]
BY DEF TypeOK

\* Init establishes the types.
LEMMA InitType == Init => TypeOK
<1> SUFFICES ASSUME Init PROVE TypeOK
  OBVIOUS
<1>1. AnyUser \in User
  BY PlaneAssumption DEF AnyUser
<1>2. membership \in [User -> Membership]
  BY PlaneAssumption DEF Init, Membership, NoMembership, Role, Member, Owner
<1>3. invitation \in [User -> Invitation] /\ session \in [User -> 0..(MaxTime + Ttl)]
  BY PlaneAssumption DEF Init, Invitation, Role, Member, Owner
<1>4. device \in [Key -> Device]
  BY <1>1 DEF Init, Device
<1> QED
  BY <1>2, <1>3, <1>4, NoRequestType, PlaneAssumption DEF Init, TypeOK

\* Edited yields a membership.
LEMMA EditedType ==
  ASSUME NEW kind, NEW arg \in Role, NEW m \in Membership
  PROVE  /\ Edited(kind, arg, m) \in Membership
         /\ m.status # "none" => Edited(kind, arg, m).status # "none"
BY DEF Edited, Membership

\* Every step keeps the types.
LEMMA NextType == TypeOK /\ [Next]_vars => TypeOK'
<1> SUFFICES ASSUME TypeOK, [Next]_vars PROVE TypeOK'
  OBVIOUS
<1> USE PlaneAssumption
<1>1. CASE UNCHANGED vars
  BY <1>1 DEF vars, storeVars, TypeOK
<1>2. ASSUME NEW u \in User, LoginMember(u) \/ RefreshSession(u) \/ Logout(u) PROVE TypeOK'
  <2>1. session' \in [User -> 0..(MaxTime + Ttl)]
    BY <1>2 DEF TypeOK, LoginMember, RefreshSession, Logout, Cookie, Expired
  <2> QED
    BY <1>2, <2>1 DEF TypeOK, LoginMember, RefreshSession, Logout, Cookie, Expired, storeVars
<1>3. CASE Tick
  BY <1>3 DEF Tick, TypeOK, storeVars
<1>4. ASSUME NEW r \in Request, Begin(r) PROVE TypeOK'
  <2>1. PICK u \in User :
          \/ LoginStranger(r, u)
          \/ \E on \in User, role \in Role, t \in 1..MaxTime : Invite(r, u, on, role, t)
          \/ \E on \in User, role \in Role : ChangeRole(r, u, on, role)
          \/ \E on \in User, kind \in {"suspend", "restore"} : SetMemberStatus(r, u, on, kind)
          \/ \E k \in Key, kind \in {"lock", "wipe"} : ControlDevice(r, u, k, kind)
          \/ \E kind \in {"activate", "deactivate"} : DirectoryEvent(r, u, kind)
          \/ \E k \in Key : EnrollPoll(r, u, k)
    BY <1>4 DEF Begin, AdminMembers, AdminDevices, ScimEvents
  <2>2. SUFFICES ASSUME NEW q \in RequestState, Begins(r, q),
                        UNCHANGED <<storeVars, session, now, barred, overtaken>>
                 PROVE  TypeOK'
    <3>1. membership[u] \in Membership /\ now \in 1..MaxTime
      BY DEF TypeOK
    <3>2. CASE LoginStranger(r, u)
      <4>1. PICK v \in BOOLEAN :
              Begins(r, [NoRequest EXCEPT !.pc = "invitation", !.verified = v, !.at = now, !.on = u])
        BY <3>2 DEF LoginStranger
      <4>2. [NoRequest EXCEPT !.pc = "invitation", !.verified = v, !.at = now, !.on = u]
              \in RequestState
        BY <3>1, NoRequestType DEF RequestState, Pc
      <4> QED  BY <4>1, <4>2, <3>2, <2>2 DEF LoginStranger
    <3>3. ASSUME NEW kind \in Kind, NEW pc \in Pc, NEW on \in User
          PROVE  AdminRequest(kind, pc, u, on) \in RequestState
      BY <3>1, NoRequestType DEF AdminRequest, RequestState, Membership
    <3>4. ASSUME NEW on \in User, NEW role \in Role, NEW t \in 1..MaxTime, Invite(r, u, on, role, t)
          PROVE  TypeOK'
      <4>1. AdminRequest("invite", "put", u, on) \in RequestState
        BY <3>3 DEF Kind, Pc
      <4>2. [AdminRequest("invite", "put", u, on) EXCEPT !.arg = role, !.at = t] \in RequestState
        BY <4>1 DEF RequestState
      <4> QED  BY <4>2, <3>4, <2>2 DEF Invite
    <3>5. ASSUME NEW on \in User, NEW role \in Role, ChangeRole(r, u, on, role) PROVE TypeOK'
      <4>1. AdminRequest("role", "target", u, on) \in RequestState
        BY <3>3 DEF Kind, Pc
      <4>2. [AdminRequest("role", "target", u, on) EXCEPT !.arg = role] \in RequestState
        BY <4>1 DEF RequestState
      <4> QED  BY <4>2, <3>5, <2>2 DEF ChangeRole
    <3>6. ASSUME NEW on \in User, NEW kind \in {"suspend", "restore"},
                 SetMemberStatus(r, u, on, kind)
          PROVE  TypeOK'
      <4>1. AdminRequest(kind, "target", u, on) \in RequestState
        BY <3>3 DEF Kind, Pc
      <4> QED  BY <4>1, <3>6, <2>2 DEF SetMemberStatus
    <3>7. ASSUME NEW k \in Key, NEW kind \in {"lock", "wipe"}, ControlDevice(r, u, k, kind)
          PROVE  TypeOK'
      <4>1. AdminRequest(kind, "status", u, u) \in RequestState
        BY <3>3 DEF Kind, Pc
      <4>2. [AdminRequest(kind, "status", u, u) EXCEPT !.key = k] \in RequestState
        BY <4>1 DEF RequestState
      <4> QED  BY <4>2, <3>7, <2>2 DEF ControlDevice
    <3>8. ASSUME NEW kind \in {"activate", "deactivate"}, DirectoryEvent(r, u, kind) PROVE TypeOK'
      <4>1. Edited(kind, Member, membership[u]) \in Membership
        BY <3>1, EditedType DEF Member, Owner, Role
      <4>2. [NoRequest EXCEPT !.kind = kind, !.pc = "put", !.on = u,
               !.m = Edited(kind, Member, membership[u])] \in RequestState
        BY <4>1, NoRequestType DEF RequestState, Kind, Pc
      <4> QED  BY <4>2, <3>8, <2>2 DEF DirectoryEvent
    <3>9. ASSUME NEW k \in Key, EnrollPoll(r, u, k) PROVE TypeOK'
      <4>1. [NoRequest EXCEPT !.kind = "enroll", !.pc = "record", !.on = u, !.key = k]
              \in RequestState
        BY NoRequestType DEF RequestState, Kind, Pc
      <4> QED  BY <4>1, <3>9, <2>2 DEF EnrollPoll
    <3> QED  BY <2>1, <3>2, <3>4, <3>5, <3>6, <3>7, <3>8, <3>9
  <2>3. req' \in [Request -> RequestState] /\ begun' \in 0..MaxRequests
    BY <2>2, ReqType DEF Begins, TypeOK
  <2> QED
    BY <2>2, <2>3 DEF TypeOK, storeVars
<1>5. ASSUME NEW r \in Request, Continue(r) PROVE TypeOK'
  <2> DEFINE q == req[r]
  <2>1. /\ q \in RequestState /\ q.on \in User /\ q.key \in Key /\ q.m \in Membership
        /\ q.at \in 1..MaxTime /\ q.arg \in Role
    BY DEF TypeOK, RequestState
  <2>2. membership[q.on] \in Membership /\ invitation[q.on] \in Invitation
    BY <2>1 DEF TypeOK
  <2>3. ASSUME NEW s \in RequestState, Goes(r, s)
        PROVE  req' \in [Request -> RequestState] /\ begun' = begun
    BY <2>3, ReqType DEF Goes
  <2>4. Ends(r) => req' \in [Request -> RequestState] /\ begun' = begun
    BY <2>3, NoRequestType DEF Ends
  <2>5. ASSUME NEW pc \in Pc PROVE [q EXCEPT !.pc = pc] \in RequestState
    BY <2>1 DEF RequestState
  <2>6. CASE LoginInvitation(r)
    <3>1. [role |-> invitation[q.on].role, status |-> "active"] \in Membership
      BY <2>2 DEF Invitation, Membership
    <3>2. [q EXCEPT !.pc = "put", !.m = [role |-> invitation[q.on].role, status |-> "active"]]
            \in RequestState
      BY <2>1, <3>1 DEF RequestState, Pc
    <3> QED
      BY <2>3, <2>4, <2>6, <3>2 DEF LoginInvitation, TypeOK, storeVars
  <2>7. CASE LoginMark(r)
    <3>1. invitation' \in [User -> Invitation] /\ session' \in [User -> 0..(MaxTime + Ttl)]
      BY <2>1, <2>7 DEF LoginMark, Cookie, TypeOK, Invitation
    <3> QED
      BY <2>4, <2>7, <3>1 DEF LoginMark, Cookie, TypeOK
  <2>8. CASE ReadTarget(r)
    <3>1. Edited(q.kind, q.arg, membership[q.on]) \in Membership
      BY <2>1, <2>2, EditedType
    <3>2. [q EXCEPT !.pc = "put", !.m = Edited(q.kind, q.arg, membership[q.on])] \in RequestState
      BY <2>1, <3>1 DEF RequestState, Pc
    <3> QED
      BY <2>3, <2>4, <2>8, <3>2 DEF ReadTarget, TypeOK, storeVars
  <2>9. CASE put_membership(r)
    <3>1. membership' \in [User -> Membership]
      BY <2>1, <2>9 DEF put_membership, TypeOK
    <3>2. barred' \subseteq User /\ overtaken' \subseteq User
      BY <2>1, <2>9 DEF put_membership, TypeOK
    <3>3. req' \in [Request -> RequestState] /\ begun' = begun
      BY <2>3, <2>4, <2>5, <2>9 DEF put_membership, Pc
    <3> QED
      BY <2>9, <3>1, <3>2, <3>3 DEF put_membership, TypeOK
  <2>10. CASE put_invitation(r)
    <3>1. invitation' \in [User -> Invitation]
      BY <2>1, <2>10 DEF put_invitation, TypeOK, Invitation
    <3> QED
      BY <2>4, <2>10, <3>1 DEF put_invitation, TypeOK
  <2>11. CASE set_device_status(r)
    <3>1. device' \in [Key -> Device]
      BY <2>1, <2>11 DEF set_device_status, TypeOK, Device
    <3> QED
      BY <2>4, <2>11, <3>1 DEF set_device_status, TypeOK
  <2>12. CASE record_device(r)
    <3>1. device' \in [Key -> Device]
      BY <2>1, <2>12 DEF record_device, TypeOK, Device
    <3>2. req' \in [Request -> RequestState] /\ begun' = begun
      BY <2>3, <2>5, <2>12 DEF record_device, Pc
    <3> QED
      BY <2>12, <3>1, <3>2 DEF record_device, TypeOK
  <2>13. CASE register_device(r)
    <3>1. req' \in [Request -> RequestState] /\ begun' = begun
      BY <2>3, <2>5, <2>13 DEF register_device, Pc
    <3> QED
      BY <2>1, <2>13, <3>1 DEF register_device, TypeOK
  <2>14. CASE set_device_fingerprint(r)
    BY <2>1, <2>4, <2>14 DEF set_device_fingerprint, TypeOK
  <2>15. CASE Abort(r)
    BY <2>4, <2>15 DEF Abort, TypeOK, storeVars
  <2> QED
    BY <1>5, <2>6, <2>7, <2>8, <2>9, <2>10, <2>11, <2>12, <2>13, <2>14, <2>15 DEF Continue
<1> QED
  BY <1>1, <1>2, <1>3, <1>4, <1>5 DEF Next

----------------------------------------------------------------------------
\* Init establishes the invariant.
LEMMA InitInv == Init => PlaneInv
<1> SUFFICES ASSUME Init PROVE PlaneInv
  OBVIOUS
<1>1. \A u \in User : membership[u].status # "none" =>
        u \in Founder /\ membership[u].role = FounderRole[u]
  BY DEF Init, NoMembership
<1>2. NoEscalation
  <2>1. \A u \in Founder : FounderRole[u] <= FounderRole[u]
    BY PlaneAssumption DEF Role, Member, Owner
  <2>2. \A u \in User : invitation[u].state = "none"
    BY DEF Init
  <2> QED
    BY <1>1, <2>1, <2>2 DEF NoEscalation, IsMember, Founded
<1>3. AdmittedOnly /\ InvitationNotBurnt
  BY <1>1 DEF Init, AdmittedOnly, InvitationNotBurnt, IsMember
<1>4. EnrolledInOrder
  BY DEF Init, EnrolledInOrder
<1>5. RequestsSound
  BY DEF Init, RequestsSound, Sound, NoRequest
<1>6. SuspensionInv
  BY DEF Init, SuspensionInv
<1> QED
  BY <1>2, <1>3, <1>4, <1>5, <1>6 DEF PlaneInv

\* A step that only moves one request along keeps the invariant if the new
\* state of the request is sound and respects the suspensions.
LEMMA LocalStep ==
  ASSUME TypeOK, PlaneInv, NEW r \in Request, NEW q,
         req' = [req EXCEPT ![r] = q], UNCHANGED <<storeVars, session, barred, overtaken>>,
         Sound(q), \A u \in barred \ overtaken : Respects(q, u)
  PROVE  PlaneInv'
<1>1. \A s \in Request : req'[s] = IF s = r THEN q ELSE req[s]
  BY DEF TypeOK
<1>2. \A s \in Request : Sound(req'[s])
  BY <1>1 DEF PlaneInv, RequestsSound
<1>3. RequestsSound'
  BY <1>2 DEF RequestsSound, Sound, Admitted, AdmissibleLogin, Founded, IsMember, storeVars
<1>4. SuspensionInv'
  BY <1>1 DEF PlaneInv, SuspensionInv, Respects, MayOverwrite, storeVars
<1>5. (NoEscalation /\ AdmittedOnly /\ InvitationNotBurnt /\ EnrolledInOrder)'
  BY DEF PlaneInv, NoEscalation, AdmittedOnly, InvitationNotBurnt, EnrolledInOrder,
     Founded, IsMember, AdmissibleLogin, storeVars
<1> QED
  BY <1>3, <1>4, <1>5 DEF PlaneInv

\* A request that ends is sound and writes nothing.
LEMMA NoRequestSound == Sound(NoRequest) /\ \A u : Respects(NoRequest, u)
BY DEF Sound, NoRequest, Respects, MayOverwrite

\* The caller's own role, and any role below it, was founded.
LEMMA GrantFounded ==
  ASSUME TypeOK, PlaneInv, NEW u \in User, authorize_request(u),
         NEW role \in Role, role <= membership[u].role
  PROVE  Founded(role)
<1>1. PICK f \in Founder : membership[u].role <= FounderRole[f]
  BY DEF PlaneInv, NoEscalation, IsMember, authorize_request, Founded
<1>2. membership[u].role \in Role /\ FounderRole[f] \in Role
  BY PlaneAssumption DEF TypeOK, Membership
<1> QED
  BY <1>1, <1>2 DEF Founded, Role, Member, Owner

\* Requests that begin are sound.
LEMMA BeginInv ==
  ASSUME TypeOK, PlaneInv, NEW r \in Request, Begin(r)
  PROVE  PlaneInv'
<1> USE DEF Sound, Respects, MayOverwrite
<1>1. PICK u \in User :
        \/ LoginStranger(r, u)
        \/ \E on \in User, role \in Role, t \in 1..MaxTime : Invite(r, u, on, role, t)
        \/ \E on \in User, role \in Role : ChangeRole(r, u, on, role)
        \/ \E on \in User, kind \in {"suspend", "restore"} : SetMemberStatus(r, u, on, kind)
        \/ \E k \in Key, kind \in {"lock", "wipe"} : ControlDevice(r, u, k, kind)
        \/ \E kind \in {"activate", "deactivate"} : DirectoryEvent(r, u, kind)
        \/ \E k \in Key : EnrollPoll(r, u, k)
  BY DEF Begin, AdminMembers, AdminDevices, ScimEvents
<1>2. SUFFICES \E q : /\ Begins(r, q) /\ UNCHANGED <<storeVars, session, barred, overtaken>>
                      /\ Sound(q) /\ \A v \in barred \ overtaken : Respects(q, v)
  BY LocalStep DEF Begins
<1>3. CASE LoginStranger(r, u)
  <2>1. PICK v \in BOOLEAN :
          /\ v => u \in SsoUser
          /\ Begins(r, [NoRequest EXCEPT !.pc = "invitation", !.verified = v, !.at = now, !.on = u])
    BY <1>3 DEF LoginStranger
  <2> DEFINE q == [NoRequest EXCEPT !.pc = "invitation", !.verified = v, !.at = now, !.on = u]
  <2>2. Sound(q)
    BY <2>1 DEF NoRequest
  <2>3. u \notin barred \ overtaken
    BY <1>3 DEF LoginStranger, IsMember, PlaneInv, SuspensionInv
  <2>4. \A w \in barred \ overtaken : Respects(q, w)
    BY <2>3 DEF NoRequest
  <2> QED  BY <1>3, <2>1, <2>2, <2>4 DEF LoginStranger
<1>4. ASSUME NEW on \in User, NEW role \in Role, NEW t \in 1..MaxTime, Invite(r, u, on, role, t)
      PROVE  \E q : /\ Begins(r, q) /\ UNCHANGED <<storeVars, session, barred, overtaken>>
                    /\ Sound(q) /\ \A v \in barred \ overtaken : Respects(q, v)
  <2>1. Founded(role)
    BY <1>4, GrantFounded DEF Invite
  <2> DEFINE q == [AdminRequest("invite", "put", u, on) EXCEPT !.arg = role, !.at = t]
  <2>2. Sound(q) /\ \A v \in barred \ overtaken : Respects(q, v)
    BY <2>1 DEF AdminRequest, NoRequest
  <2> QED  BY <1>4, <2>2 DEF Invite
<1>5. ASSUME NEW on \in User, NEW role \in Role, ChangeRole(r, u, on, role)
      PROVE  \E q : /\ Begins(r, q) /\ UNCHANGED <<storeVars, session, barred, overtaken>>
                    /\ Sound(q) /\ \A v \in barred \ overtaken : Respects(q, v)
  <2>1. Founded(role)
    BY <1>5, GrantFounded DEF ChangeRole
  <2> DEFINE q == [AdminRequest("role", "target", u, on) EXCEPT !.arg = role]
  <2>2. Sound(q) /\ \A v \in barred \ overtaken : Respects(q, v)
    BY <2>1 DEF AdminRequest, NoRequest
  <2> QED  BY <1>5, <2>2 DEF ChangeRole
<1>6. ASSUME NEW on \in User, NEW kind \in {"suspend", "restore"}, SetMemberStatus(r, u, on, kind)
      PROVE  \E q : /\ Begins(r, q) /\ UNCHANGED <<storeVars, session, barred, overtaken>>
                    /\ Sound(q) /\ \A v \in barred \ overtaken : Respects(q, v)
  <2> DEFINE q == AdminRequest(kind, "target", u, on)
  <2>1. Sound(q) /\ \A v \in barred \ overtaken : Respects(q, v)
    BY DEF AdminRequest, NoRequest
  <2> QED  BY <1>6, <2>1 DEF SetMemberStatus
<1>7. ASSUME NEW k \in Key, NEW kind \in {"lock", "wipe"}, ControlDevice(r, u, k, kind)
      PROVE  \E q : /\ Begins(r, q) /\ UNCHANGED <<storeVars, session, barred, overtaken>>
                    /\ Sound(q) /\ \A v \in barred \ overtaken : Respects(q, v)
  <2> DEFINE q == [AdminRequest(kind, "status", u, u) EXCEPT !.key = k]
  <2>1. Sound(q) /\ \A v \in barred \ overtaken : Respects(q, v)
    BY DEF AdminRequest, NoRequest
  <2> QED  BY <1>7, <2>1 DEF ControlDevice
<1>8. ASSUME NEW kind \in {"activate", "deactivate"}, DirectoryEvent(r, u, kind)
      PROVE  \E q : /\ Begins(r, q) /\ UNCHANGED <<storeVars, session, barred, overtaken>>
                    /\ Sound(q) /\ \A v \in barred \ overtaken : Respects(q, v)
  <2> DEFINE m == Edited(kind, Member, membership[u])
             q == [NoRequest EXCEPT !.kind = kind, !.pc = "put", !.on = u, !.m = m]
  <2>1. /\ m.role = membership[u].role /\ m.status # "none"
        /\ kind = "deactivate" => m.status = "suspended"
    BY DEF Edited
  <2>2. Founded(m.role) /\ Admitted(u)
    BY <1>8, <2>1 DEF DirectoryEvent, PlaneInv, NoEscalation, AdmittedOnly, Admitted
  <2>3. Sound(q) /\ \A v \in barred \ overtaken : Respects(q, v)
    <3> HIDE DEF m
    <3> QED  BY <2>1, <2>2 DEF NoRequest
  <2> QED  BY <1>8, <2>3 DEF DirectoryEvent
<1>9. ASSUME NEW k \in Key, EnrollPoll(r, u, k)
      PROVE  \E q : /\ Begins(r, q) /\ UNCHANGED <<storeVars, session, barred, overtaken>>
                    /\ Sound(q) /\ \A v \in barred \ overtaken : Respects(q, v)
  <2> DEFINE q == [NoRequest EXCEPT !.kind = "enroll", !.pc = "record", !.on = u, !.key = k]
  <2>1. IsMember(u)
    BY <1>9 DEF EnrollPoll, authorize_enrollment, IsMember
  <2>2. Sound(q) /\ \A v \in barred \ overtaken : Respects(q, v)
    BY <2>1 DEF NoRequest
  <2> QED  BY <1>9, <2>2 DEF EnrollPoll
<1> QED
  BY <1>1, <1>3, <1>4, <1>5, <1>6, <1>7, <1>8, <1>9

\* Requests that continue keep the invariant.
LEMMA ContinueInv ==
  ASSUME TypeOK, PlaneInv, NEW r \in Request, Continue(r), TypeOK'
  PROVE  PlaneInv'
<1> DEFINE q == req[r]
<1>1. q.on \in User /\ q.key \in Key /\ q.m \in Membership /\ q.arg \in Role
  BY DEF TypeOK, RequestState
<1>2. Sound(q) /\ \A u \in barred \ overtaken : Respects(q, u)
  BY DEF PlaneInv, RequestsSound, SuspensionInv
<1>3. ASSUME NEW s, Goes(r, s), NEW t \in Request PROVE req'[t] = IF t = r THEN s ELSE req[t]
  BY <1>3 DEF Goes, TypeOK
<1>4. CASE LoginInvitation(r)
  <2> DEFINE inv == invitation[q.on]
             m == [role |-> inv.role, status |-> "active"]
             p == [q EXCEPT !.pc = "put", !.m = m]
  <2>1. CASE Ends(r)
    BY <1>4, <2>1, LocalStep, NoRequestSound DEF Ends, Goes, LoginInvitation
  <2>2. CASE Goes(r, p) /\ inv.state # "none" /\ accept_invitation(q.on, q.verified, inv, q.at)
    <3>1. q.kind = "login" /\ q.pc = "invitation" /\ (q.verified => q.on \in SsoUser)
      BY <1>2, <1>4 DEF LoginInvitation, At, Sound
    <3>2. Admitted(q.on)
      BY <2>2, <3>1 DEF Admitted, accept_invitation, AdmissibleLogin
    <3>3. Founded(inv.role)
      BY <1>1, <2>2 DEF PlaneInv, NoEscalation
    <3>4. /\ p.kind = "login" /\ p.pc = "put" /\ p.verified = q.verified /\ p.on = q.on
          /\ p.m.role = inv.role /\ p.m.status = "active"
      BY <3>1 DEF TypeOK, RequestState
    <3>5. Sound(p)
      <4> HIDE DEF p, inv
      <4> QED  BY <3>1, <3>2, <3>3, <3>4 DEF Sound
    <3>6. \A u \in barred \ overtaken : Respects(p, u)
      <4> HIDE DEF p
      <4> QED  BY <1>2, <3>1, <3>4 DEF Respects, MayOverwrite
    <3> HIDE DEF p
    <3> QED
      BY <1>4, <2>2, <3>5, <3>6, LocalStep DEF Goes, LoginInvitation
  <2> QED
    BY <1>4, <2>1, <2>2 DEF LoginInvitation
<1>5. CASE ReadTarget(r)
  <2> DEFINE m == membership[q.on]
             e == Edited(q.kind, q.arg, m)
             p == [q EXCEPT !.pc = "put", !.m = e]
  <2>1. CASE Ends(r)
    BY <1>5, <2>1, LocalStep, NoRequestSound DEF Ends, Goes, ReadTarget
  <2>2. CASE Goes(r, p) /\ m.status # "none"
    <3>1. /\ q.kind \in {"role", "suspend", "restore"} /\ (q.kind = "role" => Founded(q.arg))
          /\ (q.verified => q.on \in SsoUser)
      BY <1>2, <1>5 DEF ReadTarget, At, Sound
    <3>2. Founded(m.role) /\ Admitted(q.on)
      BY <1>1, <2>2 DEF PlaneInv, NoEscalation, AdmittedOnly, Admitted, IsMember
    <3>3. /\ e.status # "none" /\ Founded(e.role)
          /\ q.kind = "suspend" => e.status = "suspended"
          /\ q.kind = "role" => e.status = m.status
      BY <2>2, <3>1, <3>2 DEF Edited
    <3>4. /\ p.kind = q.kind /\ p.pc = "put" /\ p.verified = q.verified /\ p.on = q.on /\ p.m = e
      BY DEF TypeOK, RequestState
    <3>5. Sound(p)
      <4> HIDE DEF p, e
      <4> QED  BY <3>1, <3>2, <3>3, <3>4 DEF Sound
    <3>6. ASSUME NEW u \in barred \ overtaken PROVE Respects(p, u)
      <4>1. membership[u].status = "suspended"
        BY DEF PlaneInv, SuspensionInv
      <4> HIDE DEF p, e
      <4> QED  BY <3>1, <3>3, <3>4, <4>1 DEF Respects, MayOverwrite
    <3> HIDE DEF p
    <3> QED
      BY <1>5, <2>2, <3>5, <3>6, LocalStep DEF Goes, ReadTarget
  <2> QED
    BY <1>5, <2>1, <2>2 DEF ReadTarget
<1>6. CASE Abort(r)
  BY <1>6, LocalStep, NoRequestSound DEF Abort, Ends, Goes
<1>7. CASE LoginMark(r)
  <2>1. IsMember(q.on) /\ (q.verified => q.on \in SsoUser)
    BY <1>2, <1>7 DEF LoginMark, Cookie, At, Sound
  <2>2. \A u \in User : /\ invitation'[u].role = invitation[u].role
                        /\ invitation'[u].state # "none" <=> invitation[u].state # "none"
                        /\ u # q.on => invitation'[u].state = invitation[u].state
    BY <1>7 DEF LoginMark, Cookie, TypeOK, Invitation
  <2>3. \A u \in User : session'[u] = session[u] \/ (u = q.on /\ AdmissibleLogin(u, u \in SsoUser))
    BY <1>1, <1>7, <2>1 DEF LoginMark, Cookie, TypeOK, authorize_login, AdmissibleLogin
  <2>4. (NoEscalation /\ InvitationNotBurnt)'
    BY <1>7, <2>1, <2>2 DEF LoginMark, Cookie, PlaneInv, NoEscalation, InvitationNotBurnt, IsMember, Founded
  <2>5. AdmittedOnly'
    BY <1>7, <2>1, <2>2, <2>3 DEF LoginMark, Cookie, PlaneInv, AdmittedOnly, IsMember, AdmissibleLogin
  <2>6. EnrolledInOrder'
    BY <1>7 DEF LoginMark, Cookie, PlaneInv, EnrolledInOrder, IsMember
  <2>7. ASSUME NEW t \in Request PROVE Sound(req[t])' /\ (req'[t] = NoRequest \/ req'[t] = req[t])
    <3>1. req'[t] = IF t = r THEN NoRequest ELSE req[t]
      BY <1>3, <1>7 DEF LoginMark, Cookie, Ends
    <3>2. Sound(req'[t]) /\ req'[t].on \in User
      BY <3>1, NoRequestSound DEF PlaneInv, RequestsSound, TypeOK, RequestState
    <3> QED
      BY <1>7, <2>2, <3>1, <3>2 DEF LoginMark, Cookie, Sound, Admitted, IsMember, Founded, AdmissibleLogin
  <2>8. SuspensionInv'
    BY <1>7, <2>7, NoRequestSound DEF LoginMark, Cookie, PlaneInv, SuspensionInv, Respects, MayOverwrite
  <2> QED
    BY <2>4, <2>5, <2>6, <2>7, <2>8 DEF PlaneInv, RequestsSound
<1>8. CASE put_invitation(r)
  <2>1. Founded(q.arg)
    BY <1>2, <1>8 DEF put_invitation, At, Sound
  <2>2. \A u \in User : \/ invitation'[u] = invitation[u]
                        \/ invitation'[u].state = "open" /\ invitation'[u].role = q.arg
    BY <1>8 DEF put_invitation, TypeOK
  <2>3. (NoEscalation /\ InvitationNotBurnt)'
    BY <1>8, <2>1, <2>2
    DEF put_invitation, PlaneInv, NoEscalation, InvitationNotBurnt, IsMember, Founded
  <2>4. AdmittedOnly'
    BY <1>8, <2>2 DEF put_invitation, PlaneInv, AdmittedOnly, IsMember, AdmissibleLogin
  <2>5. EnrolledInOrder'
    BY <1>8 DEF put_invitation, PlaneInv, EnrolledInOrder, IsMember
  <2>6. ASSUME NEW t \in Request PROVE Sound(req[t])' /\ (req'[t] = NoRequest \/ req'[t] = req[t])
    <3>1. req'[t] = IF t = r THEN NoRequest ELSE req[t]
      BY <1>3, <1>8 DEF put_invitation, Ends
    <3>2. Sound(req'[t]) /\ req'[t].on \in User
      BY <3>1, NoRequestSound DEF PlaneInv, RequestsSound, TypeOK, RequestState
    <3> QED
      BY <1>8, <2>2, <3>1, <3>2 DEF put_invitation, Sound, Admitted, IsMember, Founded, AdmissibleLogin
  <2>7. SuspensionInv'
    BY <1>8, <2>6, NoRequestSound DEF put_invitation, PlaneInv, SuspensionInv, Respects, MayOverwrite
  <2> QED
    BY <2>3, <2>4, <2>5, <2>6, <2>7 DEF PlaneInv, RequestsSound
<1>9. CASE put_membership(r)
  <2> DEFINE u == q.on
  <2>1. /\ q.kind \in {"login", "role", "suspend", "restore", "activate", "deactivate"}
        /\ q.m.status # "none" /\ Founded(q.m.role) /\ Admitted(u)
        /\ q.kind \in {"suspend", "deactivate"} => q.m.status = "suspended"
        /\ q.verified => u \in SsoUser
    BY <1>2, <1>9 DEF put_membership, At, Sound
  <2>2. \A v \in User : membership'[v] = IF v = u THEN q.m ELSE membership[v]
    BY <1>9 DEF put_membership, TypeOK
  <2>3. \A v \in User : IsMember(v) => IsMember(v)'
    BY <2>1, <2>2 DEF IsMember
  <2>4. NoEscalation' /\ InvitationNotBurnt'
    BY <1>9, <2>1, <2>2, <2>3
    DEF put_membership, PlaneInv, NoEscalation, InvitationNotBurnt, IsMember, Founded
  <2>5. AdmittedOnly'
    BY <1>9, <2>1, <2>2, <2>3
    DEF put_membership, PlaneInv, AdmittedOnly, Admitted, IsMember, AdmissibleLogin
  <2>6. EnrolledInOrder'
    <3>1. \A k \in Key : device[k].enrolled_by \in User
      BY DEF TypeOK, Device
    <3> QED
      BY <1>9, <2>3, <3>1 DEF put_membership, PlaneInv, EnrolledInOrder, IsMember
  <2> DEFINE p == IF q.kind = "login" THEN [q EXCEPT !.pc = "mark"] ELSE NoRequest
  <2>7. ASSUME NEW t \in Request PROVE req'[t] = IF t = r THEN p ELSE req[t]
    BY <1>3, <1>9 DEF put_membership, Ends
  <2>8. p = NoRequest \/ (p.pc = "mark" /\ p.on = u /\ p.verified = q.verified)
    BY DEF TypeOK, RequestState
  <2>9. ASSUME NEW t \in Request PROVE Sound(req[t])'
    <3>1. CASE t = r
      <4>1. membership'[u].status # "none"
        BY <1>1, <2>1, <2>2
      <4>2. req'[t] = NoRequest \/ (req'[t].pc = "mark" /\ req'[t].on = u /\ req'[t].verified = q.verified)
        BY <2>7, <2>8, <3>1
      <4>3. CASE req'[t] = NoRequest
        BY <4>3 DEF Sound, NoRequest
      <4> QED  BY <2>1, <4>1, <4>2, <4>3 DEF Sound, IsMember
    <3>2. CASE t # r
      <4>1. req'[t] = req[t] /\ Sound(req[t]) /\ req[t].on \in User
        BY <2>7, <3>2 DEF PlaneInv, RequestsSound, TypeOK, RequestState
      <4> QED
        BY <1>9, <2>3, <4>1 DEF put_membership, Sound, Admitted, Founded, AdmissibleLogin
    <3> QED  BY <3>1, <3>2
  <2>10. ASSUME NEW v \in barred' \ overtaken'
         PROVE  membership'[v].status = "suspended" /\ \A t \in Request : Respects(req'[t], v)
    <3>1. v \in User
      BY DEF TypeOK
    <3>2. ASSUME NEW t \in Request, Respects(req[t], v) PROVE Respects(req'[t], v)
      BY <2>7, <2>8, <3>2, NoRequestSound DEF Respects, MayOverwrite
    <3>3. CASE q.kind = "deactivate" /\ v = u
      <4>1. \A t \in Request : ~MayOverwrite(req[t], u)
        BY <1>9, <3>3 DEF put_membership
      <4>2. \A t \in Request : Respects(req[t], v)
        BY <3>3, <4>1 DEF Respects
      <4> QED  BY <1>1, <2>1, <2>2, <3>2, <3>3, <4>2
    <3>4. CASE ~(q.kind = "deactivate" /\ v = u)
      <4>1. v \in barred \ overtaken /\ ~(v = u /\ q.kind \in {"restore", "activate"})
        BY <1>9, <2>1, <3>4 DEF put_membership
      <4>2. membership[v].status = "suspended" /\ \A t \in Request : Respects(req[t], v)
        BY <4>1 DEF PlaneInv, SuspensionInv
      <4>3. v = u => q.m.status = "suspended"
        <5>1. q.pc = "put"
          BY <1>9 DEF put_membership, At
        <5> QED
          BY <2>1, <3>4, <4>1, <4>2, <5>1 DEF Respects, MayOverwrite
      <4> QED  BY <2>2, <3>1, <3>2, <4>2, <4>3
    <3> QED  BY <3>3, <3>4
  <2>11. SuspensionInv'
    BY <2>10 DEF SuspensionInv, Respects, MayOverwrite
  <2> QED
    BY <2>4, <2>5, <2>6, <2>9, <2>11 DEF PlaneInv, RequestsSound
<1>10. CASE set_device_status(r) \/ record_device(r) \/ register_device(r) \/ set_device_fingerprint(r)
  <2>1. UNCHANGED <<membership, invitation, session, barred, overtaken>>
    BY <1>10 DEF set_device_status, record_device, register_device, set_device_fingerprint
  <2>2. (NoEscalation /\ AdmittedOnly /\ InvitationNotBurnt)'
    BY <2>1 DEF PlaneInv, NoEscalation, AdmittedOnly, InvitationNotBurnt, IsMember, Founded,
       AdmissibleLogin
  <2>3. registered \subseteq registered'
    BY <1>10 DEF set_device_status, record_device, register_device, set_device_fingerprint
  <2>4. \A k \in Key :
          /\ device[k].status # "none" =>
               device'[k].status # "none" /\ device'[k].enrolled_by = device[k].enrolled_by
          /\ device[k].status = "none" /\ device'[k].status # "none" =>
               IsMember(device'[k].enrolled_by)
    <3>1. CASE set_device_status(r)
      BY <3>1 DEF set_device_status, TypeOK, Device
    <3>2. CASE record_device(r)
      <4>1. IsMember(q.on)
        BY <1>2, <3>2 DEF record_device, At, Sound
      <4> QED  BY <3>2, <4>1 DEF record_device, TypeOK, Device
    <3>3. CASE register_device(r) \/ set_device_fingerprint(r)
      BY <3>3 DEF register_device, set_device_fingerprint
    <3> QED  BY <1>10, <3>1, <3>2, <3>3
  <2>5. EnrolledInOrder'
    <3>1. registered' \subseteq registered \/ (registered' = registered \cup {q.key} /\ device[q.key].status # "none")
      BY <1>2, <1>10
      DEF set_device_status, record_device, register_device, set_device_fingerprint, At, Sound
    <3>2. certified' \subseteq registered
      BY <1>2, <1>10
      DEF set_device_status, record_device, register_device, set_device_fingerprint, At, Sound,
          PlaneInv, EnrolledInOrder
    <3>3. registered \subseteq Key /\ q.key \in Key
      BY <1>1 DEF TypeOK
    <3> QED
      BY <2>1, <2>3, <2>4, <3>1, <3>2, <3>3 DEF PlaneInv, EnrolledInOrder, IsMember
  <2>6. PICK s : /\ Goes(r, s)
                 /\ \/ s = NoRequest
                    \/ /\ s.verified = q.verified /\ s.on = q.on
                       /\ \/ s.pc = "register" /\ device'[s.key].status # "none"
                          \/ s.pc = "certify" /\ s.key \in registered'
    <3>1. CASE set_device_status(r) \/ set_device_fingerprint(r)
      BY <3>1 DEF set_device_status, set_device_fingerprint, Ends
    <3>2. CASE record_device(r)
      <4> DEFINE s == [q EXCEPT !.pc = "register"]
      <4>1. s.verified = q.verified /\ s.on = q.on /\ s.pc = "register" /\ s.key = q.key
        BY DEF TypeOK, RequestState
      <4>2. device'[q.key].status # "none"
        BY <1>1, <3>2 DEF record_device, TypeOK, Device
      <4>3. Goes(r, s)
        BY <3>2 DEF record_device
      <4> HIDE DEF s
      <4> QED  BY <4>1, <4>2, <4>3
    <3>3. CASE register_device(r)
      <4> DEFINE s == [q EXCEPT !.pc = "certify"]
      <4>1. s.verified = q.verified /\ s.on = q.on /\ s.pc = "certify" /\ s.key = q.key
        BY DEF TypeOK, RequestState
      <4>2. Goes(r, s) /\ q.key \in registered'
        BY <3>3 DEF register_device
      <4> HIDE DEF s
      <4> QED  BY <4>1, <4>2
    <3> QED  BY <1>10, <3>1, <3>2, <3>3
  <2>7. ASSUME NEW t \in Request PROVE Sound(req[t])'
    <3>1. CASE t = r
      <4>1. req'[t] = s
        BY <1>3, <2>6, <3>1
      <4>2. CASE s = NoRequest
        BY <4>1, <4>2 DEF Sound, NoRequest
      <4> QED  BY <1>2, <2>6, <4>1, <4>2 DEF Sound
    <3>2. CASE t # r
      <4>1. req'[t] = req[t] /\ Sound(req[t]) /\ req[t].key \in Key
        BY <1>3, <2>6, <3>2 DEF PlaneInv, RequestsSound, TypeOK, RequestState
      <4> QED
        BY <2>1, <2>3, <2>4, <4>1 DEF Sound, Admitted, IsMember, Founded, AdmissibleLogin
    <3> QED  BY <3>1, <3>2
  <2>8. ASSUME NEW t \in Request, NEW v, Respects(req[t], v) PROVE Respects(req'[t], v)
    <3>1. req'[t] = IF t = r THEN s ELSE req[t]
      BY <1>3, <2>6
    <3> QED
      BY <2>6, <2>8, <3>1, NoRequestSound DEF Respects, MayOverwrite
  <2>9. SuspensionInv'
    BY <2>1, <2>8 DEF PlaneInv, SuspensionInv, Respects, MayOverwrite
  <2> QED
    BY <2>2, <2>5, <2>7, <2>9 DEF PlaneInv, RequestsSound
<1> QED
  BY <1>4, <1>5, <1>6, <1>7, <1>8, <1>9, <1>10 DEF Continue

\* Every step keeps the invariant.
LEMMA NextInv == TypeOK /\ PlaneInv /\ [Next]_vars => PlaneInv'
<1> SUFFICES ASSUME TypeOK, PlaneInv, [Next]_vars PROVE PlaneInv'
  OBVIOUS
<1>1. TypeOK'
  BY NextType
<1>2. CASE UNCHANGED vars \/ Tick
  <2>1. UNCHANGED <<storeVars, session, req, barred, overtaken>>
    BY <1>2 DEF vars, Tick
  <2> QED
    BY <2>1 DEF storeVars, PlaneInv, NoEscalation, AdmittedOnly, InvitationNotBurnt,
       EnrolledInOrder, RequestsSound, SuspensionInv, Sound, Respects, MayOverwrite, Admitted,
       IsMember, Founded, AdmissibleLogin
<1>3. ASSUME NEW u \in User, LoginMember(u) \/ RefreshSession(u) PROVE PlaneInv'
  <2>1. UNCHANGED <<storeVars, req, barred, overtaken>> /\ session' = [session EXCEPT ![u] = now + Ttl]
    BY <1>3 DEF LoginMember, RefreshSession, Cookie
  <2>2. IsMember(u) /\ AdmissibleLogin(u, u \in SsoUser)
    BY <1>3 DEF LoginMember, RefreshSession, authorize_login, IsMember, AdmissibleLogin
  <2>3. AdmittedOnly'
    BY <2>1, <2>2 DEF TypeOK, PlaneInv, AdmittedOnly, IsMember, AdmissibleLogin, storeVars
  <2>4. (NoEscalation /\ InvitationNotBurnt /\ EnrolledInOrder)'
    BY <2>1 DEF storeVars, PlaneInv, NoEscalation, InvitationNotBurnt, EnrolledInOrder, IsMember,
       Founded
  <2>5. (RequestsSound /\ SuspensionInv)'
    BY <2>1 DEF storeVars, PlaneInv, RequestsSound, SuspensionInv, Sound, Respects, MayOverwrite,
       Admitted, IsMember, Founded, AdmissibleLogin
  <2> QED
    BY <2>3, <2>4, <2>5 DEF PlaneInv
<1>4. ASSUME NEW u \in User, Logout(u) PROVE PlaneInv'
  <2>1. UNCHANGED <<storeVars, req, barred, overtaken>> /\ session' = [session EXCEPT ![u] = 0]
    BY <1>4 DEF Logout
  <2>2. AdmittedOnly'
    BY <2>1 DEF TypeOK, PlaneInv, AdmittedOnly, IsMember, AdmissibleLogin, storeVars
  <2>3. (NoEscalation /\ InvitationNotBurnt /\ EnrolledInOrder)'
    BY <2>1 DEF storeVars, PlaneInv, NoEscalation, InvitationNotBurnt, EnrolledInOrder, IsMember,
       Founded
  <2>4. (RequestsSound /\ SuspensionInv)'
    BY <2>1 DEF storeVars, PlaneInv, RequestsSound, SuspensionInv, Sound, Respects, MayOverwrite,
       Admitted, IsMember, Founded, AdmissibleLogin
  <2> QED
    BY <2>2, <2>3, <2>4 DEF PlaneInv
<1> QED
  BY <1>1, <1>2, <1>3, <1>4, BeginInv, ContinueInv DEF Next

----------------------------------------------------------------------------
\* The types and PlaneInv hold in every reachable state.
LEMMA PlaneInvariant == Spec => [](TypeOK /\ PlaneInv)
<1>1. Init => TypeOK /\ PlaneInv
  BY InitType, InitInv
<1>2. TypeOK /\ PlaneInv /\ [Next]_vars => (TypeOK /\ PlaneInv)'
  BY NextType, NextInv
<1> QED
  BY <1>1, <1>2, PTL DEF Spec

\* Whatever requests run concurrently and wherever they break off: nobody
\* rises above the most senior founder (the role checks of invite_member and
\* change_role).
THEOREM PlaneSafe == Spec => []NoEscalation
<1>1. PlaneInv => NoEscalation
  BY DEF PlaneInv
<1> QED
  BY <1>1, PlaneInvariant, PTL

\* Membership and cookies go only to the invited who satisfy the workspace's
\* rules (console_login, refresh_session).
THEOREM Admission == Spec => []AdmittedOnly
<1>1. PlaneInv => AdmittedOnly
  BY DEF PlaneInv
<1> QED
  BY <1>1, PlaneInvariant, PTL

\* Wherever a login or an enrollment breaks off, no invitation is spent without a
\* member, and no certificate is on record for a key the audit ledger or the store
\* does not know (console_login, complete_enrollment).
THEOREM BreakOffSafe == Spec => []NothingHalfDone
<1>1. TypeOK /\ PlaneInv => NothingHalfDone
  BY DEF PlaneInv, NothingHalfDone
<1> QED
  BY <1>1, PlaneInvariant, PTL

\* A suspension by the directory lasts until somebody restores the user, except
\* when a request that had read the membership before is still to write it.
THEOREM SuspensionLasts == Spec => []SuspensionSticks
<1>1. PlaneInv => SuspensionSticks
  BY DEF PlaneInv, SuspensionInv, SuspensionSticks
<1> QED
  BY <1>1, PlaneInvariant, PTL
=============================================================================
