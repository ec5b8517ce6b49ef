---------------------------- MODULE ControlPlane ----------------------------
(***************************************************************************)
(* The gateway's control plane for one workspace: members, invitations,    *)
(* sessions and devices (clave-gateway/src/gateway.rs over Store, with the *)
(* rules of clave-identity/src/authz.rs).                                  *)
(*                                                                         *)
(* Handlers run concurrently and hold no lock across an await: what one    *)
(* reads from the store may be out of date when it writes.  A request is   *)
(* therefore a sequence of steps, one per call of the store whose result   *)
(* or effect another request can see, and may end before any of them (the  *)
(* store fails, the client goes away).  A request that is denied changes   *)
(* nothing.  The workspace and the identity of its users do not change.    *)
(***************************************************************************)
EXTENDS Integers

CONSTANTS User,         \* users, each standing for id and email address
          Founder,      \* the users who are members from the start
          FounderRole,  \* their roles
          DomainUser,   \* the users whose address is in an allowed domain
          SsoUser,      \* the users the identity provider can verify by SSO
          SsoRequired,  \* Workspace.sso = Required
          Key,          \* public keys of devices
          Request,      \* slots for concurrent requests
          MaxRequests,  \* bound on the requests that are more than one step
          MaxTime,      \* bound on the clock
          Ttl           \* SESSION_TTL_SECS, in units of the clock

\* Role, in its derived order.
Member == 1
Admin == 2
Owner == 3
Role == Member..Owner

ASSUME PlaneAssumption ==
  /\ Founder \subseteq User /\ FounderRole \in [User -> Role]
  /\ DomainUser \subseteq User /\ SsoUser \subseteq User
  /\ SsoRequired \in BOOLEAN /\ User # {} /\ Key # {}
  /\ MaxRequests \in Nat /\ MaxTime \in Nat \ {0} /\ Ttl \in Nat

VARIABLES
  membership,   \* per user
  invitation,   \* per user
  session,      \* per user: expires_at of the latest cookie, 0 for none
  device,       \* per key
  registered,   \* the keys the audit ledger knows
  certified,    \* the keys with a certificate fingerprint on record
  req,          \* per slot: the request under way
  begun,        \* auxiliary: how many there have been
  now,
  barred,       \* auxiliary: users suspended by the directory, since not restored
  overtaken     \* auxiliary: those of them an older request could still write

storeVars == <<membership, invitation, device, registered, certified>>
vars == <<storeVars, session, req, begun, now, barred, overtaken>>

Membership == [role : Role, status : {"none", "active", "suspended"}]
Invitation == [role : Role, expires_at : 0..MaxTime, state : {"none", "open", "accepted"}]
Device == [status : {"none", "active", "locked", "wiped"}, enrolled_by : User]
Kind == {"login", "invite", "role", "suspend", "restore", "deactivate", "activate",
         "lock", "wipe", "enroll"}
\* The store call a request makes next.
Pc == {"idle", "invitation", "target", "put", "mark", "status", "record", "register", "certify"}
\* What a request holds between two steps: the caller's role as it was authorized,
\* whether SSO was verified, when it began (or when the invitation it writes
\* expires), the user, role and key it is about, the membership it will put.
RequestState ==
  [kind : Kind, pc : Pc, ctx : Role, verified : BOOLEAN, at : 1..MaxTime, on : User,
   arg : Role, m : Membership, key : Key]

NoMembership == [role |-> Member, status |-> "none"]
AnyUser == CHOOSE u \in User : TRUE
AnyKey == CHOOSE k \in Key : TRUE
NoRequest == [kind |-> "login", pc |-> "idle", ctx |-> Member, verified |-> FALSE, at |-> 1,
              on |-> AnyUser, arg |-> Member, m |-> NoMembership, key |-> AnyKey]

TypeOK ==
  /\ membership \in [User -> Membership]
  /\ invitation \in [User -> Invitation]
  /\ session \in [User -> 0..(MaxTime + Ttl)]
  /\ device \in [Key -> Device]
  /\ registered \subseteq Key /\ certified \subseteq Key
  /\ req \in [Request -> RequestState]
  /\ begun \in 0..MaxRequests /\ now \in 1..MaxTime
  /\ barred \subseteq User /\ overtaken \subseteq User

IsMember(u) == membership[u].status # "none"

Init ==
  /\ membership = [u \in User |-> IF u \in Founder
                                THEN [role |-> FounderRole[u], status |-> "active"]
                                ELSE NoMembership]
  /\ invitation = [u \in User |-> [role |-> Member, expires_at |-> 0, state |-> "none"]]
  /\ session = [u \in User |-> 0]
  /\ device = [k \in Key |-> [status |-> "none", enrolled_by |-> AnyUser]]
  /\ registered = {} /\ certified = {}
  /\ req = [r \in Request |-> NoRequest]
  /\ begun = 0 /\ now = 1
  /\ barred = {} /\ overtaken = {}

----------------------------------------------------------------------------
\* The rules of clave-identity.

min_role(action) ==
  IF action = "AdministerWorkspace" THEN Owner
  ELSE IF action = "EnrollDevice" THEN Member ELSE Admin
can(role, action) == role >= min_role(action)

AdmissibleLogin(u, verified) == u \in DomainUser /\ (SsoRequired => verified)

authorize_login(u, verified, m) == AdmissibleLogin(u, verified) /\ m.status = "active"

authorize_enrollment(m) == m.status = "active"

\* Mutant: the SSO mode is not checked.
AcceptUnverified(u, verified, inv, at) ==
  inv.state # "accepted" /\ at <= inv.expires_at /\ u \in DomainUser

accept_invitation(u, verified, inv, at) ==
  inv.state # "accepted" /\ at <= inv.expires_at /\ AdmissibleLogin(u, verified)

----------------------------------------------------------------------------
\* console_login, in slot r.

Idle(r) == req[r].pc = "idle"
At(r, pc) == req[r].pc = pc
Begins(r, q) == /\ Idle(r) /\ begun < MaxRequests
                /\ req' = [req EXCEPT ![r] = q] /\ begun' = begun + 1
Goes(r, q) == req' = [req EXCEPT ![r] = q] /\ UNCHANGED begun
Ends(r) == Goes(r, NoRequest)

\* The session is sealed into a cookie for user u.
Cookie(u, at) == session' = [session EXCEPT ![u] = at + Ttl]

\* The user is a member already.
LoginMember(u) ==
  /\ IsMember(u)
  /\ \E verified \in BOOLEAN : (verified => u \in SsoUser)
                               /\ authorize_login(u, verified, membership[u])
  /\ Cookie(u, now)
  /\ UNCHANGED <<storeVars, req, begun, now, barred, overtaken>>

\* The user is none; an invitation will be looked up.
LoginStranger(r, u) ==
  /\ ~IsMember(u)
  /\ \E verified \in BOOLEAN :
       /\ verified => u \in SsoUser
       /\ Begins(r, [NoRequest EXCEPT !.pc = "invitation", !.verified = verified,
                                    !.at = now, !.on = u])
  /\ UNCHANGED <<storeVars, session, now, barred, overtaken>>

\* Mutant: the invitation is marked before the membership is written.
LoginInvitationMarks(r) ==
  /\ At(r, "invitation")
  /\ LET u == req[r].on
         inv == invitation[u]
     IN IF inv.state # "none" /\ accept_invitation(u, req[r].verified, inv, req[r].at)
        THEN /\ invitation' = [invitation EXCEPT ![u].state = "accepted"]
             /\ Goes(r, [req[r] EXCEPT !.pc = "put",
                                       !.m = [role |-> inv.role, status |-> "active"]])
        ELSE Ends(r) /\ UNCHANGED invitation
  /\ UNCHANGED <<membership, device, registered, certified, session, now, barred, overtaken>>

\* The invitation is read and accepted, or the login is refused.
LoginInvitation(r) ==
  /\ At(r, "invitation")
  /\ LET u == req[r].on
         inv == invitation[u]
     IN IF inv.state # "none" /\ accept_invitation(u, req[r].verified, inv, req[r].at)
        THEN Goes(r, [req[r] EXCEPT !.pc = "put",
                                    !.m = [role |-> inv.role, status |-> "active"]])
        ELSE Ends(r)
  /\ UNCHANGED <<storeVars, session, now, barred, overtaken>>

\* mark_invitation_accepted, whichever invitation is there by now.  Then the
\* session is issued: authorize_login repeats what accept_invitation checked.
LoginMark(r) ==
  /\ At(r, "mark")
  /\ LET u == req[r].on
     IN /\ invitation' = [invitation EXCEPT ![u].state = IF @ = "none" THEN @ ELSE "accepted"]
        /\ IF authorize_login(u, req[r].verified, req[r].m)
           THEN Cookie(u, req[r].at) ELSE UNCHANGED session
  /\ Ends(r)
  /\ UNCHANGED <<membership, device, registered, certified, now, barred, overtaken>>

\* auth_me refreshes a session only when authorize_request finds it expired.
Expired(u) == session[u] # 0 /\ now > session[u]

RefreshSession(u) ==
  /\ Expired(u)
  /\ \E verified \in BOOLEAN : (verified => u \in SsoUser)
                               /\ authorize_login(u, verified, membership[u])
  /\ Cookie(u, now)
  /\ UNCHANGED <<storeVars, req, begun, now, barred, overtaken>>

\* The browser is told to drop its cookie.
Logout(u) ==
  /\ session[u] # 0
  /\ session' = [session EXCEPT ![u] = 0]
  /\ UNCHANGED <<storeVars, req, begun, now, barred, overtaken>>

----------------------------------------------------------------------------
\* The requests of administrators.

\* authorize_request: a cookie that has not expired, and an active member.
authorize_request(u) == session[u] # 0 /\ now <= session[u] /\ membership[u].status = "active"

\* A request of administrator u, just authorized.
AdminRequest(kind, pc, u, on) ==
  [NoRequest EXCEPT !.kind = kind, !.pc = pc, !.ctx = membership[u].role, !.on = on]

\* Mutant: the invited role is not compared with the caller's.
InviteAnyRole(r, u, on, role, expires_at) ==
  /\ authorize_request(u)
  /\ can(membership[u].role, "ManageMembers")
  /\ Begins(r, [AdminRequest("invite", "put", u, on) EXCEPT !.arg = role, !.at = expires_at])
  /\ UNCHANGED <<storeVars, session, now, barred, overtaken>>

\* invite_member, up to put_invitation.
Invite(r, u, on, role, expires_at) ==
  /\ authorize_request(u)
  /\ can(membership[u].role, "ManageMembers") /\ role <= membership[u].role
  /\ Begins(r, [AdminRequest("invite", "put", u, on) EXCEPT !.arg = role, !.at = expires_at])
  /\ UNCHANGED <<storeVars, session, now, barred, overtaken>>

\* change_role, up to target_membership.
ChangeRole(r, u, on, role) ==
  /\ authorize_request(u)
  /\ can(membership[u].role, "ChangeRoles") /\ role <= membership[u].role
  /\ Begins(r, [AdminRequest("role", "target", u, on) EXCEPT !.arg = role])
  /\ UNCHANGED <<storeVars, session, now, barred, overtaken>>

\* set_member_status for suspend_member and restore_member.
SetMemberStatus(r, u, on, kind) ==
  /\ authorize_request(u)
  /\ can(membership[u].role, "ManageMembers")
  /\ Begins(r, AdminRequest(kind, "target", u, on))
  /\ UNCHANGED <<storeVars, session, now, barred, overtaken>>

\* Mutant: a change of role writes a fresh, active membership.
EditedFresh(kind, arg, m) ==
  [role |-> IF kind = "role" THEN arg ELSE m.role,
   status |-> IF kind \in {"suspend", "deactivate"} THEN "suspended" ELSE "active"]

\* The membership as the request wants it.
Edited(kind, arg, m) ==
  [role |-> IF kind = "role" THEN arg ELSE m.role,
   status |-> CASE kind \in {"suspend", "deactivate"} -> "suspended"
                [] kind \in {"restore", "activate"} -> "active"
                [] OTHER -> m.status]

\* target_membership, and the check that the target is not more senior.
ReadTarget(r) ==
  /\ At(r, "target")
  /\ LET q == req[r]
         m == membership[q.on]
     IN IF m.status = "none" \/ m.role > q.ctx
        THEN Ends(r)
        ELSE Goes(r, [q EXCEPT !.pc = "put", !.m = Edited(q.kind, q.arg, m)])
  /\ UNCHANGED <<storeVars, session, now, barred, overtaken>>

\* lock_device and wipe_device.
ControlDevice(r, u, k, kind) ==
  /\ authorize_request(u)
  /\ can(membership[u].role, "ControlDevice")
  /\ Begins(r, [AdminRequest(kind, "status", u, u) EXCEPT !.key = k])
  /\ UNCHANGED <<storeVars, session, now, barred, overtaken>>

set_device_status(r) ==
  /\ At(r, "status")
  /\ LET q == req[r]
     IN device' = [device EXCEPT ![q.key].status =
                     IF @ = "none" THEN @ ELSE IF q.kind = "lock" THEN "locked" ELSE "wiped"]
  /\ Ends(r)
  /\ UNCHANGED <<membership, invitation, registered, certified, session, now, barred, overtaken>>

----------------------------------------------------------------------------
\* apply_directory_event, up to put_membership.  A membership is never
\* removed, so that list_members and membership read as one step.
DirectoryEvent(r, on, kind) ==
  /\ IsMember(on)
  /\ membership[on].status # IF kind = "activate" THEN "active" ELSE "suspended"
  /\ Begins(r, [NoRequest EXCEPT !.kind = kind, !.pc = "put", !.on = on,
                               !.m = Edited(kind, Member, membership[on])])
  /\ UNCHANGED <<storeVars, session, now, barred, overtaken>>

----------------------------------------------------------------------------
\* The writes of all of these.

\* A request that read u's membership as it was, and may still put it back.
MayOverwrite(q, u) == q.pc \in {"invitation", "put"} /\ q.kind \in {"login", "role"} /\ q.on = u

put_membership(r) ==
  /\ At(r, "put") /\ req[r].kind # "invite"
  /\ LET q == req[r]
         u == q.on
     IN /\ membership' = [membership EXCEPT ![u] = q.m]
        /\ IF q.kind = "login" THEN Goes(r, [q EXCEPT !.pc = "mark"]) ELSE Ends(r)
        /\ barred' = CASE q.kind = "deactivate" -> barred \cup {u}
                       [] q.kind \in {"restore", "activate"} -> barred \ {u}
                       [] OTHER -> barred
        /\ overtaken' =
             CASE q.kind # "deactivate" -> overtaken
               [] \E s \in Request : MayOverwrite(req[s], u) -> overtaken \cup {u}
               [] OTHER -> overtaken \ {u}
  /\ UNCHANGED <<invitation, device, registered, certified, session, now>>

put_invitation(r) ==
  /\ At(r, "put") /\ req[r].kind = "invite"
  /\ invitation' = [invitation EXCEPT ![req[r].on] =
                      [role |-> req[r].arg, expires_at |-> req[r].at, state |-> "open"]]
  /\ Ends(r)
  /\ UNCHANGED <<membership, device, registered, certified, session, now, barred, overtaken>>

----------------------------------------------------------------------------
\* complete_enrollment.

\* authorize_enrollment_poll.
EnrollPoll(r, u, k) ==
  /\ authorize_enrollment(membership[u])
  /\ Begins(r, [NoRequest EXCEPT !.kind = "enroll", !.pc = "record", !.on = u, !.key = k])
  /\ UNCHANGED <<storeVars, session, now, barred, overtaken>>

\* A known key becomes active again and stays with the user who first enrolled it.
record_device(r) ==
  /\ At(r, "record")
  /\ LET q == req[r]
     IN /\ device' = [device EXCEPT ![q.key] =
                        IF @.status = "none" THEN [status |-> "active", enrolled_by |-> q.on]
                        ELSE [@ EXCEPT !.status = "active"]]
        /\ Goes(r, [q EXCEPT !.pc = "register"])
  /\ UNCHANGED <<membership, invitation, registered, certified, session, now, barred, overtaken>>

register_device(r) ==
  /\ At(r, "register")
  /\ registered' = registered \cup {req[r].key}
  /\ Goes(r, [req[r] EXCEPT !.pc = "certify"])
  /\ UNCHANGED <<membership, invitation, device, certified, session, now, barred, overtaken>>

\* Policy and volume key are issued and the certificate's fingerprint is stored.
set_device_fingerprint(r) ==
  /\ At(r, "certify")
  /\ certified' = certified \cup {req[r].key}
  /\ Ends(r)
  /\ UNCHANGED <<membership, invitation, device, registered, session, now, barred, overtaken>>

----------------------------------------------------------------------------
\* The request ends early: the store, the issuer or the CA returns an error,
\* or the client goes away and the handler is dropped at an await.
Abort(r) ==
  /\ ~Idle(r) /\ Ends(r)
  /\ UNCHANGED <<storeVars, session, now, barred, overtaken>>

Tick ==
  /\ now < MaxTime /\ now' = now + 1
  /\ UNCHANGED <<storeVars, session, req, begun, barred, overtaken>>

\* The routes by which a request comes in.
AdminMembers(r, u) ==
  \/ \E on \in User, role \in Role, t \in 1..MaxTime : Invite(r, u, on, role, t)
  \/ \E on \in User, role \in Role : ChangeRole(r, u, on, role)
  \/ \E on \in User, kind \in {"suspend", "restore"} : SetMemberStatus(r, u, on, kind)

AdminDevices(r, u) == \E k \in Key, kind \in {"lock", "wipe"} : ControlDevice(r, u, k, kind)

ScimEvents(r, u) == \E kind \in {"activate", "deactivate"} : DirectoryEvent(r, u, kind)

Begin(r) ==
  \E u \in User :
    \/ LoginStranger(r, u) \/ AdminMembers(r, u) \/ AdminDevices(r, u) \/ ScimEvents(r, u)
    \/ \E k \in Key : EnrollPoll(r, u, k)

Continue(r) ==
  \/ LoginInvitation(r) \/ LoginMark(r)
  \/ ReadTarget(r) \/ put_membership(r) \/ put_invitation(r) \/ set_device_status(r)
  \/ record_device(r) \/ register_device(r) \/ set_device_fingerprint(r)
  \/ Abort(r)

Next ==
  \/ \E u \in User : LoginMember(u) \/ RefreshSession(u) \/ Logout(u)
  \/ \E r \in Request : Begin(r) \/ Continue(r)
  \/ Tick

Spec == Init /\ [][Next]_vars

----------------------------------------------------------------------------
\* Nobody rises above the most senior founder, whatever is invited, granted,
\* restored or put back late: "only an Owner may mint another Owner".
Founded(role) == \E f \in Founder : role <= FounderRole[f]

NoEscalation ==
  \A u \in User : /\ IsMember(u) => Founded(membership[u].role)
                  /\ invitation[u].state # "none" => Founded(invitation[u].role)

\* Who is not a founder came by an invitation and satisfied the workspace's
\* domains and SSO mode; nobody has a cookie who does not satisfy them.
AdmittedOnly ==
  \A u \in User :
    /\ IsMember(u) => \/ u \in Founder
                      \/ invitation[u].state # "none" /\ AdmissibleLogin(u, u \in SsoUser)
    /\ session[u] # 0 => IsMember(u) /\ AdmissibleLogin(u, u \in SsoUser)

\* A login that fails half way does not use the invitation up: an accepted
\* invitation belongs to a member.
InvitationNotBurnt == \A u \in User : invitation[u].state = "accepted" => IsMember(u)

\* A device that can connect is known to the audit ledger, and was enrolled by a member,
\* wherever an enrollment breaks off.
EnrolledInOrder ==
  /\ certified \subseteq registered
  /\ \A k \in registered : device[k].status # "none"
  /\ \A k \in Key : device[k].status # "none" => IsMember(device[k].enrolled_by)

\* A user suspended by the directory stays so until restored, unless a
\* request that had read the membership before was still under way.
SuspensionSticks == \A u \in barred \ overtaken : membership[u].status = "suspended"

\* A request that breaks off at any await leaves nothing half done that somebody
\* could use: no invitation spent without a member, no certificate without a device.
NothingHalfDone == TypeOK /\ InvitationNotBurnt /\ EnrolledInOrder

=============================================================================
