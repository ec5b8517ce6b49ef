--------------------------- MODULE GatewayStores ---------------------------
(***************************************************************************)
(* What the gateway keeps: the Store (MemStore in clave-gateway/src/store.rs*)
(* and PgStore in postgres.rs), the AuditLedger in memory (audit_ingest.rs)*)
(* and the AuditStore behind it (MemAuditStore, PgAuditStore), with the    *)
(* handlers that keep them in step: Gateway::ingest_device_audit,          *)
(* ::complete_enrollment and ::hydrate_audit (gateway.rs).                 *)
(*                                                                         *)
(* The in-memory stores of the tests and the PostgreSQL stores of the      *)
(* server are driven by the same calls, each keeping its own identifiers,  *)
(* so that their answers can be compared.  A call of a store is one step:  *)
(* one locked section, one SQL statement, or one transaction that holds    *)
(* the row of the chain it updates.                                        *)
(***************************************************************************)
EXTENDS Naturals, Sequences, FiniteSets, AuditChain

CONSTANTS Workspace, Email,
          Enrolling,   \* the workspaces that devices enroll in
          Request,     \* handlers running at once
          Owner,       \* the user who enrolled the first device
          MaxWork,     \* bound on the work done: 2 for a request, 3 for a call of a handler
                       \* of the console
          Memberships, \* the role and status pairs the console assigns
          MaxStoreFaults,   \* bound on the number of faults
          StoreFaults,      \* the faults that may happen (see StoreFaultKind)
          MaxEvents    \* bound on the events the devices record

StoreFaultKind == {"store",      \* a call of the audit store fails, or its handler is dropped
              "restart",    \* the gateway restarts
              "hydrate",    \* the gateway restarts and load_chains fails
              "spool"}      \* the daemon restarts with an empty spool

Role == {"Owner", "Admin", "Member"}
MembershipStatus == {"Invited", "Active", "Suspended"}
DeviceStatus == {"Pending", "Active", "Locked", "Wiped"}

ASSUME StoresAssumption ==
  /\ Key # {} /\ Owner \in Email /\ Enrolling # {} /\ Enrolling \subseteq Workspace
  /\ StoreFaults \subseteq StoreFaultKind
  /\ Memberships \subseteq Role \X MembershipStatus
  /\ MaxWork \in Nat /\ MaxStoreFaults \in Nat /\ MaxEvents \in Nat

VARIABLES mem,        \* MemStore's Inner
          pg,         \* PgStore's tables
          ledger,     \* AuditLedger: chains, verified, alerts
          memAudit,   \* MemAuditState: chains, events, alerts
          pgAudit,    \* audit_chain, audit_event, audit_alert
          req,        \* the handlers under way
          spool,      \* the chain each device key has built
          emitted,    \* auxiliary: what each key ever put in its spool, and where
          excused,    \* auxiliary: devices whose store call failed or whose requests overlapped
          reused,     \* auxiliary: devices registered more than once
          work, nstorefaults

storeVars == <<mem, pg>>
auditVars == <<ledger, memAudit, pgAudit>>
auxVars == <<emitted, excused, reused>>
storesVars == <<storeVars, auditVars, req, spool, auxVars, work, nstorefaults>>

Put(f, k, v) == [x \in DOMAIN f \cup {k} |-> IF x = k THEN v ELSE f[x]]
Empty == << >>

-----------------------------------------------------------------------------
(* MemStore. *)

MemInit == [next_user |-> 0, next_device |-> 0, users |-> Empty, emails |-> Empty,
            memberships |-> Empty, invitations |-> Empty, devices_by_key |-> Empty,
            devices |-> Empty, device_fingerprints |-> Empty]

MemUpsertUser(s, email) ==
  IF email \in DOMAIN s.users THEN s
  ELSE [s EXCEPT !.next_user = @ + 1,
                 !.users = Put(@, email, s.next_user + 1),
                 !.emails = Put(@, s.next_user + 1, email)]

MemPutMembership(s, ws, user, role, status) ==
  [s EXCEPT !.memberships = Put(@, <<ws, user>>, [role |-> role, status |-> status])]

MemPutInvitation(s, ws, email, role, accepted) ==
  [s EXCEPT !.invitations = Put(@, <<ws, email>>, [role |-> role, accepted |-> accepted])]

MemMarkAccepted(s, ws, email) ==
  IF <<ws, email>> \in DOMAIN s.invitations
  THEN [s EXCEPT !.invitations[<<ws, email>>].accepted = TRUE] ELSE s

MemRecordDevice(s, ws, user, key) ==
  LET id == s.next_device + 1 IN
    IF <<ws, key>> \in DOMAIN s.devices_by_key
    THEN [s EXCEPT !.devices[s.devices_by_key[<<ws, key>>]].status = "Active"]
    ELSE [s EXCEPT !.next_device = id,
                   !.devices_by_key = Put(@, <<ws, key>>, id),
                   !.devices = Put(@, id, [workspace |-> ws, enrolled_by |-> user,
                                           pubkey |-> key, status |-> "Active"])]

\* NotFound for an unknown device and for a device of another workspace.
MemSetDeviceStatus(s, ws, id, status) ==
  IF id \in DOMAIN s.devices /\ s.devices[id].workspace = ws
  THEN [s EXCEPT !.devices[id].status = status] ELSE s

MemSetFingerprint(s, id, fingerprint) ==
  [s EXCEPT !.device_fingerprints = Put(@, fingerprint, id)]

\* An Option is a set of at most one answer.
MemMembership(ws, user) ==
  {mem.memberships[k] : k \in DOMAIN mem.memberships \cap {<<ws, user>>}}

MemInvitation(ws, email) ==
  {mem.invitations[k] : k \in DOMAIN mem.invitations \cap {<<ws, email>>}}

MemDevice(ws, id) ==
  {LET d == mem.devices[i]
   IN  [id |-> i, enrolled_by |-> mem.emails[d.enrolled_by], pubkey |-> d.pubkey,
        status |-> d.status] : i \in {i \in DOMAIN mem.devices \cap {id} :
                                        mem.devices[i].workspace = ws}}

\* The users of a workspace, in the order of their ids: a list is the set of its rows,
\* each with the number of rows before it.
MemMembers(ws) == {k[2] : k \in {k \in DOMAIN mem.memberships : k[1] = ws}}

MemListMembers(ws) ==
  {[at |-> Cardinality({v \in MemMembers(ws) : v < u}), email |-> mem.emails[u],
    role |-> mem.memberships[<<ws, u>>].role,
    status |-> mem.memberships[<<ws, u>>].status] : u \in MemMembers(ws)}

MemListInvitations(ws) ==
  {[email |-> k[2], role |-> mem.invitations[k].role, accepted |-> mem.invitations[k].accepted] :
     k \in {k \in DOMAIN mem.invitations : k[1] = ws}}

MemDevices(ws) == {d \in DOMAIN mem.devices : mem.devices[d].workspace = ws}

MemListDevices(ws) ==
  {[at |-> Cardinality({i \in MemDevices(ws) : i < d}), row |-> MemDevice(ws, d)] : d \in MemDevices(ws)}

-----------------------------------------------------------------------------
(* PgStore.  A role or a status is a text column; a uuid is named by the   *)
(* number of its row, which is also the order of enrolled_at.              *)

RoleTo(r) == CASE r = "Owner" -> "owner" [] r = "Admin" -> "admin" [] OTHER -> "member"
RoleFrom(s) == CASE s = "owner" -> "Owner" [] s = "admin" -> "Admin" [] OTHER -> "Member"

StatusTo(s) ==
  CASE s = "Active" -> "active" [] s = "Suspended" -> "suspended" [] OTHER -> "invited"
StatusFrom(s) ==
  CASE s = "active" -> "Active" [] s = "suspended" -> "Suspended" [] OTHER -> "Invited"

DeviceStatusTo(s) ==
  CASE s = "Pending" -> "pending" [] s = "Active" -> "active"
    [] s = "Locked" -> "locked" [] OTHER -> "wiped"
DeviceStatusFrom(s) ==
  CASE s = "pending" -> "Pending" [] s = "locked" -> "Locked"
    [] s = "wiped" -> "Wiped" [] OTHER -> "Active"

NoCert == 0

PgInit == [user_seq |-> 0, app_user |-> Empty, membership |-> Empty,
           invitation |-> Empty, device |-> Empty]

\* The sequence of app_user.id is advanced even when the row is there already.
PgUpsertUser(t, email) ==
  [t EXCEPT !.user_seq = @ + 1,
            !.app_user = IF email \in DOMAIN @ THEN @ ELSE Put(@, email, t.user_seq + 1)]

PgPutMembership(t, ws, user, role, status) ==
  [t EXCEPT !.membership =
     Put(@, <<ws, user>>, [role |-> RoleTo(role), status |-> StatusTo(status)])]

PgUpsertInvitation(t, ws, email, role, accepted) ==
  [t EXCEPT !.invitation = Put(@, <<ws, email>>, [role |-> RoleTo(role), accepted |-> accepted])]

PgMarkAccepted(t, ws, email) ==
  [t EXCEPT !.invitation = [k \in DOMAIN @ |->
     IF k = <<ws, email>> THEN [@[k] EXCEPT !.accepted = TRUE] ELSE @[k]]]

PgRow(t, ws, key) == {d \in DOMAIN t.device : t.device[d].workspace_id = ws
                                              /\ t.device[d].device_pubkey = key}

\* Mutant: a device that enrolls again keeps the status it had.
PgRecordDeviceNothing(t, ws, user, key) ==
  IF PgRow(t, ws, key) # {} THEN t
  ELSE [t EXCEPT !.device = Put(@, Cardinality(DOMAIN @) + 1,
          [workspace_id |-> ws, enrolled_by |-> user, device_pubkey |-> key,
           status |-> "active", cert_fingerprint |-> NoCert])]

\* ON CONFLICT (workspace_id, device_pubkey) the row becomes active again.
PgRecordDevice(t, ws, user, key) ==
  IF PgRow(t, ws, key) # {}
  THEN [t EXCEPT !.device = [d \in DOMAIN @ |->
          IF d \in PgRow(t, ws, key) THEN [@[d] EXCEPT !.status = "active"] ELSE @[d]]]
  ELSE [t EXCEPT !.device = Put(@, Cardinality(DOMAIN @) + 1,
          [workspace_id |-> ws, enrolled_by |-> user, device_pubkey |-> key,
           status |-> "active", cert_fingerprint |-> NoCert])]

PgSetDeviceStatus(t, ws, id, status) ==
  [t EXCEPT !.device = [d \in DOMAIN @ |->
     IF d = id /\ @[d].workspace_id = ws
     THEN [@[d] EXCEPT !.status = DeviceStatusTo(status)] ELSE @[d]]]

\* The row holds one fingerprint: the one before is forgotten.
PgSetFingerprint(t, id, fingerprint) ==
  [t EXCEPT !.device = [d \in DOMAIN @ |->
     IF d = id THEN [@[d] EXCEPT !.cert_fingerprint = fingerprint] ELSE @[d]]]

PgEmail(user) == CHOOSE e \in DOMAIN pg.app_user : pg.app_user[e] = user

PgMembership(ws, user) ==
  {[role |-> RoleFrom(pg.membership[k].role), status |-> StatusFrom(pg.membership[k].status)] :
     k \in DOMAIN pg.membership \cap {<<ws, user>>}}

PgInvitation(ws, email) ==
  {[role |-> RoleFrom(pg.invitation[k].role), accepted |-> pg.invitation[k].accepted] :
     k \in DOMAIN pg.invitation \cap {<<ws, email>>}}

DeviceRecord(id) ==
  LET row == pg.device[id]
  IN  [id |-> id, enrolled_by |-> PgEmail(row.enrolled_by),
       pubkey |-> row.device_pubkey, status |-> DeviceStatusFrom(row.status)]

PgDevice(ws, id) ==
  {DeviceRecord(d) : d \in {d \in DOMAIN pg.device \cap {id} : pg.device[d].workspace_id = ws}}

PgMembers(ws) == {k[2] : k \in {k \in DOMAIN pg.membership : k[1] = ws}}

PgListMembers(ws) ==
  {[at |-> Cardinality({v \in PgMembers(ws) : v < u}), email |-> PgEmail(u),
    role |-> RoleFrom(pg.membership[<<ws, u>>].role),
    status |-> StatusFrom(pg.membership[<<ws, u>>].status)] : u \in PgMembers(ws)}

PgListInvitations(ws) ==
  {[email |-> k[2], role |-> RoleFrom(pg.invitation[k].role),
    accepted |-> pg.invitation[k].accepted] : k \in {k \in DOMAIN pg.invitation : k[1] = ws}}

PgDevices(ws) == {d \in DOMAIN pg.device : pg.device[d].workspace_id = ws}

PgListDevices(ws) ==
  {[at |-> Cardinality({i \in PgDevices(ws) : i < d}), row |-> PgDevice(ws, d)] : d \in PgDevices(ws)}

MemByFingerprint(fp) ==
  IF fp \in DOMAIN mem.device_fingerprints THEN {mem.device_fingerprints[fp]} ELSE {}

PgByFingerprint(fp) == {d \in DOMAIN pg.device : pg.device[d].cert_fingerprint = fp}

-----------------------------------------------------------------------------
(* The audit stores. *)

Fresh(key) == [public_key |-> key, next_seq |-> 1, head |-> GENESIS]

MemAuditRegister(s, d, key) == [s EXCEPT !.chains = Put(@, d, Fresh(key))]

MemAuditAppend(s, d, entries, next_seq, head) ==
  [s EXCEPT !.chains = IF d \in DOMAIN @
                       THEN [@ EXCEPT ![d].next_seq = next_seq, ![d].head = head] ELSE @,
            !.events = @ \o [i \in DOMAIN entries |-> <<d, entries[i].seq, entries[i].event>>]]

\* Mutant: a chain that is there already is left as it is.
PgAuditRegisterNothing(t, d) ==
  IF d \in DOMAIN t.audit_chain THEN t
  ELSE [t EXCEPT !.audit_chain = Put(@, d, [next_seq |-> 1, head |-> GENESIS])]

PgAuditRegister(t, d) ==
  [t EXCEPT !.audit_chain = Put(@, d, [next_seq |-> 1, head |-> GENESIS])]

\* One transaction.  The chain is updated if there is one; an event whose number
\* is taken is dropped (ON CONFLICT (device_id, seq) DO NOTHING).
PgAuditAppend(t, d, entries, next_seq, head) ==
  LET rows == {<<d, entries[i].seq>> : i \in DOMAIN entries}
      inserted(k) == entries[CHOOSE i \in DOMAIN entries : entries[i].seq = k[2]].event
  IN  [t EXCEPT !.audit_chain = IF d \in DOMAIN @
                                THEN [@ EXCEPT ![d] = [next_seq |-> next_seq, head |-> head]]
                                ELSE @,
                !.audit_event = [k \in DOMAIN @ \cup rows |->
                                   IF k \in DOMAIN @ THEN @[k] ELSE inserted(k)]]

\* load_chains joins the chain with the key of the device's row.
PgLoadChains ==
  [d \in DOMAIN pgAudit.audit_chain \cap DOMAIN pg.device |->
     [public_key |-> pg.device[d].device_pubkey, next_seq |-> pgAudit.audit_chain[d].next_seq,
      head |-> pgAudit.audit_chain[d].head]]

-----------------------------------------------------------------------------
(* Initially a workspace's owner has enrolled one device. *)

Idle == [pc |-> "idle"]
FirstKey == CHOOSE k \in Key : TRUE
FirstWorkspace == CHOOSE ws \in Enrolling : TRUE

StoresInit ==
  /\ mem = MemRecordDevice(MemUpsertUser(MemInit, Owner), FirstWorkspace, 1, FirstKey)
  /\ pg = PgRecordDevice(PgUpsertUser(PgInit, Owner), FirstWorkspace, 1, FirstKey)
  /\ ledger = [chains |-> Put(Empty, 1, Fresh(FirstKey)), verified |-> << >>, alerts |-> << >>]
  /\ memAudit = MemAuditRegister([chains |-> Empty, events |-> << >>, alerts |-> << >>],
                                 1, FirstKey)
  /\ pgAudit = PgAuditRegister([audit_chain |-> Empty, audit_event |-> Empty,
                                audit_alert |-> << >>], 1)
  /\ req = [r \in Request |-> Idle]
  /\ spool = [k \in Key |-> GENESIS]
  /\ emitted = {} /\ excused = {} /\ reused = {}
  /\ work = 0 /\ nstorefaults = 0

Work(n) == work + n <= MaxWork /\ work' = work + n
Call == Work(3)
StoreFault(kind) == kind \in StoreFaults /\ nstorefaults < MaxStoreFaults /\ nstorefaults' = nstorefaults + 1

InFlight(d) == \E r \in Request : req[r] # Idle /\ req[r].device = d
Excuse(d) == excused' = IF InFlight(d) THEN excused \cup {d} ELSE excused

-----------------------------------------------------------------------------
(* Calls of the Store by the handlers of the console and of the directory. *)
(* A user named in a call was returned by the store, each naming its own.  *)

Others == <<auditVars, req, spool, auxVars, nstorefaults>>

UpsertUser(email) ==
  /\ Call
  /\ mem' = MemUpsertUser(mem, email) /\ pg' = PgUpsertUser(pg, email)
  /\ UNCHANGED Others

PutMembership(ws, email, role, status) ==
  /\ email \in DOMAIN mem.users /\ Call
  /\ mem' = MemPutMembership(mem, ws, mem.users[email], role, status)
  /\ pg' = PgPutMembership(pg, ws, pg.app_user[email], role, status)
  /\ UNCHANGED Others

PutInvitation(ws, email, role) ==
  /\ Call
  /\ mem' = MemPutInvitation(mem, ws, email, role, FALSE)
  /\ pg' = PgUpsertInvitation(pg, ws, email, role, FALSE)
  /\ UNCHANGED Others

MarkInvitationAccepted(ws, email) ==
  /\ Call
  /\ mem' = MemMarkAccepted(mem, ws, email) /\ pg' = PgMarkAccepted(pg, ws, email)
  /\ UNCHANGED Others

SetDeviceStatus(ws, id, status) ==
  /\ Call
  /\ mem' = MemSetDeviceStatus(mem, ws, id, status)
  /\ pg' = PgSetDeviceStatus(pg, ws, id, status)
  /\ UNCHANGED Others

-----------------------------------------------------------------------------
(* complete_enrollment: the store, the ledger, the audit store (whose error*)
(* is ignored), the certificate.                                           *)

EnrollRecord(r, ws, email, key) ==
  /\ req[r] = Idle /\ email \in DOMAIN mem.users /\ Work(2)
  /\ mem' = MemRecordDevice(mem, ws, mem.users[email], key)
  /\ pg' = PgRecordDevice(pg, ws, pg.app_user[email], key)
  /\ LET d == mem'.devices_by_key[<<ws, key>>] IN
       /\ req' = [req EXCEPT ![r] = [pc |-> "register", device |-> d, key |-> key]]
       /\ Excuse(d)
  /\ UNCHANGED <<auditVars, spool, emitted, reused, nstorefaults>>

Known(d) == d \in DOMAIN ledger.chains \cup DOMAIN memAudit.chains
                  \cup {k[1] : k \in DOMAIN pgAudit.audit_event}

EnrollRegister(r) ==
  /\ req[r].pc = "register"
  /\ ledger' = [ledger EXCEPT !.chains = Put(@, req[r].device, Fresh(req[r].key))]
  /\ req' = [req EXCEPT ![r].pc = "persist"]
  /\ reused' = IF Known(req[r].device) THEN reused \cup {req[r].device} ELSE reused
  /\ UNCHANGED <<storeVars, memAudit, pgAudit, spool, emitted, excused, work, nstorefaults>>

EnrollPersist(r) ==
  /\ req[r].pc = "persist" /\ req' = [req EXCEPT ![r].pc = "certify"]
  /\ LET d == req[r].device IN
       \/ /\ memAudit' = MemAuditRegister(memAudit, d, req[r].key)
          /\ pgAudit' = PgAuditRegister(pgAudit, d)
          /\ UNCHANGED <<excused, nstorefaults>>
       \/ StoreFault("store") /\ excused' = excused \cup {d} /\ UNCHANGED <<memAudit, pgAudit>>
  /\ UNCHANGED <<storeVars, ledger, spool, emitted, reused, work>>

\* A certificate is new each time; without an issuer, or when it fails, there is none.
EnrollCertify(r) ==
  /\ req[r].pc = "certify" /\ req' = [req EXCEPT ![r] = Idle]
  /\ \/ UNCHANGED storeVars
     \/ LET fp == Cardinality(DOMAIN mem.device_fingerprints) + 1 IN
          /\ mem' = MemSetFingerprint(mem, req[r].device, fp)
          /\ pg' = PgSetFingerprint(pg, req[r].device, fp)
  /\ UNCHANGED <<auditVars, spool, auxVars, work, nstorefaults>>

-----------------------------------------------------------------------------
(* ingest_device_audit, called by the link of a device and by /audit/ingest.*)

EmitEvent(key, event) ==
  /\ LET seq == Len(spool[key]) + 1 IN
       /\ spool' = [spool EXCEPT ![key] = EntryHash(seq, @, event)]
       /\ emitted' = emitted \cup {<<key, seq, event>>}
       /\ Cardinality(emitted') <= MaxEvents
  /\ UNCHANGED <<storeVars, auditVars, req, excused, reused, work, nstorefaults>>

\* The entries j + 1 to i of the device's chain, signed at i.
Batch(key, j, i) == SignBatch(key, EntriesAfter(SubSeq(spool[key], 1, i), j),
                              SubSeq(spool[key], 1, i))

\* AuditLedger::ingest, under the lock of the chains.
LedgerIngest(d, batch) ==
  LET chain == ledger.chains[d]
      error == VerifyBatch(chain.head, chain.next_seq, batch, chain.public_key)
  IN  IF error # "Ok"
      THEN [ledger EXCEPT !.alerts = Append(@, <<d, AlertKind(error)>>)]
      ELSE [ledger EXCEPT
              !.chains[d].next_seq = @ + Len(batch.entries),
              !.chains[d].head = Running(chain.head, batch.entries, Len(batch.entries) + 1),
              !.verified = @ \o [i \in DOMAIN batch.entries |-> <<d, batch.entries[i].event>>]]

Admitted(d, batch) ==
  /\ d \in DOMAIN ledger.chains
  /\ VerifyBatch(ledger.chains[d].head, ledger.chains[d].next_seq, batch,
                 ledger.chains[d].public_key) = "Ok"

ingest_device_audit(r, d, batch) ==
  /\ req[r] = Idle /\ Work(2) /\ Excuse(d)
  /\ ledger' = IF d \in DOMAIN ledger.chains THEN LedgerIngest(d, batch) ELSE ledger
  /\ req' = [req EXCEPT ![r] =
       IF Admitted(d, batch)
       THEN [pc |-> "position", device |-> d, entries |-> batch.entries]
       ELSE [pc |-> "alert", device |-> d]]
  /\ UNCHANGED <<storeVars, memAudit, pgAudit, spool, emitted, reused, nstorefaults>>

ChainOf(d) == IF d \in DOMAIN ledger.chains THEN ledger.chains[d]
              ELSE [next_seq |-> 1, head |-> GENESIS]

\* The position and the head are read under two locks, after a third was released.
high_water(r) ==
  /\ req[r].pc = "position"
  /\ req' = [req EXCEPT ![r] = [pc |-> "head", next_seq |-> ChainOf(req[r].device).next_seq,
                                device |-> req[r].device, entries |-> req[r].entries]]
  /\ UNCHANGED <<storeVars, auditVars, spool, auxVars, work, nstorefaults>>

head_for(r) ==
  /\ req[r].pc = "head"
  /\ req' = [req EXCEPT ![r] = [pc |-> "append", head |-> ChainOf(req[r].device).head,
                                next_seq |-> req[r].next_seq, device |-> req[r].device,
                                entries |-> req[r].entries]]
  /\ UNCHANGED <<storeVars, auditVars, spool, auxVars, work, nstorefaults>>

\* An error is printed; the device is told that its events were admitted.
AppendAudit(r) ==
  /\ req[r].pc = "append" /\ req' = [req EXCEPT ![r] = Idle]
  /\ LET d == req[r].device IN
       \/ /\ memAudit' = MemAuditAppend(memAudit, d, req[r].entries, req[r].next_seq, req[r].head)
          /\ pgAudit' = PgAuditAppend(pgAudit, d, req[r].entries, req[r].next_seq, req[r].head)
          /\ UNCHANGED <<excused, nstorefaults>>
       \/ StoreFault("store") /\ excused' = excused \cup {d} /\ UNCHANGED <<memAudit, pgAudit>>
  /\ UNCHANGED <<storeVars, ledger, spool, emitted, reused, work>>

\* The latest alert of the device is looked up again, and recorded if there is one.
AlertsOf(d) == {i \in DOMAIN ledger.alerts : ledger.alerts[i][1] = d}

FindAlert(r) ==
  /\ req[r].pc = "alert"
  /\ LET d == req[r].device IN
       \/ AlertsOf(d) = {} /\ req' = [req EXCEPT ![r] = Idle]
       \/ \E i \in AlertsOf(d) :
            /\ \A j \in AlertsOf(d) : j <= i
            /\ req' = [req EXCEPT ![r] =
                 [pc |-> "record", device |-> d, alert |-> ledger.alerts[i]]]
  /\ UNCHANGED <<storeVars, auditVars, spool, auxVars, work, nstorefaults>>

RecordAlert(r) ==
  /\ req[r].pc = "record" /\ req' = [req EXCEPT ![r] = Idle]
  /\ \/ /\ memAudit' = [memAudit EXCEPT !.alerts = Append(@, req[r].alert)]
        /\ pgAudit' = [pgAudit EXCEPT !.audit_alert = Append(@, req[r].alert)]
        /\ UNCHANGED <<excused, nstorefaults>>
     \/ /\ StoreFault("store") /\ excused' = excused \cup {req[r].device}
        /\ UNCHANGED <<memAudit, pgAudit>>
  /\ UNCHANGED <<storeVars, ledger, spool, emitted, reused, work>>

-----------------------------------------------------------------------------
(* Faults. *)

\* Every handler is cut short; main hydrates the new ledger, or goes on without.
RestartGateway ==
  /\ \/ /\ StoreFault("restart")
        /\ ledger' = [chains |-> PgLoadChains, verified |-> << >>, alerts |-> << >>]
        /\ excused' = excused \cup {d \in DOMAIN mem.devices : InFlight(d)}
     \/ /\ StoreFault("hydrate")
        /\ ledger' = [chains |-> Empty, verified |-> << >>, alerts |-> << >>]
        /\ excused' = DOMAIN mem.devices
  /\ req' = [r \in Request |-> Idle]
  /\ UNCHANGED <<storeVars, memAudit, pgAudit, spool, emitted, reused, work>>

FreshSpool(key) ==
  /\ StoreFault("spool") /\ spool' = [spool EXCEPT ![key] = GENESIS]
  /\ UNCHANGED <<storeVars, auditVars, req, auxVars, work>>

DeviceIds == 1..(mem.next_device + 1)

StoreCall ==
  \/ \E email \in Email : UpsertUser(email)
  \/ \E ws \in Workspace, email \in Email :
       \/ \E m \in Memberships : PutMembership(ws, email, m[1], m[2])
       \/ \E role \in Role : PutInvitation(ws, email, role)
       \/ MarkInvitationAccepted(ws, email)
  \/ \E ws \in Workspace, id \in DeviceIds, status \in {"Locked", "Wiped"} :
       SetDeviceStatus(ws, id, status)

Enroll(r) ==
  \/ \E ws \in Enrolling, email \in Email, key \in Key : EnrollRecord(r, ws, email, key)
  \/ EnrollRegister(r) \/ EnrollPersist(r) \/ EnrollCertify(r)

IngestAudit(r) ==
  \/ \E d \in DeviceIds, key \in Key : \E i \in 0..Len(spool[key]) : \E j \in 0..i :
       ingest_device_audit(r, d, Batch(key, j, i))
  \/ high_water(r) \/ head_for(r) \/ AppendAudit(r) \/ FindAlert(r) \/ RecordAlert(r)

StoresNext ==
  \/ StoreCall
  \/ \E r \in Request : Enroll(r) \/ IngestAudit(r)
  \/ \E key \in Key, event \in Event : EmitEvent(key, event)
  \/ RestartGateway
  \/ \E key \in Key : FreshSpool(key)

StoresSpec == StoresInit /\ [][StoresNext]_storesVars

-----------------------------------------------------------------------------
(* Properties. *)

StoresTypeOK ==
  /\ \A d \in DOMAIN mem.devices : mem.devices[d].status \in DeviceStatus
  /\ \A d \in DOMAIN ledger.chains :
       ledger.chains[d].next_seq \in Nat \ {0} /\ ledger.chains[d].head \in ChainHash
  /\ excused \subseteq Nat /\ reused \subseteq Nat
  /\ work \in 0..MaxWork /\ nstorefaults \in 0..MaxStoreFaults

\* The store of the tests answers every query as the store of the server does,
\* whatever the calls before: a role, a status or an order that one of them keeps
\* differently would make the tests of the gateway speak of another program.  They
\* part only on a certificate that a newer one replaced, which MemStore still
\* resolves, and on the numbers a device uses again, where PgAuditStore keeps the
\* first event: it enrolled again, or a position that overlapping requests left
\* behind was hydrated.
StoresAgree ==
  /\ StoresTypeOK
  /\ \A ws \in Workspace :
       /\ MemListMembers(ws) = PgListMembers(ws)
       /\ MemListInvitations(ws) = PgListInvitations(ws)
       /\ MemListDevices(ws) = PgListDevices(ws)
       /\ \A id \in DeviceIds : MemDevice(ws, id) = PgDevice(ws, id)
       /\ \A email \in Email :
            /\ MemInvitation(ws, email) = PgInvitation(ws, email)
            /\ email \in DOMAIN mem.users =>
                 MemMembership(ws, mem.users[email]) = PgMembership(ws, pg.app_user[email])
  /\ \A fp \in DOMAIN mem.device_fingerprints :
       /\ PgByFingerprint(fp) \subseteq MemByFingerprint(fp)
       /\ PgByFingerprint(fp) = {} =>
            \E later \in DOMAIN mem.device_fingerprints :
              later > fp /\ MemByFingerprint(later) = MemByFingerprint(fp)
  /\ memAudit.chains = PgLoadChains
  /\ memAudit.alerts = pgAudit.audit_alert
  /\ \A i \in DOMAIN memAudit.events :
       LET e == memAudit.events[i] IN
         /\ <<e[1], e[2]>> \in DOMAIN pgAudit.audit_event
         /\ e[1] \notin reused \cup excused => pgAudit.audit_event[<<e[1], e[2]>>] = e[3]

\* A gateway can be restarted whenever no request of a device is under way: the
\* position, the head and the key it would hydrate are the ones in memory, every
\* event the ledger admitted is in the table and every alert was recorded, unless
\* two requests of the device overlapped or a call of the store failed.
ChainRestorable ==
  \A d \in DOMAIN ledger.chains :
    ~InFlight(d) /\ d \notin excused =>
      /\ d \in DOMAIN PgLoadChains /\ PgLoadChains[d] = ledger.chains[d]
      /\ \A n \in 1..Len(ledger.chains[d].head) :
           /\ \E i \in DOMAIN memAudit.events :
                memAudit.events[i] = <<d, n, ledger.chains[d].head[n].event>>
           /\ <<d, n>> \in DOMAIN pgAudit.audit_event
           /\ d \notin reused =>
                pgAudit.audit_event[<<d, n>>] = ledger.chains[d].head[n].event
      /\ \A i \in AlertsOf(d) : \E j \in DOMAIN pgAudit.audit_alert :
           pgAudit.audit_alert[j] = ledger.alerts[i]

\* Whatever order, overlap or failure: a row of audit_event is an event that the
\* holder of the device's key put in its spool under that number.
RowsGenuine ==
  \A k \in DOMAIN pgAudit.audit_event :
    /\ k[1] \in DOMAIN pg.device
    /\ <<pg.device[k[1]].device_pubkey, k[2], pgAudit.audit_event[k]>> \in emitted

\* The audit ledger can be rebuilt from its store, and from nothing but what the
\* devices signed.
LedgerRestorable == ChainRestorable /\ RowsGenuine

=============================================================================
