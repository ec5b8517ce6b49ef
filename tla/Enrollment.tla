----------------------------- MODULE Enrollment -----------------------------
(***************************************************************************)
(* Device enrollment, from `clave-daemon enroll' to a daemon that boots    *)
(* from the record it leaves:                                              *)
(*                                                                         *)
(*   EnrollmentClient, run_enroll_cli               cli, attempt           *)
(*     (clave-daemon/src/enroll_client.rs)                                 *)
(*   DeviceEnrollment::accept (enroll.rs)                                  *)
(*   the identity provider (clave-gateway/src/      code, user             *)
(*     workos.rs)                                                          *)
(*   complete_enrollment (gateway.rs), the key      handler, devices,      *)
(*     service (volume.rs), the device CA           ledger, stored,        *)
(*     (cert.rs), the issuer                        fingerprints, sent ... *)
(*   the record, boot_enrollment                    file, ckpt, daemon     *)
(*     (enrollment_store.rs) and the observer                              *)
(*                                                                         *)
(* Every run of the command line draws new keys, so that keys are named by *)
(* the attempt that drew them.  The answer to a request may be late, lost, *)
(* or come from an impostor; the clock is not modelled: any command may be *)
(* found stale.                                                            *)
(***************************************************************************)
EXTENDS Naturals

CONSTANTS MaxAttempts,   \* bound on runs of the command line
          MaxPolls,      \* EnrollmentConfig.max_polls
          MaxVersion,    \* bound on policy versions
          MaxCounter,    \* bound on signed commands
          Services,      \* the key services the gateway may be set up with
          Faults,        \* the faults that may happen (see FaultKind)
          MaxFaults      \* bound on their number; restarts are not counted

FaultKind == {"net",       \* an answer is lost, or the client gives up waiting
              "impostor",  \* someone else answers
              "gateway",   \* a call the gateway makes fails
              "disk"}      \* a file of the device is not written, or not readable

ASSUME EnrollmentAssumption ==
  /\ MaxAttempts \in Nat \ {0} /\ MaxPolls \in Nat \ {0}
  /\ MaxVersion \in Nat \ {0} /\ MaxCounter \in Nat /\ MaxCounter >= MaxAttempts
  /\ Services \subseteq {"none", "mem", "sealed"}
  /\ Faults \subseteq FaultKind /\ MaxFaults \in Nat

VARIABLES
  attempt,       \* the latest run of the command line, which drew keys `attempt'
  cli,           \* where it is, and what it has been given
  code,          \* its device code at the identity provider
  handler,       \* where its complete_enrollment is
  reply,         \* the policy that has issued and not sent yet
  service,       \* the gateway's VolumeKeyService
  devices,       \* identity keys recorded in the store
  ledger,        \* audit keys registered in the ledger, in memory
  stored,        \* the same in the audit store
  fingerprints,  \* devices whose certificate is on record
  version,       \* the workspace's policy
  counter,       \* command counter
  sent,          \* the commands signed by the tenant
  file,          \* the enrollment file
  ckpt,          \* gateway_high_water in the checkpoint file
  daemon,        \* the daemon process
  unhydrated,    \* auxiliary: keys the audit store did not keep
  nfaults

cliVars == <<attempt, cli>>
gatewayVars == <<handler, reply, devices, ledger, stored, fingerprints, version, counter, sent,
                 unhydrated>>
deviceVars == <<file, ckpt, daemon>>
vars == <<cliVars, code, gatewayVars, service, deviceVars, nfaults>>

Attempt == 1..MaxAttempts
Version == 1..MaxVersion

\* The keys run_enroll_cli draws: three independent runs of random bytes.
identity(a) == <<"identity", a>>
signing(a) == <<"signing", a>>
DEV == 0

\* SignedCommand, as far as accept and verify tell commands apart.
SignedCommand == [by : {"tenant", "impostor"}, kind : {"policy", "lock"},
                  counter : 0..MaxCounter, version : Version]
NoPolicy == [by |-> "nobody", kind |-> "none", counter |-> 0, version |-> 1]

\* WrappedVolumeKey: how the key was wrapped, and under which attempt's key.
WrappedVolumeKey == [how : {"none", "symmetric", "sealed", "malformed"}, to : 0..MaxAttempts]
NoVolumeKey == [how |-> "none", to |-> 0]

\* EnrollmentGrant with the credentials that come along.
Grant == [policy : SignedCommand \cup {NoPolicy}, volume_key : WrappedVolumeKey,
          tls : {"none", "ours", "other"}]
NoGrant == [policy |-> NoPolicy, volume_key |-> NoVolumeKey, tls |-> "none"]

\* EnrollmentRecord.  Pinned key, seed and wrapping key are those of attempt
\* `keys', or the constants of the development enrollment; `first' is
\* auxiliary: the policy version it was accepted with.
EnrollmentRecord ==
  [keys : 0..MaxAttempts, by : {"tenant", "impostor", "dev"}, version : Version,
   first : Version, volume_key : WrappedVolumeKey, tls : {"none", "ours", "other"}]
NoRecord == [keys |-> DEV, by |-> "none", version |-> 1, first |-> 1,
             volume_key |-> NoVolumeKey, tls |-> "none"]
Unreadable == [NoRecord EXCEPT !.by = "unreadable"]
Readable(r) == r.by \in {"tenant", "impostor", "dev"}

IdleCli == [pc |-> "idle", polls |-> 0, grant |-> NoGrant]
Down == [pc |-> "down", record |-> NoRecord, high_water |-> 0]

TypeOK ==
  /\ attempt \in 0..MaxAttempts
  /\ cli \in [pc : {"idle", "poll", "complete", "wait", "accept", "save"},
              polls : 0..(MaxPolls - 1), grant : Grant]
  /\ code \in {"none", "pending", "approved", "rejected", "spent"}
  /\ handler \in {"idle", "authorize", "record", "policy", "grant"}
  /\ reply \in SignedCommand \cup {NoPolicy}
  /\ service \in Services
  /\ devices \subseteq Attempt /\ fingerprints \subseteq Attempt
  /\ ledger \subseteq {identity(a) : a \in Attempt} /\ stored \subseteq {identity(a) : a \in Attempt}
  /\ unhydrated \subseteq {identity(a) : a \in Attempt}
  /\ version \in Version /\ counter \in 0..MaxCounter /\ sent \subseteq SignedCommand
  /\ file \in EnrollmentRecord \cup {NoRecord, Unreadable}
  /\ ckpt \in 0..MaxCounter
  /\ daemon \in [pc : {"down", "up", "panicked"}, record : EnrollmentRecord \cup {NoRecord},
                 high_water : 0..MaxCounter]
  /\ nfaults \in 0..MaxFaults

\* A device that was never enrolled, and a gateway set up in one of the ways
\* server_main offers.
Init ==
  /\ attempt = 0 /\ cli = IdleCli
  /\ code = "none" /\ handler = "idle" /\ reply = NoPolicy
  /\ service \in Services
  /\ devices = {} /\ ledger = {} /\ stored = {} /\ fingerprints = {} /\ unhydrated = {}
  /\ version = 1 /\ counter = 0 /\ sent = {}
  /\ file = NoRecord /\ ckpt = 0 /\ daemon = Down
  /\ nfaults = 0

Fault(kind) == kind \in Faults /\ nfaults < MaxFaults /\ nfaults' = nfaults + 1

-----------------------------------------------------------------------------
(* The identity provider. *)

begin_device_auth == code' = "pending"

\* The person at the browser enters the code; the provider may vouch for
\* another organization than the workspace's.
Approve ==
  /\ code = "pending" /\ cli.pc = "poll"
  /\ code' \in {"approved", "rejected"}
  /\ UNCHANGED <<cliVars, gatewayVars, service, deviceVars, nfaults>>

\* poll_device_auth: an answer other than success, a code already redeemed
\* included, is taken for "not yet".
poll_device_auth == code \in {"approved", "rejected"}

\* verify_and_build: the token verifies, the address parses and the
\* organization is the workspace's; else the request ends in an error.
verify_and_build == code = "approved"

\* authorize_enrollment_poll: and the user is an active member at this time.
authorize_enrollment_poll(member) == poll_device_auth /\ verify_and_build /\ member

-----------------------------------------------------------------------------
(* complete_enrollment at the gateway.  Requests of different attempts touch *)
(* different keys: a new attempt waits for the last one's handler.           *)

\* The client hears of the end of its request, if it still waits for it.
Answers(pc, grant) ==
  cli' = IF cli.pc # "wait" THEN cli
         ELSE IF pc = "idle" THEN IdleCli ELSE [cli EXCEPT !.pc = pc, !.grant = grant]

Fails == handler' = "idle" /\ Answers("idle", NoGrant)

\* authorize_enrollment_poll, a second time for this code.
GwAuthorize ==
  /\ handler = "authorize"
  /\ \E member \in BOOLEAN :
       IF authorize_enrollment_poll(member) THEN handler' = "record" /\ UNCHANGED cli ELSE Fails
  /\ UNCHANGED <<attempt, code, reply, devices, ledger, stored, fingerprints, version, counter, sent,
                 unhydrated, service, deviceVars, nfaults>>

\* Mutant: the audit store is not told.
GwRecordMemoryOnly ==
  /\ handler = "record"
  /\ devices' = devices \cup {attempt}
  /\ ledger' = ledger \cup {identity(attempt)}
  /\ handler' = "policy"
  /\ UNCHANGED <<cliVars, code, reply, stored, fingerprints, version, counter, sent, unhydrated,
                 service, deviceVars, nfaults>>

\* record_device; then the ledger learns the device's identity key.  An error
\* of the audit store is ignored.  (ControlPlane takes these calls apart.)
GwRecord ==
  /\ handler = "record"
  /\ devices' = devices \cup {attempt}
  /\ ledger' = ledger \cup {identity(attempt)}
  /\ \/ stored' = stored \cup {identity(attempt)} /\ UNCHANGED <<unhydrated, nfaults>>
     \/ /\ Fault("gateway")
        /\ unhydrated' = unhydrated \cup {identity(attempt)} /\ UNCHANGED stored
  /\ handler' = "policy"
  /\ UNCHANGED <<cliVars, code, reply, fingerprints, version, counter, sent,
                 service, deviceVars>>

\* issue_initial_policy signs the current bundle with the next counter.
GwIssuePolicy ==
  /\ handler = "policy"
  /\ LET c == [by |-> "tenant", kind |-> "policy", counter |-> counter + 1, version |-> version]
     IN /\ sent' = sent \cup {c}
        /\ reply' = c
  /\ counter' = counter + 1
  /\ handler' = "grant"
  /\ UNCHANGED <<cliVars, code, devices, ledger, stored, fingerprints, version, unhydrated,
                 service, deviceVars, nfaults>>

\* The counter cannot be drawn: the request fails, the device stays recorded.
GwIssueFails ==
  /\ handler = "policy" /\ Fault("gateway") /\ Fails
  /\ UNCHANGED <<attempt, code, reply, devices, ledger, stored, fingerprints, version, counter,
                 sent, unhydrated, service, deviceVars>>

\* The two ways to wrap the workspace's data key for a device.
wrap(kek) == [how |-> "symmetric", to |-> kek]
seal_dek(device_pub) == [how |-> "sealed", to |-> device_pub]

\* issue_wrapped_volume_key of the service in use.  The sealed one takes the
\* wrapping key for an X25519 public key.
issue_wrapped_volume_key ==
  CASE service = "none"   -> NoVolumeKey
    [] service = "mem"    -> wrap(attempt)
    [] service = "sealed" -> seal_dek(attempt)

\* The volume key, then the certificate: the CA issues one and its fingerprint
\* is stored, or there is no CA, or it fails and the grant has no credentials.
GwGrant ==
  /\ handler = "grant"
  /\ \E tls \in {"ours", "none"} :
       /\ fingerprints' = IF tls = "ours" THEN fingerprints \cup {attempt} ELSE fingerprints
       /\ Answers("accept", [policy |-> reply, volume_key |-> issue_wrapped_volume_key,
                                tls |-> tls])
  /\ reply' = NoPolicy
  /\ handler' = "idle"
  /\ UNCHANGED <<attempt, code, devices, ledger, stored, version, counter, sent, unhydrated,
                 service, deviceVars, nfaults>>

GwHandler == \/ GwAuthorize \/ GwRecord \/ GwIssuePolicy
                \/ GwIssueFails \/ GwGrant

AuthorPolicy ==
  /\ version < MaxVersion /\ version' = version + 1
  /\ UNCHANGED <<cliVars, code, handler, reply, devices, ledger, stored, fingerprints, counter,
                 sent, unhydrated, service, deviceVars, nfaults>>

\* The enrollments that have yet to draw a counter, for which the bound leaves room.
Undrawn == MaxAttempts - attempt
           + IF cli.pc \in {"poll", "complete"} \/ handler \in {"authorize", "record", "policy"}
             THEN 1 ELSE 0

\* reissue_policy, for the devices already enrolled.
ReissuePolicy ==
  /\ counter + Undrawn < MaxCounter
  /\ counter' = counter + 1
  /\ sent' = sent \cup {[by |-> "tenant", kind |-> "policy", counter |-> counter + 1,
                         version |-> version]}
  /\ UNCHANGED <<cliVars, code, handler, reply, devices, ledger, stored, fingerprints, version,
                 unhydrated, service, deviceVars, nfaults>>

\* A restart ends the requests under way, forgets the authored policies and
\* loads the chains of the audit store (hydrate_audit).
RestartGateway ==
  /\ handler' = "idle" /\ reply' = NoPolicy
  /\ cli' = IF cli.pc = "wait" THEN IdleCli ELSE cli
  /\ version' = 1 /\ ledger' = stored
  /\ UNCHANGED <<attempt, code, devices, stored, fingerprints, counter, sent,
                 unhydrated, service, deviceVars, nfaults>>

-----------------------------------------------------------------------------
(* The command line. *)

\* Draw keys, start, show the prompt.
Start ==
  /\ cli.pc = "idle" /\ handler = "idle" /\ attempt < MaxAttempts
  /\ attempt' = attempt + 1 /\ cli' = [IdleCli EXCEPT !.pc = "poll"]
  /\ begin_device_auth
  /\ UNCHANGED <<gatewayVars, service, deviceVars, nfaults>>

\* Mutant: unanswered polls are not counted.
PollPendingUncounted ==
  /\ cli.pc = "poll" /\ ~poll_device_auth
  /\ cli' = cli
  /\ UNCHANGED <<attempt, code, gatewayVars, service, deviceVars, nfaults>>

\* PollStatus::Pending, or the last one.
PollPending ==
  /\ cli.pc = "poll" /\ ~poll_device_auth
  /\ cli' = IF cli.polls + 1 >= MaxPolls THEN IdleCli ELSE [cli EXCEPT !.polls = @ + 1]
  /\ UNCHANGED <<attempt, code, gatewayVars, service, deviceVars, nfaults>>

\* poll_enrollment finds the user and, unless it refuses them, says so.  The
\* provider may let a device code be redeemed once only.
PollApproved ==
  /\ cli.pc = "poll" /\ poll_device_auth
  /\ code' \in {code, "spent"}
  /\ \E member \in BOOLEAN :
       cli' = IF authorize_enrollment_poll(member) THEN [cli EXCEPT !.pc = "complete"] ELSE IdleCli
  /\ UNCHANGED <<attempt, gatewayVars, service, deviceVars, nfaults>>

\* The request is on its way; the handler begins.
Complete ==
  /\ cli.pc = "complete"
  /\ cli' = [cli EXCEPT !.pc = "wait"]
  /\ handler' = "authorize"
  /\ UNCHANGED <<attempt, code, reply, devices, ledger, stored, fingerprints, version, counter,
                 sent, unhydrated, service, deviceVars, nfaults>>

\* A transport error, or the command is interrupted.  The handler goes on, or
\* is dropped where it waits.
TransportFails ==
  /\ cli.pc # "idle" /\ Fault("net")
  /\ cli' = IdleCli
  /\ \/ UNCHANGED <<handler, reply>>
     \/ handler' = "idle" /\ reply' = NoPolicy
  /\ UNCHANGED <<attempt, code, devices, ledger, stored, fingerprints, version, counter,
                 sent, unhydrated, service, deviceVars>>

\* What an impostor can put together: commands of the tenant, its own, keys of
\* its own choice (it has been sent the wrapping key).
ImpostorGrant ==
  [policy : sent \cup {[by |-> "impostor", kind |-> "policy", counter |-> 1, version |-> MaxVersion],
                       [by |-> "tenant", kind |-> "lock", counter |-> 1, version |-> 1], NoPolicy},
   volume_key : {NoVolumeKey, wrap(attempt), wrap(DEV),
                 [how |-> "malformed", to |-> 0]},
   tls : {"none", "other"}]

ImpostorAnswers ==
  /\ cli.pc = "wait" /\ Fault("impostor")
  /\ \E g \in ImpostorGrant : cli' = [cli EXCEPT !.pc = "accept", !.grant = g]
  /\ UNCHANGED <<attempt, code, gatewayVars, service, deviceVars>>

\* Mutant: any envelope will do.
VerifyAnyone(c, fresh) == c.by # "nobody"

\* GatewayVerifier::verify of a verifier that has accepted nothing.
verify(c, fresh) == c.by = "tenant" /\ fresh /\ c.counter > 0

\* DeviceEnrollment::accept of the grant's policy, then that there is one.
accept_policy(g, fresh) == verify(g.policy, fresh) /\ g.policy.kind = "policy"

\* open_volume_key with a symmetric device key, which is all this client has.
unwrap(kek, vk) == vk.to = kek
open_volume_key(vk, keys) == vk.how = "symmetric" /\ unwrap(keys, vk)

\* accept: the policy, then the volume key if there is one.
Accept(fresh) ==
  /\ cli.pc = "accept"
  /\ LET g == cli.grant
     IN cli' = IF /\ accept_policy(g, fresh)
                  /\ g.volume_key = NoVolumeKey \/ open_volume_key(g.volume_key, attempt)
               THEN [cli EXCEPT !.pc = "save"] ELSE IdleCli
  /\ UNCHANGED <<attempt, code, gatewayVars, service, deviceVars, nfaults>>

\* The record of attempt a.
Enrolled(a, g) ==
  [keys |-> a, by |-> g.policy.by, version |-> g.policy.version, first |-> g.policy.version,
   volume_key |-> g.volume_key, tls |-> g.tls]

\* FileEnrollmentStore::save: the file is replaced, or nothing happens.
save(r) == \/ file' = r /\ UNCHANGED nfaults
           \/ Fault("disk") /\ UNCHANGED file

SaveRecord ==
  /\ cli.pc = "save"
  /\ save(Enrolled(attempt, cli.grant))
  /\ cli' = IdleCli
  /\ UNCHANGED <<attempt, code, gatewayVars, service, ckpt, daemon>>

CliStep == PollPending \/ PollApproved \/ Complete \/ (\E f \in BOOLEAN : Accept(f)) \/ SaveRecord

-----------------------------------------------------------------------------
(* The daemon. *)

bootstrap_dev_enrollment ==
  [keys |-> DEV, by |-> "dev", version |-> 1, first |-> 1,
   volume_key |-> wrap(DEV), tls |-> "none"]

\* Mutant: a record without credentials is taken for none.
LoadCertified(r) == Readable(r) /\ r.tls # "none"

\* FileEnrollmentStore::load: whatever does not decode is no record.
load(r) == Readable(r)

\* open_volume(None): a record always has its wrapping key, so only the
\* wrapped key can be missing.
open_volume(r) == r.volume_key # NoVolumeKey /\ open_volume_key(r.volume_key, r.keys)

\* boot_enrollment, and the verifier with the checkpoint's high-water mark.
Boot ==
  /\ daemon.pc # "up"
  /\ LET r == IF load(file) THEN file ELSE bootstrap_dev_enrollment
     IN /\ IF load(file) THEN UNCHANGED <<file, nfaults>> ELSE save(r)
        /\ daemon' = [pc |-> IF open_volume(r) THEN "up" ELSE "panicked",
                      record |-> r, high_water |-> ckpt]
  /\ UNCHANGED <<cliVars, code, gatewayVars, service, ckpt>>

\* update_policy refuses a bundle older than the one in force, and no other.
Rollback(c) == c.version < daemon.record.version

\* A command reaches the daemon and is verified under the pinned key.  Unless
\* the bundle is refused, the observer writes the record it has in memory over
\* whatever the file holds by now, also for a reissue of the same version.
UpdatePolicy(c) ==
  /\ daemon.pc = "up" /\ daemon.record.keys # DEV
  /\ c.counter > daemon.high_water
  /\ daemon' = [daemon EXCEPT !.high_water = c.counter,
                              !.record.version = IF Rollback(c) THEN @ ELSE c.version]
  /\ IF Rollback(c) THEN UNCHANGED <<file, nfaults>> ELSE save(daemon'.record)
  /\ UNCHANGED <<cliVars, code, gatewayVars, service, ckpt>>

SaveCheckpoint ==
  /\ daemon.pc = "up" /\ ckpt # daemon.high_water
  /\ ckpt' = daemon.high_water
  /\ UNCHANGED <<cliVars, code, gatewayVars, service, file, daemon, nfaults>>

Crash ==
  /\ daemon.pc = "up"
  /\ daemon' = Down
  /\ UNCHANGED <<cliVars, code, gatewayVars, service, file, ckpt, nfaults>>

\* The file is damaged, or of another version of the program (the record is
\* encoded by position, without names or a version).
Corrupt ==
  /\ Readable(file) /\ Fault("disk")
  /\ file' = Unreadable
  /\ UNCHANGED <<cliVars, code, gatewayVars, service, ckpt, daemon>>

Next ==
  \/ Approve \/ GwHandler
  \/ AuthorPolicy \/ ReissuePolicy \/ RestartGateway
  \/ Start \/ CliStep \/ TransportFails \/ ImpostorAnswers
  \/ Boot \/ (\E c \in sent : UpdatePolicy(c)) \/ SaveCheckpoint \/ Crash \/ Corrupt

\* The command line runs, and a request is answered: by the handler, or by the
\* HTTP client's timeout.
Spec == /\ Init /\ [][Next]_vars
        /\ WF_vars(CliStep)
        /\ WF_vars(GwHandler)

-----------------------------------------------------------------------------
\* Under the pinned key nothing but the tenant's policy is kept or enforced,
\* whoever answered the command line.
PinnedOnly == /\ file.by # "impostor" /\ daemon.record.by # "impostor"
              /\ cli.pc = "save" => cli.grant.policy.by = "tenant"

\* boot_enrollment panics only over a record that came without a volume key:
\* what `accept' let through opens again at every boot.
BootsUnlessKeyless == daemon.pc = "panicked" => daemon.record.volume_key = NoVolumeKey

\* The record goes from one enrollment to a later one only -- unless the file
\* had become unreadable, or a daemon booted before still has the older record
\* in memory and saves it with the next policy that is no older, a reissue of
\* the same version included (update_policy, the observer).
EnrollmentReplaced ==
  [][/\ Readable(file) /\ Readable(file') => \/ file'.keys >= file.keys
                                             \/ daemon.pc = "up" /\ file'.keys = daemon.record.keys
     /\ daemon'.pc = "up" /\ daemon.pc # "up" /\ Readable(file) => daemon'.record = file
    ]_<<file, daemon>>

\* A device that was given credentials is one the gateway can tell by them,
\* and whose audit key the ledger has, also after a restart of the gateway --
\* unless the audit store failed when it was registered.
CertifiedKnown ==
  \A r \in {file, daemon.record} :
    r.tls = "ours" => /\ r.keys \in fingerprints /\ r.keys \in devices
                      /\ identity(r.keys) \in ledger \cup unhydrated

\* The high-water mark says nothing of the policy accepted on enrollment: an
\* older one may arrive and pass the verifier.  It does not take effect.
NoDowngrade == daemon.pc = "up" => daemon.record.version >= daemon.record.first

\* The command line ends, whatever the provider, the gateway and the person do.
EnrollTerminates == cli.pc # "idle" ~> cli.pc = "idle"

\* What one enrollment leaves on the device and at the gateway fits together, at
\* every later boot of either: the record opens, the gateway knows the device, and
\* the policy is no older than the one enrolled with.
EnrollmentHolds == TypeOK /\ BootsUnlessKeyless /\ CertifiedKnown /\ NoDowngrade

=============================================================================
