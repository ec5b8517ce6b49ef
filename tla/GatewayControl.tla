--------------------------- MODULE GatewayControl ---------------------------
(***************************************************************************)
(* Signed control of a device by its gateway:                              *)
(*                                                                         *)
(*   MemPolicyIssuer, CounterStore                 version, counter,       *)
(*     (clave-gateway/src/policy.rs)               signing                 *)
(*   the path between them                         sent                    *)
(*   GatewayVerifier::verify                       high_water              *)
(*     (clave-proto/src/verify.rs)                                         *)
(*   Daemon::apply_gateway_command, ::update_      policy, thread, and the *)
(*     policy (clave-daemon/src/lib.rs)            volume of ClaveVolume   *)
(*   the observer of run_macos, the enrollment     record, es, publishing, *)
(*     record, the checkpoint and boot             ckpt                    *)
(*                                                                         *)
(* Whatever was sent may arrive late, twice, in another order or never.    *)
(* Commands are applied by the threads in Applier: the sync thread of      *)
(* spawn_gateway_sync and, where a program starts it, the event loop       *)
(* Daemon::run.                                                            *)
(***************************************************************************)
EXTENDS Naturals, FiniteSets, ClaveVolume

CONSTANTS Applier,      \* the threads that call apply_gateway_command
          Sync,         \* the one of them that saves checkpoints
          Signer,       \* concurrent requests for a signed policy
          Body,         \* bodies of Lock and Wipe commands (see ControlBody)
          Defect,       \* ways in which an envelope may be unacceptable
          Faults,       \* the faults that may happen (see FaultKind)
          MaxFaults,    \* bound on their number
          MaxVersion,   \* bound on the policy versions authored
          MaxCounter,   \* bound on the command counter
          MaxTime,      \* bound on the clock
          MaxAge,       \* max_age_secs, in units of the clock
          MaxSkew,      \* MAX_FUTURE_SKEW_SECS
          Ahead         \* how far the gateway's clock is ahead of the device's

ControlBody == {[kind |-> "lock"], [kind |-> "wipe", container |-> "ours"],
                [kind |-> "wipe", container |-> "other"]}
FaultKind == {"crash",     \* the daemon dies and boots again
              "gateway",   \* the gateway process restarts
              "disk",      \* a file cannot be written
              "xpc"}       \* the Endpoint Security client cannot be reached
DefectKind == {"undecodable", "signature", "envelope", "proto", "tenant"}

ASSUME ControlAssumption ==
  /\ Sync \in Applier
  /\ Body \subseteq ControlBody /\ Defect \subseteq DefectKind
  /\ Faults \subseteq FaultKind /\ MaxFaults \in Nat
  /\ MaxVersion \in Nat \ {0} /\ MaxCounter \in Nat /\ MaxTime \in Nat
  /\ MaxAge \in Nat /\ MaxSkew \in Nat /\ Ahead \in Nat

VARIABLES
  version,      \* the latest policy of the workspace
  counter,      \* the CounterStore
  signing,      \* per request: the policy sign_current has read, 0 for none
  sent,         \* every signed command, and every corruption of one
  now,          \* the device's clock
  high_water,   \* of the GatewayVerifier
  policy,       \* version in the ArcSwap
  thread,       \* per applier: what it is doing
  record,       \* policy version in the enrollment file
  unsaved,      \* auxiliary: the last attempt to save the record failed
  publishing,   \* publish_es_policy threads under way, by version
  es,           \* the policy version the Endpoint Security client has
  ckpt,         \* gateway_high_water in the checkpoint file
  accepted,     \* auxiliary: commands accepted by verify, in this boot or before
  taken,        \* auxiliary: how often each counter was accepted
  lost,         \* auxiliary: counters above the checkpoint at some crash
  undone,       \* auxiliary: counters accepted at some crash with the record unsaved
  nfaults

gatewayVars == <<version, counter, signing, sent>>
deviceVars == <<high_water, policy, thread>>
savedVars == <<record, unsaved, es, publishing, ckpt>>
auxVars == <<accepted, taken, lost, undone, nfaults>>
vars == <<gatewayVars, now, deviceVars, volumeVars, savedVars, auxVars>>

Version == 1..MaxVersion
Counter == 1..MaxCounter
PolicyBody == [kind : {"policy"}, version : Version]
Command == [counter : Counter, issued_at : 0..(MaxTime + Ahead),
            body : PolicyBody \cup ControlBody, defect : DefectKind \cup {"none"}]

Idle == [pc |-> "idle"]
ThreadState ==
  {Idle} \cup [pc : {"apply"}, body : PolicyBody \cup ControlBody]
         \cup [pc : {"store", "observe"}, version : Version]

TypeOK ==
  /\ version \in Version /\ counter \in 0..MaxCounter
  /\ signing \in [Signer -> 0..MaxVersion]
  /\ sent \subseteq Command
  /\ now \in 0..MaxTime
  /\ high_water \in 0..MaxCounter /\ policy \in Version
  /\ thread \in [Applier -> ThreadState]
  /\ VolumeTypeOK
  /\ record \in Version /\ unsaved \in BOOLEAN /\ publishing \in [Version -> Nat] /\ es \in Version
  /\ ckpt \in 0..MaxCounter
  /\ accepted \subseteq Command
  /\ taken \in [Counter -> Nat] /\ lost \subseteq Counter /\ undone \subseteq Counter
  /\ nfaults \in Nat

\* The device has enrolled with policy 1 and booted; its volume is unlocked.
Init ==
  /\ version = 1 /\ counter = 0 /\ signing = [s \in Signer |-> 0] /\ sent = {}
  /\ now = 0
  /\ high_water = 0 /\ policy = 1 /\ thread = [a \in Applier |-> Idle]
  /\ cipher = TRUE /\ key = TRUE /\ marker = FALSE
  /\ record = 1 /\ unsaved = FALSE /\ publishing = [v \in Version |-> 0] /\ es = 1 /\ ckpt = 0
  /\ accepted = {} /\ taken = [c \in Counter |-> 0] /\ lost = {} /\ undone = {}
  /\ nfaults = 0

Fault(kind) == kind \in Faults /\ nfaults < MaxFaults /\ nfaults' = nfaults + 1

-----------------------------------------------------------------------------
(* The gateway. *)

\* author_policy numbers the new bundle after the last one, under one lock.
AuthorPolicy ==
  /\ version < MaxVersion /\ version' = version + 1
  /\ UNCHANGED <<counter, signing, sent, now, deviceVars, volumeVars, savedVars, auxVars>>

\* sign_current reads the current bundle under one lock ...
ReadCurrent(s) ==
  /\ signing[s] = 0 /\ signing' = [signing EXCEPT ![s] = version]
  /\ UNCHANGED <<version, counter, sent, now, deviceVars, volumeVars, savedVars, auxVars>>

Signed(n, body) == [counter |-> n, issued_at |-> now + Ahead, body |-> body, defect |-> "none"]

\* ... and draws the counter under another.
SignCurrent(s) ==
  /\ signing[s] # 0 /\ counter < MaxCounter
  /\ counter' = counter + 1
  /\ sent' = sent \cup {Signed(counter + 1, [kind |-> "policy", version |-> signing[s]])}
  /\ signing' = [signing EXCEPT ![s] = 0]
  /\ UNCHANGED <<version, now, deviceVars, volumeVars, savedVars, auxVars>>

\* FileCounter::next cannot write its file: the request fails.
CounterFails(s) ==
  /\ signing[s] # 0 /\ Fault("disk") /\ signing' = [signing EXCEPT ![s] = 0]
  /\ UNCHANGED <<version, counter, sent, now, deviceVars, volumeVars, savedVars, accepted,
                 taken, lost, undone>>

\* A Lock or Wipe command is signed by the holder of the tenant key.
SignControl(body) ==
  /\ counter < MaxCounter /\ counter' = counter + 1
  /\ sent' = sent \cup {Signed(counter + 1, body)}
  /\ UNCHANGED <<version, signing, now, deviceVars, volumeVars, savedVars, auxVars>>

\* The counter is in a file; the policies are in memory, and start from version 1.
RestartGateway ==
  /\ Fault("gateway") /\ version' = 1 /\ signing' = [s \in Signer |-> 0]
  /\ UNCHANGED <<counter, sent, now, deviceVars, volumeVars, savedVars, accepted, taken, lost, undone>>

-----------------------------------------------------------------------------
(* The device: apply_gateway_command. *)

Monus(a, b) == IF a > b THEN a - b ELSE 0      \* saturating_sub

\* Mutant: a counter equal to the high-water mark is accepted.
VerifyErrorEqualCounter(c) ==
  CASE c.defect \in {"undecodable", "envelope"}       -> "Malformed"
    [] c.defect = "signature"                         -> "BadSignature"
    [] c.defect = "proto"                             -> "UnsupportedProto"
    [] c.defect = "tenant"                            -> "WrongTenant"
    [] \/ Monus(now, c.issued_at) > MaxAge
       \/ Monus(c.issued_at, now) > MaxSkew           -> "Stale"
    [] c.counter < high_water                         -> "Replay"
    [] OTHER                                          -> "Ok"

\* GatewayVerifier::verify.
VerifyError(c) ==
  CASE c.defect \in {"undecodable", "envelope"}       -> "Malformed"
    [] c.defect = "signature"                         -> "BadSignature"
    [] c.defect = "proto"                             -> "UnsupportedProto"
    [] c.defect = "tenant"                            -> "WrongTenant"
    [] \/ Monus(now, c.issued_at) > MaxAge
       \/ Monus(c.issued_at, now) > MaxSkew           -> "Stale"
    [] c.counter <= high_water                        -> "Replay"
    [] OTHER                                          -> "Ok"

\* What the path may hand over: anything that was sent, and anything unacceptable.
Forged == [counter : Counter, issued_at : {now}, body : Body, defect : Defect]
Deliverable == sent \cup Forged

\* verify runs under the gateway mutex, which is released before the effect.
Receive(a, c) ==
  /\ thread[a] = Idle
  /\ IF VerifyError(c) = "Ok"
     THEN /\ high_water' = c.counter
          /\ thread' = [thread EXCEPT ![a] = [pc |-> "apply", body |-> c.body]]
          /\ accepted' = accepted \cup {c}
          /\ taken' = [taken EXCEPT ![c.counter] = @ + 1]
     ELSE UNCHANGED <<high_water, thread, accepted, taken>>
  /\ UNCHANGED <<gatewayVars, now, policy, volumeVars, savedVars, lost, undone, nfaults>>

Applying(a, kind) == thread[a].pc = "apply" /\ thread[a].body.kind = kind

\* Mutant: the version of the bundle is not compared.
CheckVersionSkipped(a) ==
  /\ Applying(a, "policy")
  /\ thread' = [thread EXCEPT ![a] = [pc |-> "store", version |-> @.body.version]]
  /\ UNCHANGED <<gatewayVars, now, high_water, policy, volumeVars, savedVars, auxVars>>

\* update_policy loads the current version and compares ...
CheckVersion(a) ==
  /\ Applying(a, "policy")
  /\ thread' = [thread EXCEPT ![a] =
                  IF @.body.version < policy THEN Idle
                  ELSE [pc |-> "store", version |-> @.body.version]]
  /\ UNCHANGED <<gatewayVars, now, high_water, policy, volumeVars, savedVars, auxVars>>

\* ... then stores the new policy ...
StorePolicy(a) ==
  /\ thread[a].pc = "store"
  /\ policy' = thread[a].version
  /\ thread' = [thread EXCEPT ![a] = [pc |-> "observe", version |-> @.version]]
  /\ UNCHANGED <<gatewayVars, now, high_water, volumeVars, savedVars, auxVars>>

\* Mutant: the observer publishes the policy and does not save the record.
ObserveUnsaved(a) ==
  /\ thread[a].pc = "observe"
  /\ publishing' = [publishing EXCEPT ![policy] = @ + 1]
  /\ thread' = [thread EXCEPT ![a] = Idle]
  /\ UNCHANGED <<gatewayVars, now, high_water, policy, volumeVars, record, unsaved, es, ckpt, auxVars>>

\* ... and calls the observer, under its mutex, with the policy of that moment: the
\* enrollment record is saved (an error is ignored) and a publishing thread spawned.
Observe(a) ==
  /\ thread[a].pc = "observe"
  /\ \/ record' = policy /\ unsaved' = FALSE /\ UNCHANGED nfaults
     \/ Fault("disk") /\ unsaved' = TRUE /\ UNCHANGED record
  /\ publishing' = [publishing EXCEPT ![policy] = @ + 1]
  /\ thread' = [thread EXCEPT ![a] = Idle]
  /\ UNCHANGED <<gatewayVars, now, high_water, policy, volumeVars, es, ckpt, accepted, taken, lost, undone>>

ApplyLock(a) ==
  /\ Applying(a, "lock") /\ Lock
  /\ thread' = [thread EXCEPT ![a] = Idle]
  /\ UNCHANGED <<gatewayVars, now, high_water, policy, savedVars, auxVars>>

\* Mutant: the container of the command is not compared.
ApplyWipeAny(a) ==
  /\ Applying(a, "wipe") /\ Wipe
  /\ thread' = [thread EXCEPT ![a] = Idle]
  /\ UNCHANGED <<gatewayVars, now, high_water, policy, savedVars, auxVars>>

\* A wipe of another container is refused, after its counter was taken.
ApplyWipe(a) ==
  /\ Applying(a, "wipe")
  /\ IF thread[a].body.container = "ours" THEN Wipe ELSE UNCHANGED volumeVars
  /\ thread' = [thread EXCEPT ![a] = Idle]
  /\ UNCHANGED <<gatewayVars, now, high_water, policy, savedVars, auxVars>>

UnlockVolume ==
  /\ Unlock
  /\ UNCHANGED <<gatewayVars, now, deviceVars, savedVars, auxVars>>

\* publish_es_policy, in a thread of its own for every update; a failed push is
\* printed and forgotten.
PublishEsPolicy(v) ==
  /\ publishing[v] > 0
  /\ publishing' = [publishing EXCEPT ![v] = @ - 1]
  /\ \/ es' = v /\ UNCHANGED nfaults
     \/ Fault("xpc") /\ UNCHANGED es
  /\ UNCHANGED <<gatewayVars, now, deviceVars, volumeVars, record, unsaved, ckpt, accepted, taken,
                 lost, undone>>

\* sync_once saves a checkpoint when it has applied the commands it polled.
SaveCheckpoint ==
  /\ thread[Sync] = Idle
  /\ \/ ckpt' = high_water /\ UNCHANGED nfaults
     \/ Fault("disk") /\ UNCHANGED ckpt
  /\ UNCHANGED <<gatewayVars, now, deviceVars, volumeVars, record, unsaved, es, publishing, accepted,
                 taken, lost, undone>>

\* boot_enrollment and run_macos, after the process died at any step.
CrashAndBoot ==
  /\ Fault("crash")
  /\ high_water' = ckpt /\ policy' = record /\ unsaved' = FALSE
  /\ es' \in {record} \cup (IF "xpc" \in Faults THEN {es} ELSE {})
  /\ thread' = [a \in Applier |-> Idle]
  /\ publishing' = [v \in Version |-> 0]
  /\ Reprovision
  /\ lost' = lost \cup (ckpt + 1)..high_water
  /\ undone' = IF unsaved THEN undone \cup 1..high_water ELSE undone
  /\ UNCHANGED <<gatewayVars, now, record, ckpt, accepted, taken>>

Tick ==
  /\ now < MaxTime /\ now' = now + 1
  /\ UNCHANGED <<gatewayVars, deviceVars, volumeVars, savedVars, auxVars>>

-----------------------------------------------------------------------------
Issue ==
  \/ AuthorPolicy \/ RestartGateway
  \/ \E s \in Signer : ReadCurrent(s) \/ SignCurrent(s) \/ CounterFails(s)
  \/ \E body \in Body : SignControl(body)

Apply(a) ==
  \/ \E c \in Deliverable : Receive(a, c)
  \/ CheckVersion(a) \/ StorePolicy(a) \/ Observe(a)
  \/ ApplyLock(a) \/ ApplyWipe(a)

Next ==
  \/ Issue
  \/ \E a \in Applier : Apply(a)
  \/ UnlockVolume
  \/ \E v \in Version : PublishEsPolicy(v)
  \/ SaveCheckpoint
  \/ CrashAndBoot
  \/ Tick

Spec == Init /\ [][Next]_vars

-----------------------------------------------------------------------------
(* Properties. *)

Settled == \A a \in Applier : thread[a] = Idle
PolicyCommands == {c \in accepted : c.body.kind = "policy"}
Kept(c) == c.counter \notin lost \cup undone

\* A command takes effect again only when a crash fell between its acceptance by
\* verify and the checkpoint that sync_once saves at the end of the cycle, however
\* the path delays, repeats and reorders what was sent.
NoReplay == \A n \in Counter : taken[n] > 1 => n \in lost

\* Whatever changed the device was signed by the gateway, and addressed to it: every
\* policy in force, saved in the record or published to the Endpoint Security client,
\* a destroyed key and the high-water mark each trace back to a command that was sent.
Authentic ==
  /\ \A v \in {policy, record, es} :
       v # 1 => \E c \in sent : c.body = [kind |-> "policy", version |-> v]
  /\ ~key => \E c \in sent : c.body = [kind |-> "wipe", container |-> "ours"]
  /\ high_water # 0 => \E c \in sent : c.counter = high_water

\* The high-water mark on disk never outruns the policy on disk: the observer saves
\* the enrollment record before sync_once saves the checkpoint.  Otherwise a restart
\* would enforce the old policy and refuse the new one as a replay, for ever.
\* Excepted are the commands a crash kept out of the checkpoint (a later command may
\* take the mark past them) and those of a record that could not be saved.
DurablePolicy ==
  \A c \in PolicyCommands :
    c.counter <= ckpt /\ Kept(c) => record >= c.body.version \/ unsaved

\* When no command is being applied, a restart would enforce the policy in force: the
\* observer has caught up with update_policy, a boot after a crash between the two takes
\* its policy from the record, and so a reissue of a version heals a record that an
\* earlier save missed.  Excepted is a record whose last save failed.
RecordConverges == Settled /\ ~unsaved => record = policy

\* Rollback protection: when the one applier has finished, the policy in force is at
\* least as new as every policy that was accepted, through restarts of the gateway
\* (which starts its versions anew) and of the daemon, with the same exceptions.
NoRollback ==
  Settled => \A c \in PolicyCommands : Kept(c) => policy >= c.body.version

\* A policy once accepted is neither rolled back by a later command, an older one
\* delivered late or a restart, nor forgotten on disk.
PolicyKept == TypeOK /\ DurablePolicy /\ NoRollback
=============================================================================
