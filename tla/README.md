# A TLA+ model of Clave

Clave keeps a company's work inside an encrypted, supervised enclave on a personal
computer. A **daemon** on the device supervises processes, holds the encrypted volume,
decides what a supervised process may do, and keeps a hash-chained audit trail. A
**gateway** enrolls devices, signs commands for them (policy updates, lock, wipe), and
verifies the audit trail they ship. This directory models the parts of that system whose
correctness depends on the order of things: threads, crashes, lost messages, failing tools.

Paths below are relative to `src/crates/`.

## Inventory

| Component | State it keeps | Operations | Interacts with | What makes it correct |
|---|---|---|---|---|
| Audit spool (`clave-proto/src/audit.rs`) | `seq`, `head`, `pending` | emit, peek, confirm_through, resume_with | every thread of the daemon; sync | the chain never forks; trimming loses nothing |
| Gateway sync (`clave-daemon/src/lib.rs`) | a checkpoint file | sync_once: poll, apply, checkpoint, peek, push, confirm, checkpoint | spool, link, verifier, volume | an event is in the spool, on its way, or in the ledger |
| Links and pump (`clave-proto/src/link.rs`, `transport.rs`) | two channels and a socket | poll_commands, push_audit, pump | sync, gateway | what is acknowledged is delivered |
| Audit ledger (`clave-gateway/src/audit_ingest.rs`) | per device: key, `next_seq`, `head`; events; alerts | register, restore, ingest | `serve_device_audit`, the audit store | admits only the device's chain; alerts mean what they say |
| Signed commands (`clave-proto/src/{command,sign,verify}.rs`) | `high_water` | sign, verify | daemon | authentic, fresh, once |
| Policy issuer (`clave-gateway/src/policy.rs`) | policies (memory), counter (file) | author, issue, reissue | HTTP API | a reissued policy takes effect; no rollback |
| Daemon control (`clave-daemon/src/lib.rs`) | policy, observer, volume | apply_gateway_command, update_policy, lock, unlock, wipe | verifier, volume, platform | policy never goes back; record = policy in force |
| Enrollment record (`clave-daemon/src/enrollment_store.rs`) | a file | load, save, boot_enrollment | daemon control | a restart enforces what was in force |
| Portable volume (`clave-volume/src`) | cipher, wrapped key, wipe marker, sectors | unlock, lock, read, write, wipe | zones, daemon | reads return what was written; nothing after a wipe |
| Clave Disk on macOS (`clave-mac/src/volume.rs`) | Keychain item, sparsebundle, mount | attach, detach, request_wipe | the operating system | the passphrase opens the bundle; a wipe destroys it |
| Clave Disk on Windows (`clave-win/src/mount.rs`) | nodes, an index by path, a key | the callbacks of WinFsp | the kernel, zones | the tables describe one tree; files read back what was written |
| Control plane (`clave-gateway/src/{gateway,store}.rs`, `clave-identity/src`) | workspaces, members, invitations, devices | log in, enroll, invite, change role, suspend, lock, wipe | HTTP, identity provider | privileges only as granted, also under concurrent requests |
| Enrollment (`clave-daemon/src/enroll*.rs`) | certificate, keys, record | begin, poll, complete | control plane, issuer, key service | both sides agree on keys, or nothing is kept |
| Decisions (`clave-core/src`) | the policy bundle | decide, route, classify, validate | every enforcement hook | deny by default; audit what is denied |
| Zones and launches (`clave-core/src/zone.rs`, `app.rs`) | the zone registry | join, leave, exec, launch | volume, router, hooks | only what was launched is supervised |
| Split router (`clave-net/src`) | flows, link state | open, outbound, inbound, close | tunnel, zones | work traffic never leaves outside the tunnel |
| Local IPC (`clave-ipc/src`) | a framed stream | handshake, request, reply | launcher, shim | no frame is misread; every command ends |
| Gateway stores (`clave-gateway/src/{store,postgres,audit_ingest}.rs`) | members, devices, chains, events, alerts | the calls of `Store` and `AuditStore`, hydration | control plane, ledger | both implementations answer alike; a restart resumes every chain |
| Endpoint Security client (`clave-mac/src/{lib,es_gate}.rs`) | its own registry and policy | exec, exit, open, rename, load policy | the kernel, XPC, the daemon | the registry is exact; work stays inside |
| Job object and supervisor (`clave-win/src/job.rs`, `win_main.rs`) | the job, the zone | contain, query, pass | launches, the kernel | the zone follows the job |
| Guards and watches (`clave-mac`, `clave-win`) | a tag, a counter, what was reported | poll, clear, report | desktop, daemon decisions | tagged work is cleared; captures are reported |
| CLI, launcher, console | – | user interfaces | IPC, HTTP | a command ends, with an answer or an error |

Hard behaviours, listed one by one with their lines in `PROJECT.json` under `hazards`:
other threads emit while the sync thread peeks, pushes and confirms; a checkpoint is
read under several locks; a pump dies with batches it has acknowledged; a daemon dies
between the effect of a command and the checkpoint that remembers it; commands are
delayed, repeated and reordered; overlapping requests sign policies; a platform tool fails in
the middle of a wipe; a launch writes a home where the disk no longer is; requests of the control
plane read, await and write back; an enrollment is cut short on either side; pids are used again
between a launch, a query and an exit; guards poll a desktop that moves; a store call fails after the
ledger has moved on.

## Modules

| Module | Models | State |
|---|---|---|
| `AuditChain` | hashes, signatures, `verify_batch`, `confirm_through`, alert kinds (operators) | – |
| `AuditSync` | spool, `sync_once`, checkpoint, link, ledger, and the faults between them | see its header |
| `AuditDelivery` | what the audit path promises: a log, and a growing prefix of it at the gateway | `log`, `delivered` |
| `GatewayStores` | `MemStore` beside `PgStore`, the ledger beside both audit stores, overlapping batches, hydration | both stores, chains, requests |
| `ClaveVolume` | key states of the portable volume (actions shared by the next three) | `cipher`, `key`, `marker` |
| `ClaveDisk` | `MacVolumeMount` and the portable volume, as `run_macos` boots them and the daemon drives them | Keychain, bundle, mount, `pc` |
| `VolumeIO` | extends `ClaveDisk` with sector I/O behind the access gate | backing, zone |
| `LauncherIpc` | extends `VolumeIO` with the launcher, its channel, the daemon's tasks and the home of a launch | both ends, the socket, the accept loop |
| `WinDiskFs` | the file system of the Windows disk | `nodes`, `by_path`, handles |
| `GatewayControl` | issuer, signed commands, `verify`, `apply_gateway_command`, record, checkpoint, boot | see its header |
| `ControlPlane` | logins, sessions, administration, directory events and the gateway's side of enrollment, as concurrent requests | members, invitations, sessions, devices, requests |
| `Enrollment` | `clave enroll`, the gateway's handler, the key services, the record and the boot from it | see its header |
| `PolicyDecisions` | `decide`, clipboard, exec, path, flow and DNS rules (operators) | – |
| `WorkZone` | launches, the job object and the zone supervisor on Windows | `members`, `process`, `supervisor` |
| `SplitRouter` | flows, DNS flows, the tunnel and WinDivert | `flows`, policy, link |
| `WorkGuards` | clipboard guards, capture and tap watches, the input hook, the coalesced audit | see its header |
| `EsClient` | the Endpoint Security client, the publishing of policies to it, the search for a launched instance | see its header |
| `AuditProofs`, `DesktopProofs`, `WinDiskFsProofs`, `GatewayControlProofs`, `ControlPlaneProofs`, `EnrollmentProofs`, `ZoneProofs`, `EsClientProofs` | theorems | – |
| `MC*` | instances for TLC (`Enrollment` and `WorkZone` need none) | – |

`SplitRouter`, `WorkGuards` and `EsClient` extend `PolicyDecisions`; `GatewayStores` and `AuditSync`
extend `AuditChain`. A proof module may be about two models that share nothing but their subject; the
second then has prefixed names (`ZoneInit`, `GuardsSpec`, `StoresNext`), so that both can be extended. Where a module leaves another part open it says so in its header: processes enter
and leave the zone at any time in `SplitRouter`, which covers `WorkZone`; which policy is in force is
`GatewayControl`'s.

### How the models correspond to the code

*Hashes and signatures.* A hash is represented by its preimage, the whole sequence of
links below it, and a signature by the pair of the key and what it covers. SHA-256 is so
taken to be collision free and Ed25519 to be unforgeable; everything else about
`verify_batch`, including the order of its checks, is as in the code.

*Granularity.* One action is one critical section or one call that leaves the process.
`sync_once` is nine steps, because `Daemon::checkpoint` takes the spool's mutex three
times and `emit` runs in other threads; `emit` itself is one. `update_policy` is three steps (load and compare,
store, observer), `sign_current` two (read the bundle, draw the counter). In `ClaveDisk` each
Keychain call and each run of hdiutil is a step that may fail or be the last of the process.
In `ControlPlane` a request is one step per call of the store that another request can affect or
see, and may end before any of them. `GatewayStores` takes a SQL statement, or a transaction that holds
the row it updates, as one step. A launch in `LauncherIpc` is one step per directory it makes, because
the disk may go away between any two. The guards are one step per call of the operating system.

*Files.* The checkpoint, the enrollment record and the policy counter are saved by writing a temporary file and
renaming it, so they hold their old or their new contents; a save that fails is ignored, as in the code. The policy
file of the Endpoint Security client is a plain `fs::write` (`mac_main.rs:355`) and takes two steps in `EsClient`, the
second of which may fail and leave the file empty or cut short.

*Identities.* On Windows a member of the zone is a pid (`proc_id_for_pid` gives every process the creation
time 0); in the Endpoint Security client it is an audit token, which changes with every exec.

*Two implementations of one thing.* The macOS and Windows clipboard guards are two modes of one action
system, chosen in `Init`; the in-memory and PostgreSQL stores are driven by the same calls side by side.

*Restarts.* `CrashAndBoot` gives each part what its boot code gives it: the verifier the
saved high-water mark, the policy from the record, a fresh spool
(`BootMode = "fresh"`, `mac_main.rs:133` and `win_main.rs`) or one resumed from the
checkpoint (`"resume"`, as the integration tests boot it), a newly provisioned portable volume.

*The path.* In `AuditSync` batches are in order unless a fault disturbs them; the faults drop, repeat,
rewrite, garble and forge. In `GatewayControl` everything ever sent may be delivered at any
time, any number of times, together with envelopes that are unacceptable in each of the
ways `verify` tells apart.

Definitions whose comment begins with "Mutant" are faulty variants of the definition that
follows them; no specification uses them. Each shows that a property notices a plausible bug.

## Runs

A run is `tlc -config <cfg> <module>`. Every bound is a constant of the `.cfg`.

| Run | Module | States | Shows |
|---|---|---|---|
| `audit_delivery` | `MCAuditSync` | 53 k | over a link that comes and goes and a disk that may fail: no event is lost (`NothingLost`) and each arrives (`EventuallyDelivered`); a suppressed batch raises an alert when the device next ships (`SuppressionDetected`); the path implements `AuditDelivery` (`Refinement`) |
| `audit_faults` | `MCAuditSync` | 1.5 M | whatever two of nine faults do, the ledger holds only what the device hashed (`LedgerGenuine`) and every alert has its cause (`AlertsExplained`) |
| `disk` | `MCLauncherIpc` | 181 k | passphrase and bundle match (`PassphraseOpensBundle`), crypto-shredding holds (`ShreddedNeverMounts`), a wiped volume stays dark (`WipedStaysLocked`), reads return what was written, to the zone only (`RoundTrip`), a launch writes its home on the disk (`HomeOnDisk`), and every command of the launcher ends (`CommandsEnd`) |
| `control` | `MCGatewayControl` | 651 k | `NoReplay`, `Authentic`, the record follows the policy (`RecordConverges`), and a policy that was recorded is neither lost nor rolled back (`PolicyKept`), for every kind of command and bad envelope, with crashes, gateway restarts and failing saves |
| `plane_requests` | `MCControlPlane` | 689 k | two requests at a time, cut short anywhere: nobody rises above the founders (`NoEscalation`), admission follows invitation, domain and SSO mode (`AdmittedOnly`), nothing usable is left half done (`NothingHalfDone`), a suspension lasts (`SuspensionSticks`) |
| `enrollment` | `Enrollment` | 444 k | only the tenant's policy is kept (`PinnedOnly`); what is saved opens at the next boot and the gateway knows the device (`EnrollmentHolds`); a readable record is never replaced by a development one (`EnrollmentReplaced`); the command ends (`EnrollTerminates`) |
| `work_zone` | `WorkZone` | 117 k | a pass of the supervisor leaves exactly the job in the zone (`PassExact`), and what is contained, or gone, gets there (`ZoneFollowsJob`) |
| `router` | `MCSplitRouter` | 149 k | work traffic never leaves directly (`WorkNeverDirect`); a flow keeps one route, and `decide`, router and WinDivert agree (`RoutesAgree`) |
| `guards` | `MCWorkGuards` | 165 k | no kind of refusal goes silent (`DenialsExplained`), tagged work is cleared and nothing else (`ClipboardGuarded`), captures and taps over work are reported (`SubjectsNoticed`) |
| `es_client` | `MCEsClient` | 1.04 M | the registry is exact (`ClientExact`), work cannot save outside unless a policy says so (`Contained`), an undisturbed update arrives whole (`EventuallyPublished`), a launch neither finds nor joins an instance that was there before it (`LaunchFindsNew`) |
| `win_disk` | `MCWinDiskFs` | 60 k | the two tables describe one tree (`TreeExact`), files read back what was written (`ReadBack`), an enumeration misses nothing (`ListingComplete`) |
| `stores` | `MCGatewayStores` | 460 k | both stores answer alike (`StoresAgree`), and a restarted gateway resumes each chain where it was, with genuine events only (`LedgerRestorable`) |

Deadlock is checked where the system never stops (`audit_*`, `control`, `router`, `guards`). Elsewhere the
bound on requests, starts, attempts or commands is reached and every task has ended: there is nothing left to do.

### Known divergences

The models show places where the code does less than its documentation, its comments or a reader would
say. They are part of the actions, and the properties above are stated so as to allow them:

*Audit and control*

* A restarted daemon begins a new chain (`mac_main.rs:133`), which the ledger rejects for good, although
  `clave-daemon/tests/integration.rs:1128` resumes it from the checkpoint.
* After a restart of the gateway its policy versions begin again (`server_main.rs:53`), and a reissued policy
  is refused as a rollback, although `docs/18:262` lets an administrator reissue at any time.
* With the fallback on a loopback link, or after the pump ends, events are acknowledged and lost
  (`lib.rs:1038`).
* `PumpDies`: batches the channel had accepted are lost with the pump (`transport.rs:94-116`), and
  nothing reconnects, so that the spool retains everything from then on (`lib.rs:1029-1050`).
* `CrashAndBoot("unreachable")`: the loopback that stands in for an unreachable gateway
  acknowledges batches nobody will see (`mac_main.rs:202-208`).
* `ReadSeq`, `ReadHead`, `SaveCheckpoint`: an `emit` between them tears the checkpoint, and a spool
  resumed from it does not continue the chain the ledger has (`lib.rs:565-582`).

*Disk and volume*

* `request_wipe` returns when `detach` fails, before the passphrase is deleted (`volume.rs:330`), and the caller
  ignores it (`lib.rs:521`): the wipe reports success, against `docs/04:167`.
* `PrepareLaunch`: `mount_point()` says where the disk was attached, not that it is; a launch after the user
  ejected it, or one a wipe overtakes, makes its home under `/Volumes` on the system disk. The environment of a
  launch profile may also name another `HOME` (`app.rs:137`).
* `AcceptFails`: with the overlay enabled, an error of `accept` drops the runtime, and with it every launcher
  connection and the gateway pump, while the daemon lives on (`mac_main.rs:179-183`).
* `HandleQuery`: the reply to `PeekAudit` has no bound and may exceed `MAX_FRAME`.
* Windows disk: `open` does not ask who calls (`docs/04:92`), a rename that replaces a directory with children
  orphans them, the capacity is per file, an enumeration whose marker is gone starts again, and the key is fixed
  for the process (`win_main.rs:48`), so that contents are served after a wipe.
* `rename` on the Windows disk finds the children of a directory by their folded keys, but cuts the spelling of each at
  the length in bytes of the directory's own spelling (`mount.rs:587`). Letters whose cases differ in that length break
  this: with a directory `\ⱥ` (3 bytes) and a child created as `\Ⱥ\b` (2 bytes), renaming the directory to `\c` makes the
  child `\cb`, no longer below `\c` (`cut_fits`, `tangled`); with other spellings the cut falls inside a character and
  panics while the mutex is held, after which every callback panics (`rename_panics`, `poisoned`).
* `LockVolume`, `Crash` in `ClaveDisk`: the mounted disk stays mounted (`lib.rs:481-488`), although
  `docs/04-encrypted-volume.md:23` says that it unmounts when the daemon dies.
* `Reprovision`: key and wipe marker of the portable volume do not survive the process, so unlock
  succeeds after a wipe and a restart (`mac_main.rs:112-123`).

*Commands, members and enrollment*

* `CrashAndBoot` in `GatewayControl`: a command applied before the checkpoint was saved is accepted
  again after the crash (the `lost` of `NoReplay`).
* `CheckVersion`, `StorePolicy`: of two applying threads that both pass the check, the older bundle
  may be stored last. `run_macos` starts only one applier.
* `PublishEsPolicy`: two publishing threads may finish in the other order.
* `put_membership`: a stale write may demote a member who was made more senior than the caller meanwhile,
  although the code refuses to "modify a more senior member" (`gateway.rs:415`), or put back a role that was
  taken away.
* `record_device`: a locked or wiped device that enrolls again is active, under the user who first enrolled it
  (`store.rs:313-317`).
* A change of role that overlaps a suspension writes the old status back (`gateway.rs:420`), although
  `docs/15:158` says that a suspension takes effect at once.
* Enrollment draws the identity key it sends and the seed it signs its audit trail with independently
  (`enroll_client.rs:241-247`), so that the ledger registers a key the device never uses; a grant without a
  volume key is accepted and every later boot panics; a key sealed by `SealedVolumeKeyService` is refused by the
  command line; an unreadable record becomes a development enrollment while the checkpoint of the tenant stays;
  a running daemon overwrites a new enrollment, or a damaged record, with its next policy or with a reissue of the
  version it has (`lib.rs:458-467`, `mac_main.rs:142-147`); a device code may be redeemed twice; errors
  of hydration and of registering a key are ignored.
* Stores: `MemStore` keeps resolving a replaced fingerprint and `PgStore` does not; `PgAuditStore` drops the events
  of a device that enrolled again; overlapping batches may persist an old or torn chain; the console reads events
  and alerts from memory only; the order of invitations depends on the collation; nothing in the server creates a
  workspace.

*Zones, routes and guards*

* Windows: `launch_web` does not contain what it launches (`lib.rs:273`), so the supervisor drops it from the zone
  (`docs/17:20`); children started before `contain` are never in the job; `contain` opens a pid that may have been
  used again (`job.rs:56`); a member is a pid without its creation time (`lib.rs:779`, against `win_main.rs:165`).
* macOS: the daemon's registry is never left; the client keeps a registry and a policy of its own, loses both when it
  restarts, and is not told of forks; overlapping pushes may leave the older policy; a policy file that could not be
  written may be empty or cut short (`mac_main.rs:355`), and the client then starts with that. When `plutil` does not tell
  the identifier of the bundle, a launch excludes nobody (`lib.rs:652-654`) or joins the pid of `open` without a search
  (`launch.rs:57`); a search that times out ends in a running instance, new or not, or in that pid (the `sure` of
  `LaunchFindsNew`). Two launches of one bundle at a time may find the same instance (one launch is modelled).
* Router and client do not look at `not_after` (`docs/10:47`).
* A `blocked_hosts` entry whose spelling does not parse as an address (one with a trailing dot) is refused by `decide`
  and the router and let through by WinDivert, which only has addresses (`BlockedAddresses`); `RoutesAgree` is about
  the others (`Readable`).
* Clipboard: what is copied in work before a switch and polled after it is tagged personal; on Windows a failing
  read of the formats is never refused, and a failing clear forgets the tag.
* Overlay (not modelled): the ring overlaps itself when the window is lower than twice its width.

### Bounds, and why they are enough

Audit path: a batch that was shipped, one on its way and one emitted meanwhile need three events for delivery; with
nine kinds of fault two events and two faults are enough for a chain to be cut, repeated, rewritten or begun again.
Two event values tell a rewritten event from a genuine one; two keys tell a forger from the device. The runs boot
a fresh spool, as the binaries do; a spool resumed from the checkpoint is covered by the theorem `AuditIntegrity`.

Disk and launcher: a wipe cut short and a boot that mints again need two faults and two passphrases. One command at a
time, because commands share nothing but the accept loop; the browser exercises every directory a launch can make.
Two sectors and buffers of two reach every placement at the end of the backing, and a wrong tweak yields garbage.

Control: an old and a new command suffice for replays and rollbacks (version 1 is installed from the start), and two
signing requests overlap. One applier is what `run_macos` starts, so that what two appliers could do to each other is not
in the run; `RecordFollows` proves the convergence of the record for any set of them. Clocks run to 2, with an age and a
skew of 0, and the gateway's may be 1 ahead of the daemon's, so that fresh, stale and future envelopes all occur.

Control plane: the longest story is an invitation, a login, a change of role and a suspension that overlap: four
requests, two at a time, among an administrator, a stranger, one of an allowed domain who does not use SSO, and one who
does but is of another domain: each half of the admission rule is what keeps somebody out. for the last
two, who cannot get far, `Followed` checks but does not continue the states in which all four requests have begun. Two clock values
and a lifetime of 0 make sessions and invitations expire. Enrollment: two attempts, so that a second one meets what a
first has left; two polls reach the limit; one fault cuts each step short. Stores: two devices, two overlapping
batches, one restart, six operations.

Zones and the client: two pids and three starts are enough for a pid to be used again while its last owner is being
left, a launch and a supervisor pass to overlap, and a child to appear. Router: one flow identifier, used again. Guards:
four moves of the user (copy, switch, policy, close), one failing call, and time to cross the two seconds of
coalescing. Client: one fault (a push without answer, a failing write, a restart, an unknown identifier, a search that times out),
which is enough for each exception to occur, but not for several of them together. Windows disk: two handles over paths of up to two components, with one name in three
spellings, one of them longer in bytes; sectors of 2 bytes and a capacity of 3 make every write unaligned or full. A
single node sees four operations, its creation among them, so that write, truncate and extend follow one another; `Followed` continues a state with
more nodes only up to three, and less once a rename has tangled the tables.

`audit_faults`, `control`, `plane_requests` and `stores` identify states that differ by an interchange of event values,
signing requests, request slots or devices, which their invariants only compare; no run with a temporal property does.

### Fairness

* `AuditSync`: the sync thread (`spawn_gateway_sync` loops for the life of the process), `Ingest` (`serve_device_audit`
  awaits the next batch in a loop), and the link coming back after an outage, which is the environment's part of
  every delivery promise.
* `Enrollment`: the steps of the command line and of the gateway's handler, both run to completion by their runtimes.
  Nobody is forced to approve the code: the limit on polls ends the command.
* `WorkZone`: the supervisor thread, which loops, and the rest of a launch that has spawned.
* `WorkGuards`: the polling threads. `EsClient`: each publishing thread, until it is answered or gives up.
* `LauncherIpc`: the launcher's task and the daemon's task of each connection.

The user, the operating system, `Emit` and all faults are never forced.

## Proofs

`tlapm` checks the theorems for every value of the constants that satisfies the named
assumptions (`NoKeyAssumption`, `SyncAssumption`, `DiskAssumption`, `VolumeIOAssumption`, `LauncherAssumption`,
`WinDiskAssumption`, `ControlAssumption`, `PlaneAssumption`, `EnrollmentAssumption`, `RouterAssumption`, `EsAssumption`,
`WorkZoneAssumption`, `GuardsAssumption`, `StoresAssumption`). These say that bounds
are numbers, that sets TLC would enumerate are finite where a cardinality is taken, that the values a run chooses (launched
pids, payloads, the roles the console assigns) are of their kinds, and, in `RouterAssumption`, that an
IPv4 address that parses has one spelling, in `EsAssumption` that the bundles are numbered from 1 and that `open` is not an instance
of the application it opens, in `WinDiskAssumption` that a sector has at least one byte, that the lengths of names are numbers and that no two spellings of a name have the same rank (names that differ in case only
are then listed one after the other), and in `StoresAssumption` that there are a key, and a workspace to
enroll in, for the first device. Two theorems have a hypothesis of their own, named below.

*Audit trail* (`AuditProofs`, first part, which begins with the operators of `AuditChain`: `verify_batch`, prefixes and entries)

* **`AuditIntegrity`**: `Spec => [](TypeOK /\ LedgerGenuine)`, with all faults allowed.
  `LedgerGenuine` is not inductive: that an accepted batch continues the device's chain
  follows from what can be on the wire. `IntegrityInv` adds that every signature by the device's key
  covers a head the spool has had, that such heads are closed under what
  the spool, the checkpoint and the sync thread's locals hold, and that numbers are
  without holes.
* **`LedgerHoldsPrefix`**: the path implements `AuditDelivery`, step by step, under every fault but a restart of
  the daemon (the hypothesis `Faults \cap {"crash", "unreachable"} = {}`): a restarted daemon begins a new chain, so
  that the promise is made to one life of the process. `SpoolInv` ties the spool to the entries of its head, from the
  position after the last confirmed one; then an accepted batch is a piece of the log at the place where the ledger ends.
* **`TrimKeepsAll`**: `NothingLost`. `PathInv` says, as long as nothing but outages and failed saves has happened, that
  the batches on the link are pieces of the log, each beginning where the one before it, or the ledger, ends, and that
  the last ends with what sync_once has pushed (`PathEnd = Shipped`).
* **`AlertsMeanIt`**: `AlertsExplained`. `AlertInv` classifies every batch on the link by what must have happened for it
  to be there (`Explained`), so that each outcome of `verify_batch` has its cause.

*What the gateway keeps* (`AuditProofs`, second part, about `GatewayStores`), for any users, workspaces, devices and overlapping requests

* **`AuditRestorable`**: `LedgerRestorable`. For a device that is not set apart, because a call of the store failed or two of
  its requests overlapped, what the audit store lacks of its chain is what its one request is about to store
  (`DeviceSynced`): after `ingest` the batch under way carries the missing links (`Carries`), after `register` the chain is
  still to be persisted (`RegisterSynced`), after a refusal the latest alert is still to be recorded (`AlertsSynced`). A
  restart in between sets the device apart, and one at rest finds everything stored (`AllStored`). That rows are genuine holds
  without any exception: whatever is under way or stored was put in a spool by the holder of the device's key (`Signed`,
  `SignedBy`), because a batch is signed by the key its chain is registered with.
* **`OneStore`**: `StoresAgree`. The two stores number users apart (`PgUpsertUser` draws a number even for a user it
  knows), so `DirInv` relates them by email and order: `UsersOK` makes the two numberings one order, from which the lists
  have the same positions by a bijection between the members before a given one (`SamePosition`); `SameDevice` relates the
  rows of a device, and `FingerprintsOK` says that a row has the latest of its device's certificates.

*Disk and volume* (`DesktopProofs`, first part, about `LauncherIpc`, which extends `VolumeIO` and `ClaveDisk`)

* **`DiskSafe`, `Shredding`, `WipedDark`**. `DiskInv` adds what `attach`
  knows between its steps (a passphrase is minted only where no bundle exists; the
  one in hand is the one stored), that passphrases are numbered in the order of
  minting, and that a deleted one is in nobody's hands.
* **`DiskKept`**: every step of the composition is a step of `ClaveDisk` or leaves its variables alone (`LSpec => Spec`),
  which carries the three theorems above over to it.
* **`ReadsWhatWasWritten`** (`RoundTrip`) and **`HomeStaysOnDisk`** (`HomeOnDisk`), from `ComposedInv`: each sector
  in the backing is its plaintext under the tweak of its place; while a launch writes its directories, and nothing
  disturbed it, the disk is attached (`HomeUnder`).

*The disk on Windows* (`WinDiskFsProofs`), for any names, case folding and lengths in bytes, any paths, buffers, sector size and capacity

* **`ReadsBack`**: `ReadBack`. `Holds` relates a node to its content, the zeros up to the end of the last sector included;
  `WriteAsDefined`, `ConstrainedAsDefined` and `ResizeAsDefined` show that what the callbacks splice together is, byte by
  byte, what the reference `Written` says, and `StoreHolds` and `DecryptHolds` that encrypting by sectors loses nothing.
  The invariant adds that the content of a number no node has is empty.
* **`TreeStaysExact`**: `TreeExact`, until a rename replaces a directory that has children or cuts the name of a node at
  the wrong byte. Two strengthenings are needed. What the index holds is true even after that (`IndexOK`), and not only the parent but every ancestor of a node is a directory of the table
  (`Rooted`): a rename moves whole subtrees, and that nothing else lies where they go follows from the ancestors of what
  would lie there. The argument is made on keys alone (`RenameMoves`, `MovedOnePerKey`, `MovedAncestors`) and needs both
  of the conditions the filesystem relies on Windows to check, that the target is not below what is renamed and
  that its parent is a directory.

* **`NothingSkipped`**: `ListingComplete`. `ListingOK`: the names an enumeration still owes lie after its marker, also
  when what the marker names is removed between two pages, because the listing then starts again from the first name.

*Guards and watches* (`DesktopProofs`, second part, about `WorkGuards`), for any processes, payloads and policies

* **`NoSilentDenial`**: `DenialsExplained`. Coalescing compares with the last event only; `AuditOK` says that this event was
  audited and that the last refusal has one of its kind less than the interval before it, or from after the clock was set back.
* **`OnlyWorkCleared`**: the safety half of `ClipboardGuarded`. `ClipOK`: what a guard has tagged is the payload last copied in
  the work zone, and it decides to clear only while its own reading of the counter is that payload's.

*Commands* (`GatewayControlProofs`)

* **`ReplaySafe`, `ControlAuthentic`, `RecordFollows`**, for any number of
  applying threads. `Marked`: a counter that was taken lies at or below the high-water mark, or a crash
  kept it out of the checkpoint. `Held` and `Backed` follow the signature of a command from
  `verify` through the appliers to the policy in force and to disk, `Published` from there to the
  Endpoint Security client. `Owed`: while record and policy differ,
  some thread still has to call the observer, or the last attempt to save the record failed.
* **`PolicyNeverRollsBack`**: `PolicyKept`, for the one applier that `run_macos` starts (the hypothesis
  `Applier = {Sync}`; with two the older of two policies may be stored last). `KeptInv`: a policy that was accepted is in
  force or about to be, and while the mark on disk covers it the record on disk does too (`DurablePolicy`).

*Control plane* (`ControlPlaneProofs`)

* **`PlaneSafe`, `Admission`, `BreakOffSafe`, `SuspensionLasts`**, for any number of concurrent
  requests. The properties of the store are not inductive, because requests carry what they
  have read: `Sound` says what each request has established at each of its steps and may
  still rely on (these facts are never withdrawn: memberships, invitations and registrations
  are not removed, and the founders are fixed). `SuspensionInv` says that no request under way can write
  an active membership for a user whose suspension was not overtaken.

*Enrollment* (`EnrollmentProofs`)

* **`OnlyTheTenants`** (`PinnedOnly`), **`EnrollmentLasts`** (`EnrollmentHolds`), **`LaterReplacesEarlier`**
  (`EnrollmentReplaced`), for any number of attempts, polls, commands and faults. `EnrollInv` follows one grant from the
  gateway to the record: what the handler has registered before it answers (`Registered`, `Known`, which a restart of the
  gateway keeps because the ledger's keys come back from the audit store), what `accept` has let through to `save`, and
  for each record on disk or in memory that it opens, that its device is known and that its version only grew (`RecordOK`).

*Routes, the zone on Windows and the Endpoint Security client* (`ZoneProofs`, `EsClientProofs`)

* **`RouterSafe`** (`WorkNeverDirect`) and **`OneAnswerToAConnect`** (`RoutesAgree`), for any processes, hosts, policies and number of flows. `RouterInv`
  records what held when a flow was opened (`FlowOK`), since zone and policy move on while it lives.
* **`PassLeavesTheJob`**: `PassExact`, for any number of pids, launches, failures and restarts. `PassInv` says, while the job
  has not changed since the last query, how much of it each half of a pass has brought into the zone, and which members are still
  to leave; a launch that joins meanwhile is fresh.
* **`ClientKnowsWork`** (`ClientExact`), **`WorkContained`** (`Contained`), **`LaunchJoinsNew`** (`LaunchFindsNew`), without bound
  on forks, execs and exits. Work is here what this client has seen execute a listed application, or has seen executed by
  work: the child of a fork counts from its first exec, and nothing counts that ran before the client started. `ProcOK`:
  a token whose exit is still to be notified is no live process's, which is why a delayed exit takes no work out of the
  registry; `PushesOK`: while pushes are orderly only the newest is under way. `LaunchFindsNew` is about states long after the
  search, when the pid found may have exited, been used again, forked or executed something else. `LaunchOK` says that while a
  launch searches, everybody who runs the bundle and was not excluded is younger than the launch: the excluded set was
  taken before, and a pid in it stays excluded whoever has it.

Some are proved for more than is checked: `RecordConverges` for any set of appliers, `LedgerGenuine` for
a resumed spool too, and all of them for any number of processes, requests, flows, attempts and events.

Every safety invariant and action property that a run checks is a theorem, and so is the refinement of `AuditDelivery`.
Only model-checked: what is stated under fairness (`EventuallyDelivered`, `SuppressionDetected`, `EnrollTerminates`,
`ZoneFollowsJob`, `SubjectsNoticed`, `EventuallyPublished`, `CommandsEnd`, and the half of `ClipboardGuarded` that says that
work is cleared in the end), which is out of the prover's reach, as is `ENABLED`.

## Not modelled, and why

Cryptography (taken to be perfect), TLS, serialization, user interfaces and drawing have no
protocol state. Time is a small counter. `ControlPlane` is one workspace whose domains and SSO mode do not change.
Read-only queries of the HTTP API, `validate` and `classify_path` change nothing and decide nothing in the
daemon's control flow. The framing of the gateway pump and the frame its `select` may drop half read are left out
(the model ends the pump as a whole), as are named pipes, the peer authentication of the shim channel, attributes and
times of files, and the WireGuard handshake (a link that is up or down). `ClaveDisk` leaves out that `diskutil info`
may fail, and that hdiutil may leave a partial bundle behind.

## Plan

Done: every component listed as modelled or partly modelled in `PROJECT.json`. Left:

1. The framing of the gateway pump with a read that is cancelled half way.
2. Two commands of the launcher at a time.
