------------------------------ MODULE EsClient ------------------------------
(***************************************************************************)
(* The Endpoint Security client of macOS and what it knows.                *)
(*                                                                         *)
(*   ZONES, POLICY (clave-mac/src/lib.rs)           es_zones, es_apps      *)
(*   EsGateConfig (clave-mac/src/es_gate.rs)        es_files               *)
(*   publish_es_policy and its threads              push, file             *)
(*     (clave-daemon/src/mac_main.rs)                                      *)
(*   spawn_macos_app, wait_for_new_app_pid          launch                 *)
(*     (clave-daemon/src/lib.rs, clave-mac/src/launch.rs)                  *)
(*                                                                         *)
(* The client runs in a process of its own, with a registry and a policy   *)
(* of its own.  Its registry holds audit tokens, a pid with the version    *)
(* the kernel gives it at every fork and exec; the daemon's registry only  *)
(* holds pids.  Forks are not among the events the client subscribes to,   *)
(* and the end of a process is notified after the fact.  Every policy      *)
(* update starts a thread that pushes it over XPC until it is answered or  *)
(* 15 seconds are over; where no publisher is registered the policy is     *)
(* written to a file the client reads when it starts; the file is emptied  *)
(* first, not replaced.                                                    *)
(***************************************************************************)
EXTENDS PolicyDecisions, FiniteSets

CONSTANTS Pids,         \* process identifiers
          OpenPid,      \* that of `open', which the daemon does not wait for: a zombie
          Binaries,     \* what can be executed; App is what the daemon launches
          App,
          Policies,     \* the bundles, one after the other
          MaxVersion,   \* bound on audit token versions, hence on forks and execs
          MaxFaults     \* bound on unanswered pushes, failing writes and tools, launches
                        \* that time out, client restarts

ASSUME EsAssumption ==
  /\ IsFiniteSet(Pids) /\ OpenPid \notin Pids /\ App \in Binaries
  /\ Len(Policies) \in Nat \ {0} /\ DOMAIN Policies = 1..Len(Policies)
  /\ MaxVersion \in Nat /\ MaxFaults \in Nat

VARIABLES
  proc,         \* per pid: the process, or Absent
  tokens,       \* the last audit token version given out
  exits,        \* tokens whose NOTIFY_EXIT is still to come
  es_zones, es_apps, es_files,   \* the client: registry, and versions loaded (0: none)
  version,      \* Daemon.policy
  xpc,          \* a policy publisher is registered
  push,         \* per version: its publishing thread
  file,         \* the version in the policy file (0: none, or it does not parse)
  daemon_zones, \* the daemon's registry, by pid
  launch,       \* a launch under way
  faults,       \* what has been used of MaxFaults
  orderly,      \* auxiliary: no two pushes overlapped, none was given up or failed, no restart
  leaks         \* auxiliary: the file policies under which a work process wrote outside

publication == <<version, xpc, push, file>>
client == <<es_zones, es_apps, es_files>>
vars == <<proc, tokens, exits, client, publication, daemon_zones, launch,
          faults, orderly, leaks>>

Absent == [version |-> 0]
Present(p) == proc[p] # Absent
Token(p) == <<p, proc[p].version>>
Supervised(p) == Token(p) \in es_zones

\* Loaded before anything was: an empty allow-list that saves nothing outside.
EsPolicy(v) == IF v = 0 THEN [apps |-> <<>>, allow_save_outside_enclave |-> FALSE] ELSE Policies[v]
PushAt == {"none", "ready", "write", "files", "done", "gone"}

\* spawn_macos_app: the pids it excludes and the one it has found; auxiliary, the
\* tokens given out when it began, and whether its search was neither blind nor over.
LaunchAt == {"idle", "open", "wait", "join", "over"}
NoLaunch == [at |-> "idle", before |-> {}, found |-> {}, since |-> 0, sure |-> TRUE]

TypeOK ==
  /\ \A p \in Pids : Present(p) => proc[p].version \in 1..tokens /\ proc[p].binary \in Binaries
  /\ tokens \in 0..MaxVersion
  /\ exits \subseteq Pids \X (1..tokens) /\ es_zones \subseteq Pids \X (1..tokens)
  /\ es_apps \in 0..version /\ es_files \in 0..version /\ file \in 0..version
  /\ push \in [DOMAIN Policies -> PushAt] /\ xpc \in BOOLEAN
  /\ daemon_zones \subseteq Pids \cup {OpenPid}
  /\ launch.at \in LaunchAt /\ launch.before \subseteq Pids
  /\ launch.found \subseteq Pids \cup {OpenPid} /\ launch.since \in 0..tokens
  /\ faults \in 0..MaxFaults

\* The daemon publishes the policy it boots with before it serves anyone.
Init ==
  /\ proc = [p \in Pids |-> Absent] /\ tokens = 0 /\ exits = {}
  /\ es_zones = {} /\ es_apps = 0 /\ es_files = 0
  /\ version = 1 /\ xpc \in BOOLEAN /\ file = 0
  /\ push = [v \in DOMAIN Policies |-> IF v = 1 THEN "ready" ELSE "none"]
  /\ daemon_zones = {} /\ launch = NoLaunch
  /\ faults = 0 /\ orderly = TRUE /\ leaks = {}

Fault == faults < MaxFaults /\ faults' = faults + 1

(***************************************************************************)
(* Processes                                                               *)
(***************************************************************************)
Processes(rest) == UNCHANGED <<publication, es_apps, es_files, faults, orderly, rest>>

\* clave_mac_authorize_exec, for the image that takes over pid p.
authorize_exec(p, binary, parent_supervised, parent_work) ==
  LET verdict == classify_exec(binary, FALSE, parent_supervised, EsPolicy(es_apps).apps)
  IN /\ tokens < MaxVersion /\ tokens' = tokens + 1
     /\ es_zones' = es_zones \cup (IF verdict.joins_zone THEN {<<p, tokens + 1>>} ELSE {})
     /\ proc' = [proc EXCEPT ![p] = [version |-> tokens + 1, binary |-> binary,
                                     work |-> verdict.matched # None \/ parent_work]]

\* launchd starts a process for the user.
UserStart(p, binary) ==
  /\ ~Present(p)
  /\ authorize_exec(p, binary, FALSE, FALSE)
  /\ Processes(<<exits, daemon_zones, launch, leaks>>)

AuthExec(p, binary) ==
  /\ Present(p)
  /\ authorize_exec(p, binary, Supervised(p), proc[p].work)
  /\ Processes(<<exits, daemon_zones, launch, leaks>>)

\* The child has a token the client has not seen.
Fork(p, c) ==
  /\ Present(p) /\ ~Present(c)
  /\ tokens < MaxVersion /\ tokens' = tokens + 1
  /\ proc' = [proc EXCEPT ![c] = [proc[p] EXCEPT !.version = tokens + 1, !.work = FALSE]]
  /\ Processes(<<exits, es_zones, daemon_zones, launch, leaks>>)

\* The exit of a token that is not in the registry will change nothing there.
Exit(p) ==
  /\ Present(p)
  /\ proc' = [proc EXCEPT ![p] = Absent]
  /\ exits' = exits \cup ({Token(p)} \cap es_zones)
  /\ Processes(<<tokens, es_zones, daemon_zones, launch, leaks>>)

\* Whatever has the pid of the exited process leaves the zone.
PidMutant(token) ==
  /\ token \in exits
  /\ exits' = exits \ {token}
  /\ es_zones' = {t \in es_zones : t[1] # token[1]}
  /\ Processes(<<proc, tokens, daemon_zones, launch, leaks>>)

zone_leave(token) ==
  /\ token \in exits
  /\ exits' = exits \ {token}
  /\ es_zones' = es_zones \ {token}
  /\ Processes(<<proc, tokens, daemon_zones, launch, leaks>>)

(***************************************************************************)
(* Files: what the client allows, and where work content goes then.        *)
(***************************************************************************)
allow_save == EsPolicy(es_files).allow_save_outside_enclave

authorize_open(p, inside, write) ==
  IsAllow(decide_file_open(Supervised(p), inside, IF write THEN "Write" ELSE "Read", allow_save))

\* Only the file that is moved is looked at.
SourceOnlyMutant(p, from, to) == authorize_open(p, from, FALSE)

\* clone, rename and link: the source is read and the target written.
authorize_relocation(p, from, to) ==
  authorize_open(p, from, FALSE) /\ authorize_open(p, to, TRUE)

Leak(p, out) == leaks' = leaks \cup (IF out /\ proc[p].work THEN {es_files} ELSE {})

AuthOpen(p, inside, write) ==
  /\ Present(p)
  /\ authorize_open(p, inside, write)
  /\ Leak(p, write /\ ~inside)
  /\ Processes(<<proc, tokens, exits, es_zones, daemon_zones, launch>>)

AuthRelocate(p, from, to) ==
  /\ Present(p)
  /\ authorize_relocation(p, from, to)
  /\ Leak(p, from /\ ~to)
  /\ Processes(<<proc, tokens, exits, es_zones, daemon_zones, launch>>)

(***************************************************************************)
(* Publishing a policy                                                     *)
(***************************************************************************)
Publishing(rest) == UNCHANGED <<proc, tokens, exits, es_zones, daemon_zones, launch, leaks, rest>>
Busy(v) == push[v] \in {"ready", "write", "files"}

update_policy ==
  /\ version + 1 \in DOMAIN Policies
  /\ version' = version + 1
  /\ push' = [push EXCEPT ![version + 1] = "ready"]
  /\ orderly' = (orderly /\ \A v \in DOMAIN Policies : ~Busy(v))
  /\ Publishing(<<es_apps, es_files, xpc, file, faults>>)

\* write_es_policy_file is a plain fs::write: it creates or empties the file ...
create_policy_file(v) ==
  /\ ~xpc /\ push[v] = "ready"
  /\ \/ /\ file' = 0 /\ push' = [push EXCEPT ![v] = "write"]
        /\ UNCHANGED <<faults, orderly>>
     \/ /\ Fault /\ push' = [push EXCEPT ![v] = "gone"]
        /\ orderly' = FALSE /\ UNCHANGED file
  /\ Publishing(<<es_apps, es_files, version, xpc>>)

\* ... and writes, maybe not all of it, or into what another thread has written
\* or is writing.
Overlapped(v) == file # 0 \/ \E u \in DOMAIN Policies \ {v} : push[u] = "write"

write_es_policy_file(v) ==
  /\ push[v] = "write" /\ push' = [push EXCEPT ![v] = "done"]
  /\ \/ file' = v /\ UNCHANGED <<faults, orderly>>
     \/ Overlapped(v) /\ file' = 0 /\ UNCHANGED <<faults, orderly>>
     \/ Fault /\ file' = 0 /\ orderly' = FALSE
  /\ Publishing(<<es_apps, es_files, version, xpc>>)

\* A retry uses the connection that failed.
StaleConnectionMutant(v) ==
  /\ xpc /\ push[v] = "ready" /\ faults = 0
  /\ es_apps' = v /\ push' = [push EXCEPT ![v] = "files"]
  /\ Publishing(<<es_files, version, xpc, file, faults, orderly>>)

\* clave_mac_load_policy_json writes the allow-list under one lock ...
LoadApps(v) ==
  /\ xpc /\ push[v] = "ready"
  /\ es_apps' = v /\ push' = [push EXCEPT ![v] = "files"]
  /\ Publishing(<<es_files, version, xpc, file, faults, orderly>>)

\* ... and the file policy under another, before it answers.
apply_file_policy(v) ==
  /\ push[v] = "files"
  /\ es_files' = v /\ push' = [push EXCEPT ![v] = "done"]
  /\ Publishing(<<es_apps, version, xpc, file, faults, orderly>>)

\* The client cannot be reached, or it does not answer within 5 seconds, whether
\* or not it still loads what it was sent.
Retry(v) ==
  /\ xpc /\ push[v] \in {"ready", "files"} /\ Fault
  /\ es_files' \in {es_files, IF push[v] = "files" THEN v ELSE es_files}
  /\ push' = [push EXCEPT ![v] = "ready"]
  /\ Publishing(<<es_apps, version, xpc, file, orderly>>)

\* The 15 seconds are over; what was under way at the client still happens.
GiveUp(v) ==
  /\ xpc /\ push[v] = "ready" /\ Fault
  /\ push' = [push EXCEPT ![v] = "gone"]
  /\ orderly' = FALSE
  /\ Publishing(<<es_apps, es_files, version, xpc, file>>)

Publisher(v) ==
  \/ create_policy_file(v) \/ write_es_policy_file(v)
  \/ LoadApps(v) \/ apply_file_policy(v) \/ Retry(v) \/ GiveUp(v)

\* startClient: an empty registry, and the policy of the file if there is one. The
\* exits of the old client's tokens mean nothing to the new one, which does not know
\* the work that still runs either: work is what it has seen executed.
startClient ==
  /\ Fault
  /\ es_zones' = {} /\ exits' = {} /\ es_apps' = file /\ es_files' = file
  /\ proc' = [p \in Pids |-> IF Present(p) THEN [proc[p] EXCEPT !.work = FALSE] ELSE Absent]
  /\ push' = [v \in DOMAIN Policies |-> IF push[v] = "files" THEN "ready" ELSE push[v]]
  /\ orderly' = FALSE
  /\ UNCHANGED <<tokens, version, xpc, file, daemon_zones, launch, leaks>>

(***************************************************************************)
(* spawn_macos_app: note who runs the bundle, `open -n' it, and look for a *)
(* pid that was not there; after 3 seconds take the last one there is.     *)
(***************************************************************************)
running_pids_for_bundle == {p \in Pids : Present(p) /\ proc[p].binary = App}

Launching(rest) == UNCHANGED <<proc, tokens, exits, client, publication, orderly, leaks, rest>>

\* Whoever runs the bundle is excluded; if plutil does not tell its identifier,
\* nobody is.
LaunchSnapshot ==
  /\ launch.at = "idle"
  /\ \E told \in BOOLEAN :
       /\ launch' = [at |-> "open", before |-> IF told THEN running_pids_for_bundle ELSE {},
                     found |-> {}, since |-> IF told THEN tokens ELSE 0, sure |-> told]
       /\ IF told THEN UNCHANGED faults ELSE Fault
  /\ Launching(<<daemon_zones>>)

\* `open' cannot be spawned: nothing joins.
SpawnFails ==
  /\ launch.at = "open" /\ Fault
  /\ launch' = [NoLaunch EXCEPT !.at = "over"]
  /\ Launching(<<daemon_zones>>)

\* `open' has launchd start the bundle.
LaunchOpen(p) ==
  /\ launch.at = "open" /\ ~Present(p)
  /\ authorize_exec(p, App, FALSE, FALSE)
  /\ launch' = [launch EXCEPT !.at = "wait"]
  /\ Processes(<<exits, daemon_zones, leaks>>)

Found(pid, sure) ==
  /\ launch.at \in {"open", "wait"}
  /\ launch' = [at |-> "join", before |-> {}, found |-> {pid}, sure |-> sure,
                since |-> IF sure THEN launch.since ELSE 0]
  /\ Launching(<<daemon_zones>>)

\* Any instance will do.
AnyInstanceMutant(before) == running_pids_for_bundle

first_new(before) == running_pids_for_bundle \ before

wait_for_new_app_pid(p) ==
  /\ p \in first_new(launch.before)
  /\ Found(p, launch.sure) /\ UNCHANGED faults

\* plutil does not tell the identifier now: there is no search.
IdentifierUnknown == Found(OpenPid, launch.sure) /\ Fault

WaitTimeout(p) ==
  /\ first_new(launch.before) = {}
  /\ IF running_pids_for_bundle = {} THEN p = OpenPid ELSE p \in running_pids_for_bundle
  /\ Found(p, FALSE) /\ Fault

\* Daemon::launch has the pid join, whoever has it by now.
on_zone_join ==
  /\ launch.at = "join"
  /\ daemon_zones' = daemon_zones \cup launch.found
  /\ launch' = [launch EXCEPT !.at = "over"]
  /\ Launching(<<faults>>)

Next ==
  \/ \E p \in Pids, b \in Binaries : UserStart(p, b) \/ AuthExec(p, b)
  \/ \E p, c \in Pids : Fork(p, c)
  \/ \E p \in Pids : Exit(p)
  \/ \E token \in exits : zone_leave(token)
  \/ \E p \in Pids, to, write \in BOOLEAN : AuthOpen(p, to, write) \/ AuthRelocate(p, to, write)
  \/ update_policy
  \/ \E v \in DOMAIN Policies : Publisher(v)
  \/ startClient
  \/ LaunchSnapshot \/ SpawnFails \/ IdentifierUnknown \/ on_zone_join
  \/ \E p \in Pids : LaunchOpen(p) \/ wait_for_new_app_pid(p)
  \/ \E p \in Pids \cup {OpenPid} : WaitTimeout(p)

\* A publishing thread runs until its push is answered or given up.
Fairness == \A v \in DOMAIN Policies : WF_vars(Publisher(v))

Spec == Init /\ [][Next]_vars /\ Fairness

-----------------------------------------------------------------------------
\* The registry holds exactly the live processes that executed a listed application,
\* or were executed by one that did, under this client, whatever the delayed exits,
\* the reused pids and the tokens an exec leaves behind do to it.  (The child of a
\* fork is not among them before it executes something: the client is not told of it.)
RegistryExact ==
  \A p \in Pids : Present(p) => (Supervised(p) <=> proc[p].work)

\* Work content gets out of the disk through a work process only where a
\* policy the daemon had accepted allows to save outside: not by a write after
\* a read, not by a rename, clone or link, not under a policy half loaded.
Contained ==
  \A v \in leaks : v > 0 /\ Policies[v].allow_save_outside_enclave

\* Once the updates are published one after the other and every push was answered,
\* the client enforces the daemon's policy, allow-list and file rule alike; and where
\* they go to the file, the file has the policy, unless writing it failed.
PublishedWhenQuiet ==
  orderly /\ (\A v \in DOMAIN Policies : ~Busy(v)) =>
    IF xpc THEN es_apps = version /\ es_files = version ELSE file = version

\* A policy the daemon has accepted reaches the client, also when a push is not
\* answered and is tried again, unless a thread gives up, overlaps another or the
\* client restarts.
EventuallyPublished ==
  (xpc /\ version = Len(Policies)) ~> (~orderly \/ (es_apps = version /\ es_files = version))

\* Whoever has the pid that a launch has found, or that joined for it, came to be
\* after the launch began: no instance the user had open joins the daemon's zone, nor
\* one that took over an excluded pid, through forks, execs and exits before, during
\* and after the search -- unless the search timed out or plutil failed, when an
\* earlier instance may be taken (spawn_macos_app, wait_for_new_app_pid, first_new).
LaunchFindsNew ==
  launch.sure =>
    \A p \in Pids \cap (launch.found \cup daemon_zones) :
      Present(p) => proc[p].version > launch.since

\* What the Endpoint Security client holds is what it has been told of: the processes
\* it saw executed as work, and, when nothing is under way, the policy of the daemon.
ClientExact == TypeOK /\ RegistryExact /\ PublishedWhenQuiet

=============================================================================
