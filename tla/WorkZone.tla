------------------------------ MODULE WorkZone ------------------------------
(***************************************************************************)
(* The work zone of the Windows daemon: who is in it, and who ought to be. *)
(*                                                                         *)
(*   Daemon::launch, launch_web, on_zone_join       launcher               *)
(*     (clave-daemon/src/lib.rs)                                           *)
(*   ZoneRegistry (clave-core/src/zone.rs)          members                *)
(*   ContainmentJob (clave-win/src/job.rs)          process[p].job         *)
(*   spawn_zone_supervisor (win_main.rs)            supervisor             *)
(*                                                                         *)
(* proc_id_for_pid gives every process the creation time 0, so that a      *)
(* member of the zone is a pid, whichever process has it.  The launcher's  *)
(* connections and the supervisor thread interleave with each other and    *)
(* with the processes, which start, spawn, exit and have their pids used   *)
(* again.  A launch the policy refuses, or that does not spawn, changes    *)
(* nothing; what a launch emits goes to the spool of AuditSync.  Names     *)
(* that SplitRouter has too begin with Zone: one module of proofs extends  *)
(* both.                                                                   *)
(***************************************************************************)
EXTENDS Naturals, FiniteSets

CONSTANTS Pids,          \* process identifiers
          Launchers,     \* connections of the launcher, each served by a task
          MaxStarts,     \* bound on processes started
          MaxFailures,   \* bound on calls of the job object that fail
          MaxRestarts    \* bound on restarts of the daemon

ASSUME WorkZoneAssumption ==
  /\ IsFiniteSet(Pids)
  /\ MaxStarts \in Nat /\ MaxFailures \in Nat /\ MaxRestarts \in Nat

VARIABLES
  process,      \* per pid: the process that has it, or NoProcess
  members,      \* ZoneRegistry.members
  launcher,     \* per connection: how far its launch is
  supervisor,   \* the thread that reconciles the zone with the job
  starts, failures, restarts,   \* what has been used of the bounds
  quiet,        \* auxiliary: the last query was exact and the job is still the same
  fresh         \* auxiliary: pids a launch added since the supervisor listed the zone

zoneVars == <<process, members, launcher, supervisor, starts, failures, restarts, quiet, fresh>>

NoProcess == [live |-> FALSE, work |-> FALSE, job |-> FALSE]
Process(work, job) == [live |-> TRUE, work |-> work, job |-> job]
InJob == {p \in Pids : process[p].job}

Idle == [at |-> "idle"]
Sleeping(live) == [at |-> "sleep", live |-> live, todo |-> {}]

ZoneTypeOK ==
  /\ process \in [Pids -> {NoProcess} \cup [live : {TRUE}, work : BOOLEAN, job : BOOLEAN]]
  /\ members \subseteq Pids
  /\ launcher \in [Launchers -> {Idle} \cup
       [at : {"spawned", "joined"}, pid : Pids, web : BOOLEAN]]
  /\ supervisor \in [at : {"sleep", "join", "leave"}, live : SUBSET Pids, todo : SUBSET Pids]
  /\ quiet \in BOOLEAN /\ fresh \subseteq Pids
  /\ starts \in 0..MaxStarts /\ failures \in 0..MaxFailures
  /\ restarts \in 0..MaxRestarts

ZoneInit ==
  /\ process = [p \in Pids |-> NoProcess]
  /\ members = {}
  /\ launcher = [l \in Launchers |-> Idle]
  /\ supervisor = Sleeping({})
  /\ starts = 0 /\ failures = 0 /\ restarts = 0
  /\ quiet = FALSE /\ fresh = {}

(***************************************************************************)
(* The processes (external)                                                *)
(***************************************************************************)
Start(p, proc) ==
  /\ ~process[p].live
  /\ starts < MaxStarts
  /\ process' = [process EXCEPT ![p] = proc]
  /\ starts' = starts + 1

PersonalStart(p) ==
  /\ Start(p, Process(FALSE, FALSE))
  /\ UNCHANGED <<members, launcher, supervisor, failures, restarts, fresh, quiet>>

\* The kernel puts a child into its parent's job.
ChildStart(p, c) ==
  /\ process[p].live
  /\ Start(c, process[p])
  /\ quiet' = (quiet /\ ~process[p].job)
  /\ UNCHANGED <<members, launcher, supervisor, failures, restarts, fresh>>

Exit(p) ==
  /\ process[p].live
  /\ process' = [process EXCEPT ![p] = NoProcess]
  /\ quiet' = (quiet /\ ~process[p].job)
  /\ UNCHANGED <<members, launcher, supervisor, starts, failures, restarts, fresh>>

(***************************************************************************)
(* launch and launch_web: spawn, join the zone, and for a native app put   *)
(* it into the job.  What cannot be contained is logged and stays.         *)
(***************************************************************************)
spawn_contained(l, p, web) ==
  /\ launcher[l] = Idle
  /\ Start(p, Process(TRUE, FALSE))
  /\ launcher' = [launcher EXCEPT ![l] = [at |-> "spawned", pid |-> p, web |-> web]]
  /\ UNCHANGED <<members, supervisor, failures, restarts, fresh, quiet>>

on_zone_join(l) ==
  /\ launcher[l].at = "spawned"
  /\ members' = members \cup {launcher[l].pid}
  /\ fresh' = fresh \cup {launcher[l].pid}
  /\ launcher' = [launcher EXCEPT ![l] = IF @.web THEN Idle ELSE [@ EXCEPT !.at = "joined"]]
  /\ UNCHANGED <<process, supervisor, starts, failures, restarts, quiet>>

launch(l, p) == spawn_contained(l, p, FALSE)
launch_web(l, p) == spawn_contained(l, p, TRUE)

\* The call opens the pid again: it may have been given to another process.
contain(l) ==
  /\ launcher[l].at = "joined"
  /\ LET p == launcher[l].pid
     IN \/ /\ process[p].live
           /\ process' = [process EXCEPT ![p].job = TRUE]
           /\ quiet' = (quiet /\ process[p].job)
           /\ UNCHANGED failures
        \/ /\ process[p].live => failures < MaxFailures
           /\ failures' = IF process[p].live THEN failures + 1 ELSE failures
           /\ UNCHANGED <<process, quiet>>
  /\ launcher' = [launcher EXCEPT ![l] = Idle]
  /\ UNCHANGED <<members, supervisor, starts, restarts, fresh>>

(***************************************************************************)
(* The supervisor, once every SUPERVISE_INTERVAL: the pids of the job      *)
(* join, then the members of the zone that were not among them leave.      *)
(* A query that fails reads as an empty job.                               *)
(***************************************************************************)
contained_pids(result) ==
  \/ result = InJob /\ UNCHANGED failures
  \/ result = {} /\ InJob # {} /\ failures < MaxFailures /\ failures' = failures + 1

SuperviseQuery ==
  /\ supervisor.at = "sleep"
  /\ \E result \in SUBSET Pids :
       /\ contained_pids(result)
       /\ supervisor' = [at |-> "join", live |-> result, todo |-> result]
       /\ quiet' = (result = InJob)
  /\ UNCHANGED <<process, members, launcher, starts, restarts, fresh>>

SuperviseJoin(p) ==
  /\ supervisor.at = "join"
  /\ p \in supervisor.todo
  /\ members' = members \cup {p}
  /\ supervisor' = [supervisor EXCEPT !.todo = @ \ {p}]
  /\ UNCHANGED <<process, launcher, starts, failures, restarts, fresh, quiet>>

\* Every member leaves, and those of the job join again at the next pass.
LeaveAllMutant ==
  /\ supervisor.at = "join" /\ supervisor.todo = {}
  /\ supervisor' = [supervisor EXCEPT !.at = "leave", !.todo = members]
  /\ UNCHANGED <<process, members, launcher, starts, failures, restarts, fresh, quiet>>

supervised_pids ==
  /\ supervisor.at = "join" /\ supervisor.todo = {}
  /\ supervisor' = [supervisor EXCEPT !.at = "leave", !.todo = members \ supervisor.live]
  /\ fresh' = {}
  /\ UNCHANGED <<process, members, launcher, starts, failures, restarts, quiet>>

SuperviseLeave(p) ==
  /\ supervisor.at = "leave"
  /\ p \in supervisor.todo
  /\ members' = members \ {p}
  /\ supervisor' = [supervisor EXCEPT !.todo = @ \ {p}]
  /\ UNCHANGED <<process, launcher, starts, failures, restarts, fresh, quiet>>

\* The thread reconciles once and ends.
OnceMutant == FALSE /\ UNCHANGED zoneVars

SuperviseSleep ==
  /\ supervisor.at = "leave" /\ supervisor.todo = {}
  /\ supervisor' = Sleeping(supervisor.live)
  /\ UNCHANGED <<process, members, launcher, starts, failures, restarts, fresh, quiet>>

Supervise ==
  \/ SuperviseQuery
  \/ \E p \in Pids : SuperviseJoin(p)
  \/ supervised_pids
  \/ \E p \in Pids : SuperviseLeave(p)
  \/ SuperviseSleep

(***************************************************************************)
(* The daemon ends: the job's handle is closed, which terminates every     *)
(* process in it.  It starts again with an empty registry and a new job.   *)
(***************************************************************************)
Restart ==
  /\ restarts < MaxRestarts
  /\ restarts' = restarts + 1
  /\ process' = [p \in Pids |-> IF process[p].job THEN NoProcess ELSE process[p]]
  /\ members' = {}
  /\ launcher' = [l \in Launchers |-> Idle]
  /\ supervisor' = Sleeping({})
  /\ quiet' = FALSE /\ fresh' = {}
  /\ UNCHANGED <<starts, failures>>

ZoneNext ==
  \/ \E p \in Pids : PersonalStart(p) \/ Exit(p)
  \/ \E p, c \in Pids : ChildStart(p, c)
  \/ \E l \in Launchers, p \in Pids : launch(l, p) \/ launch_web(l, p)
  \/ \E l \in Launchers : on_zone_join(l) \/ contain(l)
  \/ Supervise
  \/ Restart

(***************************************************************************)
(* Fairness: the supervisor is a loop of its own thread and each of its    *)
(* steps is a short lock or system call; a launch is a task of the         *)
(* runtime that runs to its end once spawned.                              *)
(***************************************************************************)
ZoneFairness ==
  /\ WF_zoneVars(Supervise)
  /\ \A l \in Launchers : WF_zoneVars(on_zone_join(l) \/ contain(l))

ZoneSpec == ZoneInit /\ [][ZoneNext]_zoneVars /\ ZoneFairness

-----------------------------------------------------------------------------
\* A pass of the supervisor during which the job did not change ends with
\* exactly the job's processes in the zone, but for the launches that joined
\* it after the pass had listed its members: neither a child the daemon never
\* saw is left out nor a pid that was used again left in.
PassExact ==
  /\ ZoneTypeOK
  /\ supervisor.at = "sleep" /\ quiet =>
       /\ InJob \subseteq members
       /\ members \subseteq InJob \cup fresh

\* What the daemon contains it comes to supervise: a launch the supervisor
\* dropped because it queried the job too early, and every child, join (again).
EventuallySupervised ==
  \A p \in Pids : p \in InJob ~> (p \in members \/ p \notin InJob)

\* A pid that is in the zone and not in the job does not stay: what an exited
\* process leaves behind is not inherited for ever by the next owner of the pid.
EventuallyForgotten ==
  \A p \in Pids : p \in members \ InJob ~> p \notin members \ InJob

\* The zone comes to follow the job in both directions, whichever calls on the job
\* object fail and however launches and passes of the supervisor overlap.
ZoneFollowsJob == EventuallySupervised /\ EventuallyForgotten

=============================================================================
