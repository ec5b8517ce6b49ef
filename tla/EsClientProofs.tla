--------------------------- MODULE EsClientProofs ---------------------------
(***************************************************************************)
(* Proofs about EsClient, for any pids, binaries and bundles, and without  *)
(* bound on forks, execs and faults.                                       *)
(***************************************************************************)
EXTENDS EsClient, TLAPS

\* The processes and what is known of their tokens.  A token whose exit is still to
\* be notified belongs to no live process, so zone_leave takes none out of the zone.
ProcOK ==
  /\ tokens \in Nat /\ tokens <= MaxVersion
  /\ proc \in [Pids -> {Absent} \cup [version : 1..tokens, binary : Binaries, work : BOOLEAN]]
  /\ exits \subseteq Pids \X (1..tokens) /\ es_zones \subseteq Pids \X (1..tokens)
  /\ \A p \in Pids : Present(p) => Token(p) \notin exits
  /\ RegistryExact

\* What the pushes have loaded: as long as they follow one another, only the newest
\* is under way, and it loads the allow-list before the file rule, or finds the file as
\* it has emptied it.
PushesOK ==
  /\ version \in DOMAIN Policies /\ xpc \in BOOLEAN
  /\ push \in [DOMAIN Policies -> PushAt]
  /\ es_apps \in 0..version /\ es_files \in 0..version /\ file \in 0..version
  /\ \A v \in DOMAIN Policies : push[v] # "none" => v <= version
  /\ \A v \in DOMAIN Policies : (push[v] = "files" => xpc) /\ (push[v] = "write" => ~xpc)
  /\ orderly =>
       /\ \A v \in DOMAIN Policies : Busy(v) => v = version
       /\ push[version] \in {"ready", "write", "files", "done"}
       /\ push[version] = "files" => es_apps = version
       /\ push[version] = "write" => file = 0
       /\ push[version] = "done" =>
            IF xpc THEN es_apps = version /\ es_files = version ELSE file = version

\* While a launch searches, whoever runs the bundle and is not excluded has come since
\* it began; and so has, later, whoever has the pid it found.
Searching == launch.at \in {"open", "wait"}
LaunchOK ==
  /\ launch \in [at : LaunchAt, before : SUBSET Pids, found : SUBSET (Pids \cup {OpenPid}),
                 since : Nat, sure : BOOLEAN]
  /\ launch.since <= tokens
  /\ daemon_zones \subseteq launch.found
  /\ launch.at \in {"idle", "open", "wait"} => launch.found = {}
  /\ Searching /\ launch.sure =>
       \A p \in first_new(launch.before) : proc[p].version > launch.since
  /\ LaunchFindsNew
  /\ faults \in Nat /\ faults <= MaxFaults

EsInv == ProcOK /\ PushesOK /\ LaunchOK /\ Contained

-----------------------------------------------------------------------------
LEMMA PolicyNumbers ==
  /\ Len(Policies) \in Nat /\ Len(Policies) # 0 /\ 1 \in DOMAIN Policies
  /\ DOMAIN Policies = 1..Len(Policies)
  /\ \A v \in DOMAIN Policies : v \in Nat /\ v # 0
BY EsAssumption

\* The process that a new image takes over, or that is forked, gets a token that
\* nobody has had: it is in the registry exactly if it is put there, and no exit of
\* an earlier token concerns it.
LEMMA NewToken ==
  ASSUME ProcOK, NEW p \in Pids, NEW joins \in BOOLEAN,
         NEW new \in [version : {tokens + 1}, binary : Binaries, work : BOOLEAN], new.work = joins,
         tokens < MaxVersion, tokens' = tokens + 1, exits' = exits,
         es_zones' = es_zones \cup (IF joins THEN {<<p, tokens + 1>>} ELSE {}),
         proc' = [proc EXCEPT ![p] = new]
  PROVE  ProcOK'
<1>1. tokens \in Nat /\ MaxVersion \in Nat /\ tokens' \in Nat /\ tokens' <= MaxVersion
        /\ 1..tokens \subseteq 1..tokens' /\ tokens + 1 \in 1..tokens'
        /\ tokens + 1 \notin 1..tokens
  BY EsAssumption DEF ProcOK
<1>2. /\ exits \subseteq Pids \X (1..tokens) /\ es_zones \subseteq Pids \X (1..tokens)
      /\ proc \in [Pids -> {Absent} \cup [version : 1..tokens, binary : Binaries, work : BOOLEAN]]
  BY DEF ProcOK
<1>4. new \in [version : 1..tokens', binary : Binaries, work : BOOLEAN] /\ new.version = tokens + 1
        /\ new.work = joins
  BY <1>1
<1>5. \A q \in Pids : proc'[q] = IF q = p THEN new ELSE proc[q]
  BY <1>2
<1>6. proc' \in [Pids -> {Absent} \cup [version : 1..tokens', binary : Binaries, work : BOOLEAN]]
  <2>1. ASSUME NEW q \in Pids
        PROVE  proc'[q] \in {Absent} \cup [version : 1..tokens', binary : Binaries, work : BOOLEAN]
    <3>1. proc[q] \in {Absent} \cup [version : 1..tokens, binary : Binaries, work : BOOLEAN]
      BY <1>2
    <3>2. proc[q] \in {Absent} \cup [version : 1..tokens', binary : Binaries, work : BOOLEAN]
      BY <1>1, <3>1
    <3> QED BY <1>4, <1>5, <3>2
  <2>2. DOMAIN proc' = Pids /\ proc' = [q \in Pids |-> proc'[q]]
    BY <1>2
  <2> QED BY <2>1, <2>2
<1>7. exits' \subseteq Pids \X (1..tokens') /\ es_zones' \subseteq Pids \X (1..tokens')
  <2>1. Pids \X (1..tokens) \subseteq Pids \X (1..tokens')
    BY <1>1
  <2>2. <<p, tokens + 1>> \in Pids \X (1..tokens')
    BY <1>1
  <2> QED BY <1>2, <2>1, <2>2
<1>8. <<p, tokens + 1>> \notin exits /\ <<p, tokens + 1>> \notin es_zones
  BY <1>1, <1>2
<1>9. ASSUME NEW q \in Pids, Present(q)'
      PROVE  Token(q)' \notin exits' /\ (Supervised(q)' <=> proc'[q].work)
  <2>1. CASE q = p
    <3>1. proc'[q] = new /\ Token(q)' = <<p, tokens + 1>>
      BY <1>4, <1>5, <2>1 DEF Token
    <3>2. <<p, tokens + 1>> \in es_zones' <=> joins
      BY <1>8
    <3> QED BY <1>4, <1>8, <3>1, <3>2 DEF Supervised
  <2>2. CASE q # p
    <3>1. proc'[q] = proc[q] /\ Token(q)' = Token(q) /\ Present(q)
      BY <1>5, <1>9, <2>2 DEF Token, Present
    <3>2. Token(q) \notin exits /\ (Supervised(q) <=> proc[q].work)
      BY <3>1 DEF ProcOK, RegistryExact
    <3>3. Token(q) # <<p, tokens + 1>>
      BY <2>2 DEF Token
    <3>4. Token(q) \in es_zones' <=> Token(q) \in es_zones
      BY <3>3
    <3> QED BY <3>1, <3>2, <3>4 DEF Supervised
  <2> QED BY <2>1, <2>2
<1> QED BY <1>1, <1>6, <1>7, <1>9 DEF ProcOK, RegistryExact

\* clave_mac_authorize_exec keeps the registry exact when it is told of the parent
\* what the registry says of it.
LEMMA ExecExact ==
  ASSUME ProcOK, NEW p \in Pids, NEW b \in Binaries, NEW parent \in BOOLEAN, exits' = exits,
         authorize_exec(p, b, parent, parent)
  PROVE  ProcOK'
<1>1. PICK matched : matched = match_app(EsPolicy(es_apps).apps, b, FALSE)
  OBVIOUS
<1>2. PICK work \in BOOLEAN : work <=> (matched # None \/ parent)
  OBVIOUS
<1>3. /\ tokens < MaxVersion /\ tokens' = tokens + 1
      /\ es_zones' = es_zones \cup (IF work THEN {<<p, tokens + 1>>} ELSE {})
      /\ proc' = [proc EXCEPT ![p] = [version |-> tokens + 1, binary |-> b, work |-> work]]
  BY <1>1, <1>2 DEF authorize_exec, classify_exec
<1>4. PICK new : new = [version |-> tokens + 1, binary |-> b, work |-> work]
  OBVIOUS
<1>5. new \in [version : {tokens + 1}, binary : Binaries, work : BOOLEAN] /\ new.work = work
  BY <1>4
<1>6. proc' = [proc EXCEPT ![p] = new]
  BY <1>3, <1>4
<1> QED BY <1>3, <1>5, <1>6, NewToken

\* A fork is not an exec: the child has a new token, which the client does not know,
\* and has not executed anything of its own.
LEMMA ForkExact ==
  ASSUME ProcOK, NEW p \in Pids, NEW c \in Pids, Fork(p, c)
  PROVE  ProcOK'
<1>1. proc[p] \in [version : 1..tokens, binary : Binaries, work : BOOLEAN]
  BY DEF Fork, Present, ProcOK
<1>2. PICK new : new = [proc[p] EXCEPT !.version = tokens + 1, !.work = FALSE]
  OBVIOUS
<1>3. new \in [version : {tokens + 1}, binary : Binaries, work : BOOLEAN] /\ new.work = FALSE
  BY <1>1, <1>2
<1>4. /\ tokens < MaxVersion /\ tokens' = tokens + 1 /\ exits' = exits
      /\ es_zones' = es_zones \cup (IF FALSE THEN {<<c, tokens + 1>>} ELSE {})
      /\ proc' = [proc EXCEPT ![c] = new]
  BY <1>2 DEF Fork, Processes
<1> QED BY <1>3, <1>4, NewToken

LEMMA ProcKept ==
  ASSUME ProcOK, UNCHANGED <<proc, tokens, exits, es_zones>>
  PROVE  ProcOK'
BY DEF ProcOK, RegistryExact, Present, Token, Supervised

\* The notified exit of a token takes none of the live processes out of the zone.
LEMMA LeaveExact ==
  ASSUME ProcOK, NEW token \in exits, zone_leave(token)
  PROVE  ProcOK'
<1>1. UNCHANGED <<proc, tokens>> /\ exits' = exits \ {token} /\ es_zones' = es_zones \ {token}
  BY DEF zone_leave, Processes
<1>2. ASSUME NEW p \in Pids, Present(p)
      PROVE  Token(p) \notin exits' /\ (Token(p) \in es_zones' <=> proc[p].work)
  <2>1. Token(p) \notin exits /\ (Token(p) \in es_zones <=> proc[p].work)
    BY <1>2 DEF ProcOK, RegistryExact, Supervised
  <2> QED BY <1>1, <2>1
<1> QED BY <1>1, <1>2 DEF ProcOK, RegistryExact, Present, Token, Supervised

LEMMA ExitExact ==
  ASSUME ProcOK, NEW p \in Pids, Exit(p)
  PROVE  ProcOK'
<1>1. /\ UNCHANGED <<tokens, es_zones>> /\ Present(p)
      /\ proc' = [proc EXCEPT ![p] = Absent] /\ exits' = exits \cup ({Token(p)} \cap es_zones)
  BY DEF Exit, Processes
<1>2. proc' \in [Pids -> {Absent} \cup [version : 1..tokens, binary : Binaries, work : BOOLEAN]]
        /\ \A q \in Pids : proc'[q] = IF q = p THEN Absent ELSE proc[q]
  BY <1>1 DEF ProcOK
<1>3. exits' \subseteq Pids \X (1..tokens)
  BY <1>1 DEF ProcOK
<1>4. ASSUME NEW q \in Pids, Present(q)'
      PROVE  Token(q)' \notin exits' /\ (Token(q)' \in es_zones' <=> proc'[q].work)
  <2>1. q # p /\ proc'[q] = proc[q] /\ Present(q) /\ Token(q)' = Token(q)
    BY <1>2, <1>4 DEF Present, Token
  <2>2. Token(q) \notin exits /\ (Token(q) \in es_zones <=> proc[q].work)
    BY <2>1 DEF ProcOK, RegistryExact, Supervised
  <2>3. Token(q) # Token(p)
    BY <2>1 DEF Token
  <2> QED BY <1>1, <2>1, <2>2, <2>3
<1> QED BY <1>1, <1>2, <1>3, <1>4 DEF ProcOK, RegistryExact, Supervised

\* A restarted client knows no process, and nothing that runs has executed under it.
LEMMA RestartExact ==
  ASSUME ProcOK, startClient
  PROVE  ProcOK'
<1>1. /\ tokens' = tokens /\ es_zones' = {} /\ exits' = {}
      /\ proc' = [p \in Pids |-> IF Present(p) THEN [proc[p] EXCEPT !.work = FALSE] ELSE Absent]
  BY DEF startClient
<1>2. ASSUME NEW p \in Pids
      PROVE  /\ proc'[p] \in {Absent} \cup [version : 1..tokens, binary : Binaries, work : BOOLEAN]
             /\ Present(p)' => ~proc'[p].work
  <2>1. CASE Present(p)
    <3>1. proc[p] \in [version : 1..tokens, binary : Binaries, work : BOOLEAN]
      BY <2>1 DEF Present, ProcOK
    <3>2. proc'[p] = [proc[p] EXCEPT !.work = FALSE]
      BY <1>1, <2>1
    <3> QED BY <3>1, <3>2
  <2>2. CASE ~Present(p)
    <3>1. proc'[p] = Absent
      BY <1>1, <2>2
    <3> QED BY <3>1 DEF Present
  <2> QED BY <2>1, <2>2
<1>3. proc' \in [Pids -> {Absent} \cup [version : 1..tokens, binary : Binaries, work : BOOLEAN]]
  BY <1>1, <1>2
<1>4. ASSUME NEW p \in Pids, Present(p)'
      PROVE  Token(p)' \notin exits' /\ (Supervised(p)' <=> proc'[p].work)
  <2>1. Token(p)' \notin exits' /\ ~Supervised(p)'
    BY <1>1 DEF Supervised
  <2> QED BY <1>2, <1>4, <2>1
<1>5. exits' \subseteq Pids \X (1..tokens') /\ es_zones' \subseteq Pids \X (1..tokens')
        /\ tokens' \in Nat /\ tokens' <= MaxVersion
  BY <1>1 DEF ProcOK
<1>6. proc' \in [Pids -> {Absent} \cup [version : 1..tokens', binary : Binaries, work : BOOLEAN]]
  BY <1>1, <1>3
<1> QED BY ONLY <1>4, <1>5, <1>6 DEF ProcOK, RegistryExact, Absent

\* The steps of a launch between its beginning and the pid it takes.
Searches ==
  \/ LaunchSnapshot \/ SpawnFails \/ IdentifierUnknown
  \/ \E p \in Pids : wait_for_new_app_pid(p)
  \/ \E p \in Pids \cup {OpenPid} : WaitTimeout(p)

LEMMA SearchRests ==
  ASSUME Searches
  PROVE  UNCHANGED <<proc, tokens, exits, client, publication, orderly, leaks, daemon_zones>>
BY DEF Searches, LaunchSnapshot, SpawnFails, IdentifierUnknown, wait_for_new_app_pid, WaitTimeout,
       Found, Launching

LEMMA ProcStep ==
  ASSUME ProcOK, [Next]_vars
  PROVE  ProcOK'
<1>1. ASSUME NEW p \in Pids, NEW b \in Binaries, UserStart(p, b) PROVE ProcOK'
  BY <1>1, ExecExact DEF UserStart, Processes
<1>2. ASSUME NEW p \in Pids, NEW b \in Binaries, AuthExec(p, b) PROVE ProcOK'
  <2>1. PICK parent \in BOOLEAN : parent <=> Supervised(p)
    OBVIOUS
  <2>2. Supervised(p) = parent /\ proc[p].work = parent /\ Present(p)
    <3>1. Present(p) /\ proc[p] \in [version : 1..tokens, binary : Binaries, work : BOOLEAN]
      BY <1>2 DEF AuthExec, ProcOK, Present
    <3>2. proc[p].work \in BOOLEAN /\ (Supervised(p) <=> proc[p].work)
      BY <3>1 DEF ProcOK, RegistryExact
    <3>3. Supervised(p) \in BOOLEAN
      BY DEF Supervised
    <3> QED BY <2>1, <3>1, <3>2, <3>3
  <2>3. authorize_exec(p, b, parent, parent) /\ exits' = exits
    BY <1>2, <2>2 DEF AuthExec, Processes
  <2> QED BY <2>3, ExecExact
<1>3. ASSUME NEW p \in Pids, LaunchOpen(p) PROVE ProcOK'
  BY <1>3, ExecExact, EsAssumption DEF LaunchOpen, Processes
<1>4. CASE \E p, c \in Pids : Fork(p, c)
  BY <1>4, ForkExact
<1>5. CASE \E p \in Pids : Exit(p)
  BY <1>5, ExitExact
<1>6. CASE \E token \in exits : zone_leave(token)
  BY <1>6, LeaveExact
<1>7. CASE startClient
  BY <1>7, RestartExact
<1>8. CASE UNCHANGED <<proc, tokens, exits, es_zones>>
  BY <1>8, ProcKept
<1>9. ASSUME NEW p \in Pids, NEW to \in BOOLEAN, NEW write \in BOOLEAN,
             AuthOpen(p, to, write) \/ AuthRelocate(p, to, write)
      PROVE  ProcOK'
  BY <1>9, ProcKept DEF AuthOpen, AuthRelocate, Processes
<1>10. ASSUME NEW v \in DOMAIN Policies, Publisher(v) PROVE ProcOK'
  BY <1>10, ProcKept DEF Publisher, create_policy_file, write_es_policy_file, LoadApps,
                         apply_file_policy, Retry, GiveUp, Publishing
<1>11. ASSUME Searches \/ on_zone_join PROVE ProcOK'
  BY <1>11, ProcKept, SearchRests DEF on_zone_join, Launching, client
<1>12. CASE update_policy
  BY <1>12, ProcKept DEF update_policy, Publishing
<1>13. CASE UNCHANGED vars
  BY <1>13, ProcKept DEF vars, client
<1> QED BY <1>1, <1>2, <1>3, <1>4, <1>5, <1>6, <1>7, <1>9, <1>10, <1>11, <1>12, <1>13 DEF Next, Searches

-----------------------------------------------------------------------------
LEMMA PushesKept ==
  ASSUME PushesOK, UNCHANGED <<publication, es_apps, es_files, orderly>>
  PROVE  PushesOK'
BY DEF PushesOK, publication, Busy

LEMMA UpdatePushes ==
  ASSUME PushesOK, update_policy
  PROVE  PushesOK'
<1>1. /\ version + 1 \in DOMAIN Policies /\ version' = version + 1
      /\ push' = [push EXCEPT ![version + 1] = "ready"]
      /\ orderly' = (orderly /\ \A v \in DOMAIN Policies : ~Busy(v))
      /\ UNCHANGED <<es_apps, es_files, xpc, file>>
  BY DEF update_policy, Publishing
<1>2. version \in Nat /\ push \in [DOMAIN Policies -> PushAt]
        /\ \A v \in DOMAIN Policies : v \in Nat
  BY PolicyNumbers DEF PushesOK
<1>3. \A v \in DOMAIN Policies : push'[v] = IF v = version + 1 THEN "ready" ELSE push[v]
  BY <1>1, <1>2
<1>4. push' \in [DOMAIN Policies -> PushAt]
  BY <1>1, <1>2 DEF PushAt
<1>5. es_apps' \in 0..version' /\ es_files' \in 0..version' /\ file' \in 0..version'
  BY <1>1, <1>2 DEF PushesOK
<1>6. ASSUME NEW v \in DOMAIN Policies, push'[v] # "none" PROVE v <= version'
  BY <1>1, <1>2, <1>3, <1>6 DEF PushesOK
<1>7. ASSUME orderly', NEW v \in DOMAIN Policies, Busy(v)' PROVE v = version'
  BY <1>1, <1>2, <1>3, <1>7 DEF Busy
<1>8. push'[version'] = "ready"
  BY <1>1, <1>3
<1> QED BY <1>1, <1>4, <1>5, <1>6, <1>7, <1>8 DEF PushesOK

\* One step of a publishing thread, or of the client it talks to.
LEMMA PublisherPushes ==
  ASSUME PushesOK, NEW v \in DOMAIN Policies, Publisher(v)
  PROVE  PushesOK'
<1>1. version \in Nat /\ version \in DOMAIN Policies /\ push \in [DOMAIN Policies -> PushAt] /\ v \in Nat
  BY PolicyNumbers DEF PushesOK
<1>2. /\ UNCHANGED <<version, xpc>> /\ push[v] # "none" /\ v <= version
      /\ Busy(v) /\ (orderly => v = version)
  BY DEF Publisher, create_policy_file, write_es_policy_file, LoadApps, apply_file_policy, Retry,
         GiveUp, Publishing, Busy, PushesOK
<1>3. \E at \in {"ready", "write", "files", "done", "gone"} :
        /\ push' = [push EXCEPT ![v] = at]
        /\ (at = "files" => xpc) /\ (at = "write" => ~xpc)
  BY DEF Publisher, create_policy_file, write_es_policy_file, LoadApps, apply_file_policy, Retry, GiveUp
<1>4. PICK at \in {"ready", "write", "files", "done", "gone"} :
        /\ push' = [push EXCEPT ![v] = at]
        /\ (at = "files" => xpc) /\ (at = "write" => ~xpc)
  BY <1>3
<1>5. push' \in [DOMAIN Policies -> PushAt]
        /\ \A w \in DOMAIN Policies : push'[w] = IF w = v THEN at ELSE push[w]
  BY <1>1, <1>4 DEF PushAt
<1>6. es_apps' \in 0..version' /\ es_files' \in 0..version' /\ file' \in 0..version'
  <2>1. v \in 0..version /\ 0 \in 0..version
    BY <1>1, <1>2
  <2>2. /\ es_apps' \in {es_apps, v} /\ es_files' \in {es_files, v} /\ file' \in {file, 0, v}
    BY DEF Publisher, create_policy_file, write_es_policy_file, LoadApps, apply_file_policy, Retry,
           GiveUp, Publishing
  <2> QED BY <1>2, <2>1, <2>2 DEF PushesOK
<1>7. ASSUME NEW w \in DOMAIN Policies, push'[w] # "none" PROVE w <= version'
  BY <1>2, <1>5, <1>7 DEF PushesOK
<1>8. ASSUME NEW w \in DOMAIN Policies
      PROVE  (push'[w] = "files" => xpc') /\ (push'[w] = "write" => ~xpc')
  BY <1>2, <1>4, <1>5 DEF PushesOK
<1>9. ASSUME orderly'
      PROVE  /\ \A w \in DOMAIN Policies : Busy(w)' => w = version'
             /\ push'[version'] \in {"ready", "write", "files", "done"}
             /\ push'[version'] = "files" => es_apps' = version'
             /\ push'[version'] = "write" => file' = 0
             /\ push'[version'] = "done" =>
                  IF xpc' THEN es_apps' = version' /\ es_files' = version' ELSE file' = version'
  <2>1. orderly
    BY <1>9 DEF Publisher, create_policy_file, write_es_policy_file, LoadApps, apply_file_policy,
                Retry, GiveUp, Publishing
  <2>2. v = version /\ push'[version'] = at
    BY <1>2, <1>5, <2>1
  <2>3. \A w \in DOMAIN Policies : Busy(w)' => w = version'
    BY <1>2, <1>5, <2>1, <2>2 DEF PushesOK, Busy
  <2>4. CASE LoadApps(v)
    <3>1. at = "files" /\ es_apps' = version
      BY <1>1, <1>4, <2>2, <2>4, <1>2 DEF LoadApps
    <3> QED BY <1>2, <2>3, <2>2, <3>1
  <2>5. CASE apply_file_policy(v)
    <3>1. at = "done" /\ es_files' = version /\ es_apps' = es_apps /\ push[version] = "files"
      BY <1>1, <1>2, <1>4, <2>2, <2>5 DEF apply_file_policy, Publishing
    <3>2. es_apps = version /\ xpc
      BY <1>1, <2>1, <3>1 DEF PushesOK
    <3> QED BY <1>2, <2>3, <2>2, <3>1, <3>2
  <2>6. CASE Retry(v)
    <3>1. at = "ready"
      BY <1>1, <1>2, <1>4, <2>2, <2>6 DEF Retry
    <3> QED BY <2>3, <2>2, <3>1
  <2>7. CASE create_policy_file(v)
    <3>1. at = "write" /\ file' = 0
      BY <1>1, <1>2, <1>4, <1>9, <2>2, <2>7 DEF create_policy_file
    <3> QED BY <2>3, <2>2, <3>1
  <2>8. CASE write_es_policy_file(v)
    <3>1. at = "done" /\ push[v] = "write" /\ (file' = v \/ Overlapped(v))
      BY <1>1, <1>2, <1>4, <1>9, <2>2, <2>8 DEF write_es_policy_file
    <3>2. file = 0 /\ ~xpc
      BY <1>1, <2>1, <2>2, <3>1 DEF PushesOK
    <3>3. ~Overlapped(v)
      BY <1>1, <2>1, <2>2, <3>2 DEF PushesOK, Overlapped, Busy
    <3> QED BY <1>2, <2>3, <2>2, <3>1, <3>2, <3>3
  <2>9. ~GiveUp(v)
    BY <1>9 DEF GiveUp
  <2> QED BY <2>4, <2>5, <2>6, <2>7, <2>8, <2>9 DEF Publisher
<1> QED BY <1>1, <1>2, <1>5, <1>6, <1>7, <1>8, <1>9 DEF PushesOK

LEMMA RestartPushes ==
  ASSUME PushesOK, startClient
  PROVE  PushesOK'
<1>1. /\ es_apps' = file /\ es_files' = file /\ orderly' = FALSE /\ UNCHANGED <<version, xpc, file>>
      /\ push' = [v \in DOMAIN Policies |-> IF push[v] = "files" THEN "ready" ELSE push[v]]
  BY DEF startClient
<1>2. push' \in [DOMAIN Policies -> PushAt]
  BY <1>1 DEF PushesOK, PushAt
<1> QED BY <1>1, <1>2 DEF PushesOK

LEMMA PushesStep ==
  ASSUME PushesOK, [Next]_vars
  PROVE  PushesOK'
<1>1. CASE update_policy
  BY <1>1, UpdatePushes
<1>2. CASE \E v \in DOMAIN Policies : Publisher(v)
  BY <1>2, PublisherPushes
<1>3. CASE startClient
  BY <1>3, RestartPushes
<1>4. CASE UNCHANGED vars
  BY <1>4, PushesKept DEF vars, client
<1>5. CASE \/ \E p \in Pids, b \in Binaries : UserStart(p, b) \/ AuthExec(p, b)
           \/ \E p, c \in Pids : Fork(p, c)
           \/ \E p \in Pids : Exit(p)
           \/ \E token \in exits : zone_leave(token)
  BY <1>5, PushesKept DEF UserStart, AuthExec, Fork, Exit, zone_leave, Processes
<1>6. ASSUME NEW p \in Pids, NEW to \in BOOLEAN, NEW write \in BOOLEAN,
             AuthOpen(p, to, write) \/ AuthRelocate(p, to, write)
      PROVE  PushesOK'
  BY <1>6, PushesKept DEF AuthOpen, AuthRelocate, Processes
<1>7. CASE Searches \/ on_zone_join
  BY <1>7, SearchRests, PushesKept DEF on_zone_join, Launching, client
<1>8. ASSUME NEW p \in Pids, LaunchOpen(p) PROVE PushesOK'
  BY <1>8, PushesKept DEF LaunchOpen, Processes
<1> QED BY <1>1, <1>2, <1>3, <1>4, <1>5, <1>6, <1>7, <1>8 DEF Next, Searches

-----------------------------------------------------------------------------
\* A process that runs after a step is the one that ran before, or has a token that
\* nobody has had.
LEMMA ProcMoves ==
  ASSUME ProcOK, [Next]_vars
  PROVE  /\ tokens \in Nat /\ tokens' \in Nat /\ tokens' >= tokens
         /\ \A p \in Pids : Present(p)' =>
              \/ /\ Present(p) /\ proc'[p].version = proc[p].version
                 /\ proc'[p].binary = proc[p].binary
              \/ proc'[p].version = tokens + 1
<1> DEFINE P == {Absent} \cup [version : 1..tokens, binary : Binaries, work : BOOLEAN]
           Moves == /\ tokens' \in {tokens, tokens + 1}
                    /\ \A p \in Pids : Present(p)' =>
                         \/ /\ Present(p) /\ proc'[p].version = proc[p].version
                            /\ proc'[p].binary = proc[p].binary
                         \/ proc'[p].version = tokens + 1
<1>1. tokens \in Nat /\ proc \in [Pids -> P]
  BY DEF ProcOK
<1>2. ASSUME NEW p \in Pids, NEW b, NEW parent, NEW work, authorize_exec(p, b, parent, work)
      PROVE  Moves
  <2>1. PICK runs :
          /\ proc' = [proc EXCEPT ![p] = [version |-> tokens + 1, binary |-> b, work |-> runs]]
          /\ tokens' = tokens + 1
    BY <1>2 DEF authorize_exec
  <2> DEFINE new == [version |-> tokens + 1, binary |-> b, work |-> runs]
  <2>2. \A q \in Pids : proc'[q] = IF q = p THEN new ELSE proc[q]
    BY <1>1, <2>1
  <2> QED BY <2>1, <2>2 DEF Present
<1>3. ASSUME \/ \E p \in Pids, b \in Binaries : UserStart(p, b) \/ AuthExec(p, b)
             \/ \E p \in Pids : LaunchOpen(p)
      PROVE  Moves
  BY <1>2, <1>3 DEF UserStart, AuthExec, LaunchOpen
<1>4. ASSUME NEW p \in Pids, NEW c \in Pids, Fork(p, c) PROVE Moves
  <2>1. proc[p] \in [version : 1..tokens, binary : Binaries, work : BOOLEAN]
    BY <1>1, <1>4 DEF Fork, Present
  <2>2. PICK new : new = [proc[p] EXCEPT !.version = tokens + 1, !.work = FALSE]
    OBVIOUS
  <2>3. proc' = [proc EXCEPT ![c] = new] /\ new.version = tokens + 1 /\ tokens' = tokens + 1
    BY <1>4, <2>1, <2>2 DEF Fork
  <2>4. \A q \in Pids : proc'[q] = IF q = c THEN new ELSE proc[q]
    BY <1>1, <2>3
  <2> QED BY <2>3, <2>4 DEF Present
<1>5. ASSUME NEW p \in Pids, Exit(p) PROVE Moves
  <2>1. tokens' = tokens /\ \A q \in Pids : proc'[q] = IF q = p THEN Absent ELSE proc[q]
    BY <1>1, <1>5 DEF Exit, Processes
  <2> QED BY <2>1 DEF Present, Absent
<1>6. ASSUME startClient PROVE Moves
  <2>1. tokens' = tokens
    BY <1>6 DEF startClient
  <2>2. ASSUME NEW p \in Pids, Present(p)'
        PROVE  Present(p) /\ proc'[p].version = proc[p].version /\ proc'[p].binary = proc[p].binary
    <3>1. Present(p) /\ proc'[p] = [proc[p] EXCEPT !.work = FALSE]
      BY <1>6, <2>2 DEF startClient, Present, Absent
    <3>2. proc[p] \in [version : 1..tokens, binary : Binaries, work : BOOLEAN]
      BY <1>1, <3>1 DEF Present
    <3> QED BY <3>1, <3>2
  <2> QED BY <2>1, <2>2
<1>7. ASSUME UNCHANGED <<proc, tokens>> PROVE Moves
  BY <1>7 DEF Present
<1>8. \/ UNCHANGED <<proc, tokens>> \/ startClient
      \/ \E p \in Pids, b \in Binaries : UserStart(p, b) \/ AuthExec(p, b)
      \/ \E p \in Pids : LaunchOpen(p) \/ Exit(p)
      \/ \E p, c \in Pids : Fork(p, c)
  <2>1. ASSUME Searches PROVE UNCHANGED <<proc, tokens>>
    BY <2>1, SearchRests
  <2> QED BY <2>1 DEF Next, Searches, vars, zone_leave, Processes, update_policy, Publisher, create_policy_file,
         write_es_policy_file, LoadApps, apply_file_policy, Retry, GiveUp, Publishing, on_zone_join, Launching,
         AuthOpen, AuthRelocate
<1>9. Moves
  BY <1>3, <1>4, <1>5, <1>6, <1>7, <1>8
<1> QED BY <1>1, <1>9

\* As long as the launch does nothing but wait for its application to start.
LEMMA LaunchRests ==
  ASSUME ProcOK, LaunchOK, [Next]_vars, UNCHANGED daemon_zones, faults' \in Nat, faults' <= MaxFaults,
         launch' \in {launch, [launch EXCEPT !.at = "wait"]},
         launch' # launch => launch.at = "open"
  PROVE  LaunchOK'
<1> DEFINE L == [at : LaunchAt, before : SUBSET Pids, found : SUBSET (Pids \cup {OpenPid}),
                 since : Nat, sure : BOOLEAN]
<1>1. /\ launch' \in L /\ launch'.before = launch.before /\ launch'.found = launch.found
      /\ launch'.since = launch.since /\ launch'.sure = launch.sure
      /\ launch.since \in Nat /\ launch.since <= tokens
      /\ launch'.at = launch.at \/ (launch.at = "open" /\ launch'.at = "wait")
  BY DEF LaunchOK, LaunchAt
<1>2. tokens \in Nat /\ tokens' \in Nat /\ tokens' >= tokens
  BY ProcMoves
<1>3. ASSUME NEW p \in Pids, Present(p)'
      PROVE  \/ Present(p) /\ proc'[p].version = proc[p].version /\ proc'[p].binary = proc[p].binary
             \/ proc'[p].version > launch.since
  BY <1>1, <1>2, <1>3, ProcMoves
<1>4. ASSUME Searching', launch'.sure, NEW p \in first_new(launch.before)'
      PROVE  proc'[p].version > launch'.since
  <2>1. p \in Pids /\ Present(p)' /\ proc'[p].binary = App /\ p \notin launch'.before
    BY <1>4 DEF first_new, running_pids_for_bundle
  <2>2. CASE Present(p) /\ proc'[p].version = proc[p].version /\ proc'[p].binary = proc[p].binary
    <3>1. p \in first_new(launch.before) /\ Searching /\ launch.sure
      BY <1>1, <1>4, <2>1, <2>2 DEF first_new, running_pids_for_bundle, Searching
    <3> QED BY <1>1, <2>2, <3>1 DEF LaunchOK
  <2> QED BY <1>1, <1>3, <2>1, <2>2
<1>5. LaunchFindsNew'
  <2> SUFFICES ASSUME launch'.sure, NEW p \in Pids \cap (launch'.found \cup daemon_zones'), Present(p)'
               PROVE  proc'[p].version > launch'.since
    BY DEF LaunchFindsNew
  <2>1. Present(p) => proc[p].version > launch.since
    BY <1>1 DEF LaunchOK, LaunchFindsNew
  <2> QED BY <1>1, <1>3, <2>1
<1>6. launch'.since <= tokens'
  BY <1>1, <1>2
<1>7. daemon_zones' \subseteq launch'.found
        /\ (launch'.at \in {"idle", "open", "wait"} => launch'.found = {})
  BY <1>1 DEF LaunchOK
<1> QED BY <1>1, <1>4, <1>5, <1>6, <1>7 DEF LaunchOK

\* first_new finds nobody who was there before, and the pid is taken later.
LEMMA SearchStep ==
  ASSUME ProcOK, LaunchOK, Searches
  PROVE  LaunchOK'
<1> DEFINE L == [at : LaunchAt, before : SUBSET Pids, found : SUBSET (Pids \cup {OpenPid}),
                 since : Nat, sure : BOOLEAN]
<1>0. /\ launch \in L /\ faults \in Nat /\ faults <= MaxFaults /\ MaxFaults \in Nat /\ tokens \in Nat
      /\ daemon_zones \subseteq launch.found
      /\ UNCHANGED <<proc, tokens, daemon_zones>>
  BY EsAssumption, SearchRests DEF LaunchOK, ProcOK
<1>1. faults' \in Nat /\ faults' <= MaxFaults
  <2>1. UNCHANGED faults \/ Fault
    BY DEF Searches, LaunchSnapshot, SpawnFails, IdentifierUnknown, wait_for_new_app_pid, WaitTimeout
  <2> QED BY <1>0, <2>1 DEF Fault
<1>2. CASE LaunchSnapshot
  <2>1. launch.at = "idle" /\ daemon_zones = {}
    BY <1>0, <1>2 DEF LaunchSnapshot, LaunchOK
  <2>2. PICK told \in BOOLEAN :
          launch' = [at |-> "open", before |-> IF told THEN running_pids_for_bundle ELSE {},
                     found |-> {}, since |-> IF told THEN tokens ELSE 0, sure |-> told]
    BY <1>2 DEF LaunchSnapshot
  <2>3. /\ launch' \in L /\ launch'.found = {} /\ launch'.since <= tokens /\ launch'.sure = told
        /\ told => launch'.before = running_pids_for_bundle
    BY <1>0, <2>2 DEF running_pids_for_bundle, LaunchAt
  <2>4. launch'.sure => first_new(launch.before)' = {}
    BY <1>0, <2>3 DEF first_new, running_pids_for_bundle, Present
  <2> QED BY <1>0, <1>1, <2>1, <2>3, <2>4 DEF LaunchOK, LaunchFindsNew
<1>3. CASE SpawnFails
  <2>1. daemon_zones = {} /\ launch' = [NoLaunch EXCEPT !.at = "over"]
    BY <1>0, <1>3 DEF SpawnFails, LaunchOK
  <2>2. launch' = [at |-> "over", before |-> {}, found |-> {}, since |-> 0, sure |-> TRUE]
    BY <2>1 DEF NoLaunch
  <2>3. launch' \in L /\ launch'.found = {} /\ launch'.since <= tokens /\ launch'.at = "over"
    BY <1>0, <2>2 DEF LaunchAt
  <2> QED BY <1>0, <1>1, <2>1, <2>3 DEF LaunchOK, LaunchFindsNew, Searching
<1>4. ASSUME NEW pid \in Pids \cup {OpenPid}, NEW sure \in BOOLEAN, Found(pid, sure),
             sure => launch.sure /\ (pid = OpenPid \/ pid \in first_new(launch.before))
      PROVE  LaunchOK'
  <2>1. /\ Searching /\ launch.found = {} /\ daemon_zones = {}
        /\ launch' = [at |-> "join", before |-> {}, found |-> {pid}, sure |-> sure,
                      since |-> IF sure THEN launch.since ELSE 0]
    BY <1>0, <1>4 DEF Found, LaunchOK, Searching
  <2>2. launch' \in L /\ launch'.since <= tokens
    BY <1>0, <2>1 DEF LaunchOK, LaunchAt
  <2>3. ASSUME sure, pid \in Pids PROVE proc[pid].version > launch.since
    BY <1>4, <2>1, <2>3, EsAssumption DEF LaunchOK
  <2>4. LaunchFindsNew'
    BY <1>0, <2>1, <2>3 DEF LaunchFindsNew
  <2> QED BY <1>0, <1>1, <2>1, <2>2, <2>4 DEF LaunchOK, Searching
<1>5. CASE IdentifierUnknown
  BY <1>0, <1>4, <1>5 DEF IdentifierUnknown
<1>6. ASSUME NEW p \in Pids, wait_for_new_app_pid(p) PROVE LaunchOK'
  BY <1>0, <1>4, <1>6 DEF wait_for_new_app_pid
<1>7. ASSUME NEW p \in Pids \cup {OpenPid}, WaitTimeout(p) PROVE LaunchOK'
  BY <1>4, <1>7 DEF WaitTimeout
<1> QED BY <1>2, <1>3, <1>5, <1>6, <1>7 DEF Searches

\* Joining adds the pid that was found, whoever has it by then.
LEMMA JoinStep ==
  ASSUME ProcOK, LaunchOK, on_zone_join
  PROVE  LaunchOK'
<1>1. /\ daemon_zones' = daemon_zones \cup launch.found /\ launch.at = "join"
      /\ launch' = [launch EXCEPT !.at = "over"] /\ UNCHANGED <<proc, tokens, faults>>
  BY DEF on_zone_join, Launching
<1>2. /\ launch' \in [at : LaunchAt, before : SUBSET Pids, found : SUBSET (Pids \cup {OpenPid}),
                      since : Nat, sure : BOOLEAN]
      /\ launch'.at = "over" /\ launch'.found = launch.found /\ launch'.since = launch.since
      /\ launch'.sure = launch.sure
  BY <1>1 DEF LaunchOK, LaunchAt
<1>3. LaunchFindsNew'
  BY <1>1, <1>2 DEF LaunchOK, LaunchFindsNew, Present
<1> QED BY <1>1, <1>2, <1>3 DEF LaunchOK, Searching

LEMMA LaunchStep ==
  ASSUME ProcOK, LaunchOK, [Next]_vars
  PROVE  LaunchOK'
<1>0. faults \in Nat /\ faults <= MaxFaults /\ MaxFaults \in Nat
  BY EsAssumption DEF LaunchOK
<1>1. CASE Searches
  BY <1>1, SearchStep
<1>2. CASE on_zone_join
  BY <1>2, JoinStep
<1>3. ASSUME NEW p \in Pids, LaunchOpen(p) PROVE LaunchOK'
  BY <1>0, <1>3, LaunchRests DEF LaunchOpen, Processes
<1>4. CASE UNCHANGED <<launch, daemon_zones>> /\ (UNCHANGED faults \/ Fault)
  BY <1>0, <1>4, LaunchRests DEF Fault
<1>5. \/ Searches \/ on_zone_join \/ \E p \in Pids : LaunchOpen(p)
      \/ UNCHANGED <<launch, daemon_zones>> /\ (UNCHANGED faults \/ Fault)
  BY DEF Next, Searches, vars, UserStart, AuthExec, Fork, Exit, zone_leave, Processes, update_policy, Publisher,
    create_policy_file, write_es_policy_file, LoadApps, apply_file_policy, Retry, GiveUp, Publishing, startClient,
    AuthOpen, AuthRelocate
<1> QED BY <1>1, <1>2, <1>3, <1>4, <1>5

-----------------------------------------------------------------------------
\* A supervised process is let write outside exactly where the file policy that is
\* loaded allows it, whether it opens, renames, clones or links.
LEMMA WriteOutside ==
  ASSUME NEW p \in Pids, Supervised(p), authorize_open(p, FALSE, TRUE)
  PROVE  allow_save
BY DEF authorize_open, decide_file_open, IsAllow, Allow, Deny

LEMMA ContainedStep ==
  ASSUME ProcOK, PushesOK, Contained, [Next]_vars
  PROVE  Contained'
<1>1. ASSUME NEW p \in Pids, Present(p), proc[p].work, authorize_open(p, FALSE, TRUE)
      PROVE  es_files > 0 /\ Policies[es_files].allow_save_outside_enclave
  <2>1. Supervised(p)
    BY <1>1 DEF ProcOK, RegistryExact
  <2>2. EsPolicy(es_files).allow_save_outside_enclave
    BY <1>1, <2>1, WriteOutside DEF allow_save
  <2>3. es_files # 0 /\ es_files \in Nat
    <3>1. es_files \in Nat
      BY PolicyNumbers DEF PushesOK
    <3>2. CASE es_files = 0
      BY <2>2, <3>2 DEF EsPolicy
    <3> QED BY <3>1, <3>2
  <2> QED BY <2>2, <2>3 DEF EsPolicy
<1>2. ASSUME NEW p \in Pids, NEW to \in BOOLEAN, NEW write \in BOOLEAN, AuthOpen(p, to, write)
      PROVE  Contained'
  <2>1. Present(p) /\ authorize_open(p, to, write)
          /\ leaks' = leaks \cup (IF (write /\ ~to) /\ proc[p].work THEN {es_files} ELSE {})
    BY <1>2 DEF AuthOpen, Leak
  <2>2. CASE (write /\ ~to) /\ proc[p].work
    <3>1. write = TRUE /\ to = FALSE
      BY <2>2
    <3>2. authorize_open(p, FALSE, TRUE)
      BY <2>1, <3>1
    <3> QED BY <1>1, <2>1, <2>2, <3>2 DEF Contained
  <2>3. CASE ~((write /\ ~to) /\ proc[p].work)
    BY <2>1, <2>3 DEF Contained
  <2> QED BY <2>2, <2>3
<1>3. ASSUME NEW p \in Pids, NEW from \in BOOLEAN, NEW to \in BOOLEAN, AuthRelocate(p, from, to)
      PROVE  Contained'
  <2>1. Present(p) /\ authorize_open(p, to, TRUE)
          /\ leaks' = leaks \cup (IF (from /\ ~to) /\ proc[p].work THEN {es_files} ELSE {})
    BY <1>3 DEF AuthRelocate, Leak, authorize_relocation
  <2>2. CASE (from /\ ~to) /\ proc[p].work
    <3>1. to = FALSE
      BY <2>2
    <3>2. authorize_open(p, FALSE, TRUE)
      BY <2>1, <3>1
    <3> QED BY <1>1, <2>1, <2>2, <3>2 DEF Contained
  <2>3. CASE ~((from /\ ~to) /\ proc[p].work)
    BY <2>1, <2>3 DEF Contained
  <2> QED BY <2>2, <2>3
<1>4. CASE UNCHANGED leaks
  BY <1>4 DEF Contained
<1>5. \/ UNCHANGED leaks
      \/ \E p \in Pids, to, write \in BOOLEAN : AuthOpen(p, to, write) \/ AuthRelocate(p, to, write)
  <2>1. ASSUME Searches PROVE UNCHANGED leaks
    BY <2>1, SearchRests
  <2> QED BY <2>1 DEF Next, Searches, vars, UserStart, AuthExec, Fork, Exit, zone_leave, Processes, update_policy,
    Publisher, create_policy_file, write_es_policy_file, LoadApps, apply_file_policy, Retry, GiveUp, Publishing,
    startClient, LaunchOpen, on_zone_join, Launching
<1> QED BY <1>2, <1>3, <1>4, <1>5

-----------------------------------------------------------------------------
LEMMA InitEs == Init => EsInv
<1> SUFFICES ASSUME Init PROVE EsInv
  OBVIOUS
<1>1. ProcOK
  BY EsAssumption DEF Init, ProcOK, RegistryExact, Present
<1>2. PushesOK
  <2>1. push \in [DOMAIN Policies -> PushAt] /\ version \in DOMAIN Policies /\ push[version] = "ready"
    BY PolicyNumbers DEF Init, PushAt
  <2>2. \A v \in DOMAIN Policies : push[v] # "none" => v = 1
    BY DEF Init
  <2>3. version = 1 /\ es_apps = 0 /\ es_files = 0 /\ file = 0 /\ xpc \in BOOLEAN
    BY DEF Init
  <2>4. \A v \in DOMAIN Policies : push[v] # "none" => v <= version
    BY <2>2, <2>3
  <2>5. \A v \in DOMAIN Policies : /\ Busy(v) => v = version
                                   /\ push[v] # "files" /\ push[v] # "write"
    BY <2>2, <2>3 DEF Busy, Init
  <2> QED BY <2>1, <2>3, <2>4, <2>5 DEF PushesOK
<1>3. LaunchOK
  BY EsAssumption DEF Init, LaunchOK, NoLaunch, LaunchAt, LaunchFindsNew, Searching
<1>4. Contained
  BY DEF Init, Contained
<1> QED BY <1>1, <1>2, <1>3, <1>4 DEF EsInv

LEMMA EsInvariant == Spec => []EsInv
<1>1. EsInv /\ [Next]_vars => EsInv'
  BY ProcStep, PushesStep, LaunchStep, ContainedStep DEF EsInv
<1> QED BY InitEs, <1>1, PTL DEF Spec

LEMMA EsExact ==
  ASSUME EsInv
  PROVE  ClientExact
<1>1. TypeOK
  <2>1. \A p \in Pids : Present(p) => proc[p].version \in 1..tokens /\ proc[p].binary \in Binaries
    <3> TAKE p \in Pids
    <3>1. Present(p) => proc[p] \in [version : 1..tokens, binary : Binaries, work : BOOLEAN]
      BY DEF EsInv, ProcOK, Present
    <3> QED BY <3>1
  <2>2. tokens \in 0..MaxVersion /\ exits \subseteq Pids \X (1..tokens) /\ es_zones \subseteq Pids \X (1..tokens)
    BY EsAssumption DEF EsInv, ProcOK
  <2>3. /\ es_apps \in 0..version /\ es_files \in 0..version /\ file \in 0..version
        /\ push \in [DOMAIN Policies -> PushAt] /\ xpc \in BOOLEAN
    BY DEF EsInv, PushesOK
  <2>4. /\ daemon_zones \subseteq Pids \cup {OpenPid}
        /\ launch.at \in LaunchAt /\ launch.before \subseteq Pids
        /\ launch.found \subseteq Pids \cup {OpenPid} /\ launch.since \in 0..tokens
        /\ faults \in 0..MaxFaults
    BY EsAssumption DEF EsInv, LaunchOK, ProcOK
  <2> QED BY <2>1, <2>2, <2>3, <2>4 DEF TypeOK
<1>2. RegistryExact
  BY DEF EsInv, ProcOK
<1>3. PublishedWhenQuiet
  <2> SUFFICES ASSUME orderly, \A v \in DOMAIN Policies : ~Busy(v)
               PROVE  IF xpc THEN es_apps = version /\ es_files = version ELSE file = version
    BY DEF PublishedWhenQuiet
  <2>1. push[version] = "done"
    BY DEF EsInv, PushesOK, Busy
  <2> QED BY <2>1 DEF EsInv, PushesOK
<1> QED BY <1>1, <1>2, <1>3 DEF ClientExact

\* Among the live processes the Endpoint Security client knows exactly those that
\* executed a listed application, or were executed by one that did, since the client
\* started (clave_mac_authorize_exec, zone_leave), through forks, reused pids and
\* delayed exits; and whenever no publish_es_policy is under way, the client, or the
\* file it starts from, holds both halves of the daemon's policy.
THEOREM ClientKnowsWork == Spec => []ClientExact
<1>1. EsInv => ClientExact
  BY EsExact
<1> QED BY EsInvariant, <1>1, PTL

\* Work leaves the disk through a work process only under an accepted policy that
\* allows saving outside, also while a policy is half loaded.
THEOREM WorkContained == Spec => []Contained
<1>1. EsInv => Contained
  BY DEF EsInv
<1> QED BY EsInvariant, <1>1, PTL

\* Whoever has the pid a launch found or joined came to be after the launch began,
\* for any pids, in any order of starts, forks, execs and exits, unless plutil did not
\* tell the identifier or the search of wait_for_new_app_pid timed out.
THEOREM LaunchJoinsNew == Spec => []LaunchFindsNew
<1>1. EsInv => LaunchFindsNew
  BY DEF EsInv, LaunchOK
<1> QED BY EsInvariant, <1>1, PTL
=============================================================================
