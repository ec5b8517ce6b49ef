---------------------------- MODULE LauncherIpc ----------------------------
(***************************************************************************)
(* The launcher and its daemon: every command of the launcher's UI         *)
(* (apps/clave-launcher) opens a connection, says Hello, sends one request *)
(* (clave-ipc), and takes what comes back or falls back; the daemon's IPC  *)
(* thread accepts, serves each connection in a task of its own, and the    *)
(* task of a launch prepares the home on the Clave Disk, spawns the app    *)
(* and joins it to the zone (clave-daemon/src/lib.rs).  The wipe of the    *)
(* disk, the user's eject and the death of the daemon interleave with all  *)
(* of it: this module composes the launcher with VolumeIO and ClaveDisk.   *)
(*                                                                         *)
(*   ui      the launcher's end of a connection      LauncherClient        *)
(*   task    the daemon's end                        serve_launcher        *)
(*   up/down what the socket holds in each direction                       *)
(*   server  the accept loop                         serve_launcher_loop   *)
(*                                                                         *)
(* A frame is two symbols, the length and the body; a read returns any     *)
(* part of what is there.  Whether the policy of the moment lets an app be *)
(* launched is left open (GatewayControl says which policy it is).         *)
(***************************************************************************)
EXTENDS VolumeIO

CONSTANTS Conns,        \* connections that may be open at the same time
          App,          \* apps a rule or a web rule may name
          Chromium,     \* those started with a profile directory of their own
          Seeded,       \* those with files linked into their home
          MaxCommands   \* bound on the commands

ASSUME LauncherAssumption ==
  /\ Chromium \subseteq App /\ Seeded \subseteq App
  /\ MaxCommands \in Nat

PROTO_VERSION == 7
OldVersion == 6

VARIABLES ui, task, up, down, server,
          disturbed,   \* auxiliary: the disk went away under a launch, or by eject
          spilled,     \* auxiliary: a launch wrote where the disk no longer was
          commands     \* commands so far

ipcVars == <<ui, task, up, down, server, disturbed, spilled, commands>>
allVars == <<vars, ioVars, ipcVars>>

\* Status, ListApps, ListWebApps, Enforcement and PeekAudit change nothing; the
\* answer to PeekAudit may be longer than a frame.
Request ==
  [type : {"Query", "PeekAudit"}]
    \cup [type : {"PrepareLaunch", "Launch", "LaunchWeb"}, app : App]

Hello(proto) == [type |-> "Hello", proto |-> proto]
Welcome(proto) == [type |-> "Welcome", proto |-> proto]
Answer(kind) == [type |-> kind]

\* encode: the length as four bytes, then the body.
Frame(msg) == <<IF msg.type = "Oversized" THEN "too long" ELSE "length", msg>>

\* try_decode on what has been received so far.
Decodable(buf) == Len(buf) = 2
TooLarge(buf) == buf # << >> /\ buf[1] = "too long"

NoUi == [at |-> "idle"]
NoTask == [at |-> "none"]
Asking(at, req, msg, buf) == [at |-> at, req |-> req, msg |-> msg, buf |-> buf]
Serving(at, buf) == [at |-> at, buf |-> buf]
Working(at, req, todo) == [at |-> at, req |-> req, todo |-> todo]
Replying(msg) == [at |-> "reply", msg |-> msg]

IpcInit ==
  /\ ui = [c \in Conns |-> NoUi] /\ task = [c \in Conns |-> NoTask]
  /\ up = [c \in Conns |-> << >>] /\ down = [c \in Conns |-> << >>]
  /\ server = "unbound" /\ disturbed = FALSE /\ spilled = FALSE /\ commands = 0

LInit == Init /\ IOInit /\ IpcInit

Ui(c, state) == ui' = [ui EXCEPT ![c] = state]
Task(c, state) == task' = [task EXCEPT ![c] = state]
Up(c, data) == up' = [up EXCEPT ![c] = data]
Down(c, data) == down' = [down EXCEPT ![c] = data]

ClientAlone == UNCHANGED <<vars, ioVars, server, disturbed, spilled, commands>>
ServerAlone == UNCHANGED <<vars, ui, disturbed, commands>>

-----------------------------------------------------------------------------
(* The launcher: one command from the click to what is shown.              *)

Begin(c, req, proto) ==
  /\ ui[c].at = "idle" /\ task[c].at = "none" /\ commands < MaxCommands
  /\ Ui(c, Asking("connect", req, Hello(proto), << >>))
  /\ Up(c, << >>) /\ Down(c, << >>)
  /\ commands' = commands + 1
  /\ UNCHANGED <<vars, ioVars, task, server, disturbed, spilled>>

\* A command of the UI, in a launcher of this or of an older version.
Invoke(c) ==
  \E req \in Request, proto \in {PROTO_VERSION, OldVersion} :
    req.type # "PeekAudit" /\ Begin(c, req, proto)

\* `clave audit' is another client of the same kind.
AuditCommand(c) == Begin(c, [type |-> "PeekAudit"], PROTO_VERSION)

\* The command is over: the reply, the launcher's own demonstration data, or
\* "daemon not running".  The connection is dropped.
End(c) == Ui(c, NoUi)

Connect(c) ==
  /\ ui[c].at = "connect"
  /\ \/ /\ Running /\ server = "listening"
        /\ Ui(c, [ui[c] EXCEPT !.at = "write"])
        /\ Task(c, Serving("queued", << >>))
     \/ /\ ~(Running /\ server = "listening")
        /\ End(c) /\ UNCHANGED task
  /\ UNCHANGED <<up, down>> /\ ClientAlone

\* Connection::write, which fails when the daemon has closed its end.
ClientWrite(c) ==
  /\ ui[c].at = "write"
  /\ \/ /\ task[c].at # "none"
        /\ Up(c, up[c] \o Frame(ui[c].msg))
        /\ Ui(c, [ui[c] EXCEPT !.at = "read"])
     \/ task[c].at = "none" /\ End(c) /\ UNCHANGED up
  /\ UNCHANGED <<task, down>> /\ ClientAlone

\* Connection::read: more bytes, or the end of the stream (an error of the command,
\* in the middle of a frame or before it).
ClientRead(c) ==
  /\ ui[c].at = "read" /\ ~Decodable(ui[c].buf) /\ ~TooLarge(ui[c].buf)
  /\ \/ \E n \in 1..Len(down[c]) :
          /\ Ui(c, [ui[c] EXCEPT !.buf = @ \o SubSeq(down[c], 1, n)])
          /\ Down(c, SubSeq(down[c], n + 1, Len(down[c])))
     \/ down[c] = << >> /\ task[c].at = "none" /\ End(c) /\ UNCHANGED down
  /\ UNCHANGED <<task, up>> /\ ClientAlone

\* LauncherClient::connect takes a Welcome of its own version and sends the request
\* of the command; any other answer ends the command, and so does any answer to it.
ClientReceive(c) ==
  LET answer == ui[c].buf[2]
      version == ui[c].msg.proto
  IN  /\ ui[c].at = "read"
      /\ \/ TooLarge(ui[c].buf) /\ End(c)
         \/ /\ Decodable(ui[c].buf) /\ ~TooLarge(ui[c].buf)
            /\ IF ui[c].msg.type = "Hello" /\ answer = Welcome(version)
                 THEN Ui(c, Asking("write", ui[c].req, ui[c].req, << >>))
                 ELSE End(c)
      /\ UNCHANGED <<task, up, down>> /\ ClientAlone

\* The launcher is closed, perhaps in the middle of writing a frame.
LauncherQuits(c) ==
  /\ ui[c].at # "idle"
  /\ \/ ui[c].at = "write" /\ task[c].at # "none" /\ Up(c, up[c] \o SubSeq(Frame(ui[c].msg), 1, 1))
     \/ UNCHANGED up
  /\ End(c)
  /\ UNCHANGED <<task, down>> /\ ClientAlone

-----------------------------------------------------------------------------
(* The daemon's IPC thread. *)

\* IpcServer::bind removes a stale socket; when it fails the thread ends, and the
\* daemon lives on.
BindServer ==
  /\ Running /\ server = "unbound"
  /\ server' \in {"listening", "stopped"}
  /\ UNCHANGED <<vars, ioVars, ui, task, up, down, disturbed, spilled, commands>>

Accept(c) ==
  /\ task[c].at = "queued" /\ Task(c, Serving("hello", << >>))
  /\ UNCHANGED <<ioVars, up, down, server, spilled>> /\ ServerAlone

\* An error of accept ends the loop and drops the runtime the tasks run on.  A
\* handler under way runs to its next await, where its reply is dropped.
Busy(c) == task[c].at \in {"dirs", "join"}

AcceptFails ==
  /\ Running /\ server = "listening"
  /\ server' = "stopped"
  /\ task' = [c \in Conns |-> IF Busy(c) THEN task[c] ELSE NoTask]
  /\ UNCHANGED <<ioVars, up, down, spilled>> /\ ServerAlone

-----------------------------------------------------------------------------
(* serve_launcher, one task per connection. *)

ServerRead(c) ==
  /\ task[c].at \in {"hello", "serve"} /\ ~Decodable(task[c].buf)
  /\ \/ \E n \in 1..Len(up[c]) :
          /\ Task(c, [task[c] EXCEPT !.buf = @ \o SubSeq(up[c], 1, n)])
          /\ Up(c, SubSeq(up[c], n + 1, Len(up[c])))
     \/ up[c] = << >> /\ ui[c].at = "idle" /\ Task(c, NoTask) /\ UNCHANGED up
  /\ UNCHANGED <<ioVars, down, server, spilled>> /\ ServerAlone

\* Mutant: a Hello of another version is skipped, and the next one awaited.
ServerHelloWaits(c) ==
  /\ task[c].at = "hello" /\ Decodable(task[c].buf)
  /\ IF task[c].buf[2] = Hello(PROTO_VERSION)
       THEN Task(c, Replying(Welcome(PROTO_VERSION)))
       ELSE Task(c, Serving("hello", << >>))
  /\ UNCHANGED <<ioVars, up, down, server, spilled>> /\ ServerAlone

\* Anything but a Hello of this version is an error, which closes the connection.
ServerHello(c) ==
  /\ task[c].at = "hello" /\ Decodable(task[c].buf)
  /\ IF task[c].buf[2] = Hello(PROTO_VERSION)
       THEN Task(c, Replying(Welcome(PROTO_VERSION)))
       ELSE Task(c, NoTask)
  /\ UNCHANGED <<ioVars, up, down, server, spilled>> /\ ServerAlone

ServerReply(c) ==
  /\ task[c].at = "reply"
  /\ \/ /\ ui[c].at # "idle" /\ server = "listening"
        /\ Down(c, down[c] \o Frame(task[c].msg)) /\ Task(c, Serving("serve", << >>))
     \/ /\ ui[c].at = "idle" \/ server # "listening"
        /\ Task(c, NoTask) /\ UNCHANGED down
  /\ UNCHANGED <<ioVars, up, server, spilled>> /\ ServerAlone

Requested(c, types) ==
  task[c].at = "serve" /\ Decodable(task[c].buf) /\ task[c].buf[2].type \in types

\* handle_launcher_request of what changes nothing.  encode panics on a message
\* longer than a frame in a build with assertions, and sends it in another.
HandleQuery(c) ==
  /\ \/ Requested(c, {"Query"}) /\ Task(c, Replying(Answer("Data")))
     \/ Requested(c, {"PeekAudit"})
        /\ \/ \E kind \in {"Data", "Oversized"} : Task(c, Replying(Answer(kind)))
           \/ Task(c, NoTask)
  /\ UNCHANGED <<ioVars, up, down, server, spilled>> /\ ServerAlone

\* provision_contained_keychain, between the directories of the environment and
\* those of the arguments.
Keychain == <<"Library/Keychains", "passphrase", "login keychain">>

\* LaunchProfile::resolve and spawn_contained: what is written under the mount point
\* before the app is started, in order.
AppDirs(app) ==
  <<"HOME", "TMPDIR">> \o Keychain
    \o (IF app \in Chromium THEN <<"profile">> ELSE << >>)
    \o (IF app \in Seeded THEN <<"seed">> ELSE << >>)

\* WebAppRule::launch_spec: a browser window, in a profile of the app or its persona.
WebDirs == <<"HOME", "TMPDIR">> \o Keychain \o <<"profile">>

\* What is written, or LaunchFailed without a mount point or when the policy has no
\* launchable rule for the app.
Prepared(c, req, dirs) ==
  \E allowed \in BOOLEAN :
    IF mount_point /\ allowed
      THEN Task(c, Working("dirs", req, dirs))
      ELSE Task(c, Replying(Answer("LaunchFailed")))

\* prepare_launch, alone or as the beginning of launch.
PrepareLaunch(c) ==
  /\ Requested(c, {"PrepareLaunch", "Launch"})
  /\ LET req == task[c].buf[2] IN
     IF req.type = "PrepareLaunch"
       THEN Task(c, Replying(Answer("LaunchSpec")))
       ELSE Prepared(c, req, AppDirs(req.app))
  /\ UNCHANGED <<ioVars, up, down, server, spilled>> /\ ServerAlone

PrepareWebLaunch(c) ==
  /\ Requested(c, {"LaunchWeb"}) /\ Prepared(c, task[c].buf[2], WebDirs)
  /\ UNCHANGED <<ioVars, up, down, server, spilled>> /\ ServerAlone

\* create_dir_all and the links of seed_contained_home: errors are ignored.
MakeDir(c) ==
  /\ task[c].at = "dirs" /\ task[c].todo # << >>
  /\ Task(c, [task[c] EXCEPT !.todo = Tail(@)])
  /\ spilled' = (spilled \/ (attached = 0 /\ ~disturbed))
  /\ UNCHANGED <<ioVars, up, down, server>> /\ ServerAlone

\* The app, or `open`, is started; on_zone_join follows in a step of its own.
Spawn(c) ==
  /\ task[c].at = "dirs" /\ task[c].todo = << >>
  /\ \/ \E pid \in Proc \ supervised : Task(c, Working("join", pid, << >>))
     \/ Task(c, Replying(Answer("LaunchFailed")))
  /\ UNCHANGED <<ioVars, up, down, server, spilled>> /\ ServerAlone

JoinZone(c) ==
  /\ task[c].at = "join" /\ Join(task[c].req)
  /\ Task(c, Replying(Answer("Launched")))
  /\ UNCHANGED <<up, down, server, spilled>> /\ ServerAlone

-----------------------------------------------------------------------------
(* The rest of the daemon and of the machine. *)

\* The death of the daemon closes its sockets; its launches die with it.  The disk
\* is gone for a launch when it is ejected, or detached by a wipe that began after
\* the launch had read the mount point.
Machine ==
  /\ DiskStep
  /\ IF pc' = "down"
       THEN server' = "unbound" /\ task' = [c \in Conns |-> NoTask]
       ELSE UNCHANGED <<server, task>>
  /\ disturbed' = CASE pc' = "down"                 -> FALSE
                    [] attached' = 0 /\ attached # 0 -> pc = pc' \/ \E c \in Conns : Busy(c)
                    [] OTHER                         -> disturbed
  /\ UNCHANGED <<ui, up, down, spilled, commands>>

VolumeCall == WriteVolume /\ UNCHANGED ipcVars

ClientStep(c) == Connect(c) \/ ClientWrite(c) \/ ClientRead(c) \/ ClientReceive(c)

TaskStep(c) ==
  \/ Accept(c) \/ ServerRead(c) \/ ServerHello(c) \/ HandleQuery(c)
  \/ PrepareLaunch(c) \/ PrepareWebLaunch(c) \/ MakeDir(c) \/ Spawn(c) \/ JoinZone(c) \/ ServerReply(c)

LNext ==
  \/ \E c \in Conns : Invoke(c) \/ AuditCommand(c) \/ ClientStep(c) \/ LauncherQuits(c) \/ TaskStep(c)
  \/ BindServer \/ AcceptFails \/ Machine \/ VolumeCall

\* Both processes run: the UI's task and the daemon's task of every connection.
LSpec ==
  /\ LInit /\ [][LNext]_allVars
  /\ \A c \in Conns : WF_allVars(ClientStep(c)) /\ WF_allVars(TaskStep(c))

-----------------------------------------------------------------------------
(* Properties. *)

LauncherTypeOK ==
  /\ TypeOK /\ IOTypeOK
  /\ \A c \in Conns :
       /\ ui[c].at \in {"idle", "connect", "write", "read"}
       /\ task[c].at \in {"none", "queued", "hello", "serve", "reply", "dirs", "join"}
       /\ Len(up[c]) <= 2 /\ Len(down[c]) <= 2
  /\ server \in {"unbound", "listening", "stopped"}
  /\ disturbed \in BOOLEAN /\ spilled \in BOOLEAN /\ commands \in 0..MaxCommands

\* The home, the profile and the keychain of a contained app are made on the
\* encrypted disk: nothing of a launch is written beside it, whichever of attach,
\* wipe, crash and launch comes between which, unless the user ejected the disk or a
\* wipe detached it while that launch was already under way.
HomeOnDisk == LauncherTypeOK /\ ~spilled

\* Every command of the UI comes to an end, though the client has no timeout: the
\* daemon answers or closes, whatever the version of the launcher, the length of
\* the answer, the failure of the accept loop or the death of the daemon.
CommandsEnd == \A c \in Conns : ui[c].at # "idle" ~> ui[c].at = "idle"
=============================================================================
