----------------------------- MODULE WorkGuards -----------------------------
(***************************************************************************)
(* The threads of the daemon that watch the desktop, and the decision they *)
(* share.                                                                  *)
(*                                                                         *)
(*   ClipboardGuard and its driver                  guard                  *)
(*     (clave-mac/src/clipboard.rs, clave-win/src/clipboard.rs)            *)
(*   CaptureWatch (clave-mac/src/screen.rs)         watch["screen"]        *)
(*   TapWatch (clave-mac/src/input.rs)              watch["input"]         *)
(*   the keyboard hook (clave-win/src/input.rs)     last_report            *)
(*   Daemon::decide_action, should_audit (lib.rs)   last_audit             *)
(*                                                                         *)
(* Each thread polls: it reads the foreground, the clipboard's counter or  *)
(* a list of processes, and acts on them later, while the user switches,   *)
(* copies and closes windows.  Time is counted in seconds.  decide_action  *)
(* is one step: it takes one snapshot of the policy and one lock.  Names   *)
(* that ClaveDisk has too begin with Guards: one module of proofs extends  *)
(* both.                                                                   *)
(***************************************************************************)
EXTENDS PolicyDecisions, Integers, FiniteSets

CONSTANTS Pids,         \* desktop processes
          Launched,     \* those of the work zone at the start
          Payloads,     \* the sets of formats a copy may offer
          Requests,     \* actions a shim asks a decision for
          Policies,     \* the bundles in force one after the other
          MaxMoves,     \* bound on what the user and the system do
          MaxTime,      \* bound on the clock
          MaxFailures   \* bound on OpenClipboard calls that fail

ASSUME GuardsAssumption ==
  /\ MaxMoves \in Nat /\ MaxTime \in Nat /\ MaxFailures \in Nat
  /\ Launched \subseteq Pids /\ Payloads \subseteq SUBSET ClipFormat
  /\ 1 \in DOMAIN Policies /\ DOMAIN Policies \subseteq Nat

VARIABLES
  platform,     \* "mac" or "win": which guards run
  now,          \* unix_now
  version,      \* Daemon.policy
  zones,        \* the supervised pids
  front, shown, \* the foreground process, and those with a window on screen
  clip,         \* the clipboard: its counter and the formats it offers
  subjects,     \* per watch: the pids that capture the screen, that tap the keyboard
  guard,        \* run_clipboard_guard's locals
  watch,        \* run_screen_watch's and run_input_watch's locals
  last_report,  \* LAST_REPORT_MS
  last_audit,   \* Daemon.last_audit
  moves, failures,   \* what has been used of the bounds
  denied, emitted,   \* auxiliary: the last refusal, and what was audited
  work_payload, \* auxiliary: the counter of the payload last tagged as work
  noticed,      \* auxiliary: per watch, the subjects that were reported
  recycled      \* auxiliary: per watch, the subjects that took a pid still in `reported'

desktop == <<zones, front, shown, clip, subjects>>
auditing == <<last_audit, denied, emitted>>
guardsVars == <<platform, now, version, desktop, guard, watch, last_report, auditing,
                moves, failures, work_payload, noticed, recycled>>

policy == Policies[version]
Watches == {"screen", "input"}
Never == [kind |-> "none"]
Untagged == [count |-> -1, formats |-> {}]
GuardAt == {"sleep", "front", "copied", "check", "clear", "cleared"}

GuardsTypeOK ==
  /\ platform \in {"mac", "win"} /\ now \in 0..MaxTime /\ version \in DOMAIN Policies
  /\ zones \subseteq Pids /\ front \in shown /\ shown \subseteq Pids
  /\ clip.count \in Nat /\ clip.formats \subseteq ClipFormat
  /\ guard.at \in GuardAt /\ guard.front \in Zone
  /\ guard.last <= clip.count /\ guard.count <= clip.count
  /\ guard.tagged.count <= guard.count \/ guard.at \in {"sleep", "front"}
  /\ \A k \in Watches : watch[k].todo \subseteq watch[k].reported /\ watch[k].reported \subseteq Pids

GuardsInit ==
  /\ platform \in {"mac", "win"} /\ now = 0 /\ version = 1
  /\ zones = Launched /\ front \in Pids /\ shown = {front}
  /\ clip = [count |-> 0, formats |-> {}]
  /\ subjects = [k \in Watches |-> {}]
  /\ guard = [at |-> "sleep", front |-> "Personal", count |-> 0, last |-> 0, tagged |-> Untagged]
  /\ watch = [k \in Watches |-> [reported |-> {}, todo |-> {}]]
  /\ last_report = -1 /\ last_audit = Never
  /\ moves = 0 /\ failures = 0 /\ denied = Never /\ emitted = {}
  /\ work_payload = Untagged
  /\ noticed = [k \in Watches |-> {}] /\ recycled = [k \in Watches |-> {}]

(***************************************************************************)
(* decide_action: a refusal is audited unless the last audited one was of  *)
(* the same kind and less than AUDIT_COALESCE_SECS old.                    *)
(***************************************************************************)
AUDIT_COALESCE_SECS == 2

audit_action_for(act, verdict) ==
  CASE act.kind = "ClipboardTransfer" -> "ClipboardBlocked"
    [] act.kind = "FileOpen" -> IF verdict.reason = "EnclaveIntrusion"
                                THEN "EnclaveIntrusionBlocked" ELSE "FileSaveDenied"
    [] act.kind = "NetConnect" -> "NetworkBlocked"
    [] act.kind = "ScreenCapture" -> "ScreenCaptureOverWork"
    [] act.kind = "InputTap" -> "InputTapOverWork"

\* Any refusal silences the next ones, whatever they are about.
AnyKindMutant(action) == last_audit = Never \/ now - last_audit.time >= AUDIT_COALESCE_SECS

should_audit(action) ==
  ~ (last_audit # Never /\ last_audit.kind = action /\ now - last_audit.time < AUDIT_COALESCE_SECS)

decide_action(act) ==
  LET verdict == decide(act, zones, policy, now)
      event == [kind |-> audit_action_for(act, verdict), time |-> now]
  IN IF IsAllow(verdict) THEN UNCHANGED auditing
     ELSE /\ denied' = event
          /\ IF should_audit(event.kind)
             THEN last_audit' = event /\ emitted' = emitted \cup {event}
             ELSE UNCHANGED <<last_audit, emitted>>

\* RequestDecision of a shim; what it is answered is not kept.
handle_shim_msg(act) ==
  /\ moves < MaxMoves /\ moves' = moves + 1
  /\ decide_action(act)
  /\ UNCHANGED <<platform, now, version, desktop, guard, watch, last_report, failures,
                 work_payload, noticed, recycled>>

(***************************************************************************)
(* The user and the system                                                 *)
(***************************************************************************)
Move(rest) ==
  /\ moves < MaxMoves /\ moves' = moves + 1
  /\ UNCHANGED <<platform, guard, watch, last_report, auditing, failures, work_payload>>
  /\ UNCHANGED rest

\* The wall clock advances, or is set back.
Tick ==
  /\ now' \in {now + 1, now - 1} \cap 0..MaxTime
  /\ Move(<<version, desktop, noticed, recycled>>)

update_policy ==
  /\ version + 1 \in DOMAIN Policies /\ version' = version + 1
  /\ Move(<<now, desktop, noticed, recycled>>)

ZoneChange(p) ==
  /\ zones' = IF p \in zones THEN zones \ {p} ELSE zones \cup {p}
  /\ Move(<<now, version, front, shown, clip, subjects, noticed, recycled>>)

Switch(p, hide) ==
  /\ p # front
  /\ front' = p /\ shown' = (IF hide THEN {} ELSE shown) \cup {p}
  /\ Move(<<now, version, zones, clip, subjects, noticed, recycled>>)

Copy(payload) ==
  /\ clip' = [count |-> clip.count + 1, formats |-> payload]
  /\ Move(<<now, version, zones, front, shown, subjects, noticed, recycled>>)

\* A process starts, or stops, to capture the screen or to tap the keyboard.
Watched(k, p) ==
  /\ platform = "mac"
  /\ IF p \in subjects[k]
     THEN /\ subjects' = [subjects EXCEPT ![k] = @ \ {p}]
          /\ noticed' = [noticed EXCEPT ![k] = @ \ {p}]
          /\ recycled' = [recycled EXCEPT ![k] = @ \ {p}]
     ELSE /\ subjects' = [subjects EXCEPT ![k] = @ \cup {p}]
          /\ recycled' = [recycled EXCEPT ![k] = IF p \in watch[k].reported THEN @ \cup {p} ELSE @]
          /\ UNCHANGED noticed
  /\ Move(<<now, version, zones, front, shown, clip>>)

(***************************************************************************)
(* The clipboard guard, one poll                                           *)
(***************************************************************************)
Guarding(rest) ==
  UNCHANGED <<platform, now, version, zones, front, shown, subjects, watch, last_report,
              moves, noticed, recycled, rest>>

frontmost_zone == IF front \in zones THEN "Work" ELSE "Personal"

PollFront ==
  /\ guard.at = "sleep"
  /\ guard' = [guard EXCEPT !.at = "front", !.front = frontmost_zone]
  /\ Guarding(<<clip, auditing, failures, work_payload>>)

PollCount ==
  /\ guard.at = "front"
  /\ guard' = [guard EXCEPT !.at = IF clip.count # guard.last THEN "copied" ELSE "check",
                            !.count = clip.count, !.last = clip.count]
  /\ Guarding(<<clip, auditing, failures, work_payload>>)

\* Every type the clipboard offers, classified; none when OpenClipboard fails
\* because another process holds the clipboard.
Offered == clip.formats
formats(failed) == IF failed THEN {} ELSE Offered

on_copy ==
  /\ guard.at = "copied"
  /\ \E failed \in BOOLEAN :
       /\ failed => platform = "win" /\ failures < MaxFailures
       /\ failures' = IF failed THEN failures + 1 ELSE failures
       /\ guard' = [guard EXCEPT !.at = "check", !.tagged =
            IF guard.front = "Work"
            THEN [count |-> guard.count, formats |-> formats(failed)]
            ELSE Untagged]
  /\ work_payload' = IF guard.front = "Work" THEN [Untagged EXCEPT !.count = guard.count]
                                             ELSE work_payload
  /\ Guarding(<<clip, auditing>>)

Transfer(fmt) == [kind |-> "ClipboardTransfer", src |-> "Work", dst |-> "Personal", fmt |-> fmt]
Refused(payload) ==
  {f \in payload : ~IsAllow(decide(Transfer(f), zones, policy, now))}

Proceed(at, tag) == guard' = [guard EXCEPT !.at = at, !.tagged = tag]

\* A payload the policy allows is forgotten the first time it is decided.
ForgetMutant ==
  /\ guard.at = "check"
  /\ IF guard.front = "Personal" /\ guard.tagged.count = guard.count /\ Refused(guard.tagged.formats) # {}
     THEN /\ Proceed("clear", Untagged)
          /\ \E f \in Refused(guard.tagged.formats) : decide_action(Transfer(f))
     ELSE /\ Proceed("sleep", IF guard.front = "Work" THEN guard.tagged ELSE Untagged)
          /\ UNCHANGED auditing
  /\ Guarding(<<clip, failures, work_payload>>)

on_front ==
  /\ guard.at = "check"
  /\ CASE guard.front = "Work" \/ guard.tagged = Untagged ->
            Proceed("sleep", guard.tagged) /\ UNCHANGED auditing
       [] guard.front = "Personal" /\ guard.tagged # Untagged /\ guard.tagged.count # guard.count ->
            Proceed("sleep", Untagged) /\ UNCHANGED auditing
       [] guard.front = "Personal" /\ guard.tagged.count = guard.count ->
            IF Refused(guard.tagged.formats) = {}
            THEN Proceed("sleep", guard.tagged) /\ UNCHANGED auditing
            ELSE /\ Proceed("clear", Untagged)
                 /\ \E f \in Refused(guard.tagged.formats) : decide_action(Transfer(f))
  /\ Guarding(<<clip, failures, work_payload>>)

Emptied == [count |-> clip.count + 1, formats |-> {}]

\* clearContents answers the new counter.
clear_pasteboard ==
  /\ guard.at = "clear" /\ platform = "mac"
  /\ clip' = Emptied
  /\ guard' = [guard EXCEPT !.at = "sleep", !.last = clip.count + 1]
  /\ Guarding(<<auditing, failures, work_payload>>)

clear_clipboard ==
  /\ guard.at = "clear" /\ platform = "win"
  /\ \/ clip' = Emptied /\ UNCHANGED failures
     \/ failures < MaxFailures /\ failures' = failures + 1 /\ UNCHANGED clip
  /\ guard' = [guard EXCEPT !.at = "cleared"]
  /\ Guarding(<<auditing, work_payload>>)

\* The counter is read again after clear_clipboard has closed the clipboard.
ReadSequence ==
  /\ guard.at = "cleared"
  /\ guard' = [guard EXCEPT !.at = "sleep", !.last = clip.count]
  /\ Guarding(<<clip, auditing, failures, work_payload>>)

run_clipboard_guard ==
  PollFront \/ PollCount \/ on_copy \/ on_front \/ clear_pasteboard \/ clear_clipboard \/ ReadSequence

(***************************************************************************)
(* The watches of macOS: list, look for work, then report each new one.    *)
(* The list and the windows are read in one step.                          *)
(***************************************************************************)
Watching(rest) ==
  UNCHANGED <<platform, now, version, desktop, guard, last_report, moves, failures,
              work_payload, recycled, rest>>

\* keyboard_tappers leaves out the supervised, running_capture_tools does not.
running_capture_tools == subjects["screen"]
keyboard_tappers == subjects["input"] \ zones
Listed(k) == IF k = "screen" THEN running_capture_tools ELSE keyboard_tappers
OverWork(k) == IF k = "screen" THEN shown \cap zones # {} ELSE front \in zones

\* What was listed counts as reported even when no work is in sight.
EagerMutant(k) ==
  /\ platform = "mac" /\ watch[k].todo = {}
  /\ watch' = [watch EXCEPT ![k] =
       [reported |-> Listed(k), todo |-> IF OverWork(k) THEN Listed(k) \ watch[k].reported ELSE {}]]
  /\ Watching(<<auditing, noticed>>)

observe(k) ==
  /\ platform = "mac" /\ watch[k].todo = {}
  /\ LET kept == watch[k].reported \cap Listed(k)
     IN watch' = [watch EXCEPT ![k] =
          IF OverWork(k) THEN [reported |-> Listed(k), todo |-> Listed(k) \ kept]
                         ELSE [reported |-> kept, todo |-> {}]]
  /\ Watching(<<auditing, noticed>>)

ReportKind(k) == IF k = "screen" THEN "ScreenCapture" ELSE "InputTap"

Report(k, p) ==
  /\ p \in watch[k].todo
  /\ watch' = [watch EXCEPT ![k].todo = @ \ {p}]
  /\ noticed' = [noticed EXCEPT ![k] = @ \cup ({p} \cap subjects[k])]
  /\ decide_action([kind |-> ReportKind(k), proc |-> p, exe |-> p])
  /\ Watching(<<>>)

run_watch(k) == observe(k) \/ \E p \in Pids : Report(k, p)

\* The keyboard hook of Windows: an injected key over a work window, at most
\* one report a second.
throttled == last_report >= 0 /\ now - last_report < 1
Injected == [kind |-> "InputTap", proc |-> NoProc, exe |-> "injected"]

report_if_over_work ==
  /\ platform = "win" /\ moves < MaxMoves /\ moves' = moves + 1
  /\ front \in zones
  /\ IF throttled
     THEN UNCHANGED <<last_report, auditing>>
     ELSE /\ last_report' = now
          /\ decide_action(Injected)
  /\ UNCHANGED <<platform, now, version, desktop, guard, watch, failures, work_payload, noticed, recycled>>

GuardsNext ==
  \/ Tick \/ update_policy
  \/ \E p \in Pids : ZoneChange(p) \/ \E hide \in BOOLEAN : Switch(p, hide)
  \/ \E payload \in Payloads : Copy(payload)
  \/ \E k \in Watches, p \in Pids : Watched(k, p)
  \/ \E act \in Requests : handle_shim_msg(act)
  \/ run_clipboard_guard
  \/ \E k \in Watches : run_watch(k)
  \/ report_if_over_work

\* Every guard is an endless loop of a thread of its own.
Fairness ==
  /\ WF_guardsVars(run_clipboard_guard)
  /\ \A k \in Watches : WF_guardsVars(run_watch(k))

GuardsSpec == GuardsInit /\ [][GuardsNext]_guardsVars /\ Fairness

-----------------------------------------------------------------------------
\* "Rate-limit & coalesce": whatever was refused, an event of that very kind
\* was audited within the two seconds before (or, once the clock was set back,
\* at a time that has not come yet): a refusal is never silent for its kind.
DenialsExplained ==
  /\ GuardsTypeOK
  /\ denied # Never => \E e \in emitted :
       e.kind = denied.kind /\ denied.time - e.time < AUDIT_COALESCE_SECS

\* A payload the guard saw copied in the work zone, and that the policy now in
\* force refuses to a personal application, does not stay on the clipboard
\* while one is in front; also when the policy changed, or expired, after an
\* earlier poll had let the payload pass.
PayloadCleared ==
  (clip.count = work_payload.count /\ frontmost_zone = "Personal" /\ Refused(clip.formats) # {})
  ~> (\/ clip.count # work_payload.count \/ frontmost_zone = "Work"
      \/ Refused(clip.formats) = {} \/ failures > 0)

\* What the guard empties is a payload it had tagged as work, or one that was
\* copied after the poll had read the counter: never the personal payload it
\* found on the clipboard.
ClearsOnlyWork ==
  [][ guard.at = "clear" /\ clip' # clip /\ moves' = moves =>
        clip.count = work_payload.count \/ clip.count > guard.count ]_guardsVars

\* Whatever captures the screen or taps the keyboard while work is in sight is
\* reported, whenever it started; but for a process that took over the pid of
\* another between two polls.
SubjectsNoticed ==
  \A k \in Watches, p \in Pids :
    (p \in subjects[k] \ recycled[k] /\ OverWork(k) /\ (k = "input" => p \notin zones))
    ~> (p \in noticed[k] \/ p \notin subjects[k] \/ ~OverWork(k) \/ (k = "input" /\ p \in zones))

\* The clipboard guard clears what it must and nothing else, whatever is copied,
\* switched to or decided between two of its system calls.
ClipboardGuarded == PayloadCleared /\ ClearsOnlyWork

=============================================================================
