--------------------------- MODULE PolicyDecisions ---------------------------
(***************************************************************************)
(* The pure decisions of clave-core: what the policy bundle says of an     *)
(* action, an exec, a path, a flow or a DNS query, given whether the       *)
(* process is in the work zone.                                            *)
(*                                                                         *)
(* A host name is its labels, top label last and in lower case, with the   *)
(* trailing dots it was written with, which normalize_host takes away.  A  *)
(* path is a sequence of components with the style of its separators and   *)
(* the case it was written in.                                             *)
(***************************************************************************)
EXTENDS Naturals, Sequences, SequencesExt

Zone == {"Work", "Personal"}
ClipFormat == {"PlainText", "RichText", "Html", "Image", "Files", "Other"}

Allow(reason) == [decision |-> "Allow", reason |-> reason]
Deny(reason) == [decision |-> "Deny", reason |-> reason]
IsAllow(verdict) == verdict.decision = "Allow"

(***************************************************************************)
(* ClipboardPolicy, NetworkPolicy                                          *)
(***************************************************************************)
work_to_personal(pol, fmt) ==
  IF fmt \in pol.work_to_personal_allow THEN "Allow" ELSE "Deny"

personal_to_work(pol, fmt) ==
  IF fmt \in pol.personal_to_work_sanitize THEN "Sanitize" ELSE "Allow"

clip_decision(src, dst, fmt, pol) ==
  CASE src = dst -> "Allow"
    [] src = "Work" /\ dst = "Personal" -> work_to_personal(pol, fmt)
    [] src = "Personal" /\ dst = "Work" -> personal_to_work(pol, fmt)

normalize_host(host) == host.labels

is_blocked(pol, host) ==
  \E h \in pol.blocked_hosts : normalize_host(h) = normalize_host(host)

\* The first provider that has a steering block; None where there is none.
None == <<>>
dns_steering(pol) ==
  LET with == SelectSeq(pol.providers, LAMBDA p : p.dns # None)
  IN IF with = <<>> THEN None ELSE with[1].dns

(***************************************************************************)
(* decide                                                                  *)
(***************************************************************************)
decide_file_open(supervised, inside, access, allow_save) ==
  CASE inside /\ ~supervised -> Deny("EnclaveIntrusion")
    [] inside /\ supervised -> Allow("FileAccess")
    [] ~inside /\ supervised /\ access = "Write" /\ ~allow_save -> Deny("FileWrite")
    [] ~inside /\ supervised /\ ~(access = "Write" /\ ~allow_save) -> Allow("FileAccess")
    [] ~inside /\ ~supervised -> Allow("NotSupervised")

NoProc == "no process"

decide(act, zones, pol, now) ==
  IF now > pol.not_after THEN Deny("PolicyExpired") ELSE
  CASE act.kind = "ClipboardTransfer" ->
         [decision |-> clip_decision(act.src, act.dst, act.fmt, pol), reason |-> "Clipboard"]
    [] act.kind = "FileOpen" ->
         decide_file_open(act.proc \in zones, act.inside, act.access, pol.allow_save_outside_enclave)
    [] act.kind = "NetConnect" ->
         IF act.proc \notin zones THEN Allow("NotSupervised")
         ELSE IF is_blocked(pol, act.host) THEN Deny("Network") ELSE Allow("Network")
    [] act.kind = "ScreenCapture" ->
         IF (act.proc # NoProc /\ act.proc \in zones) \/ act.exe \in pol.allowed_capturers
         THEN Allow("ScreenCapture")
         ELSE [decision |-> pol.on_capture, reason |-> "ScreenCapture"]
    [] act.kind = "InputTap" ->
         IF (act.proc # NoProc /\ act.proc \in zones) \/ act.exe \in pol.allowed_tappers
         THEN Allow("InputTap")
         ELSE [decision |-> pol.on_tap, reason |-> "InputTap"]

(***************************************************************************)
(* Exec classification                                                     *)
(***************************************************************************)
binary_matches(rule, presented, is_platform) ==
  /\ rule.os = presented.os
  /\ IF rule.os = "Macos"
     THEN /\ rule.signing_id = presented.signing_id
          /\ IF rule.team_id = "" THEN is_platform /\ presented.team_id = ""
                                  ELSE rule.team_id = presented.team_id
     ELSE rule.publisher = presented.publisher /\ rule.product = presented.product

match_app(apps, presented, is_platform) ==
  LET hits == SelectSeq(apps, LAMBDA r : binary_matches(r.binary, presented, is_platform))
  IN IF hits = <<>> THEN None ELSE <<hits[1].app_id>>

classify_exec(binary, is_platform, parent_supervised, apps) ==
  LET matched == match_app(apps, binary, is_platform)
  IN [allow |-> TRUE, matched |-> matched, joins_zone |-> matched # None \/ parent_supervised]

(***************************************************************************)
(* Paths: `under' compares whole components, in lower case when the prefix *)
(* is written the Windows way; an empty prefix covers nothing.             *)
(***************************************************************************)
Component(c, fold) == IF fold THEN [c EXCEPT !.upper = FALSE] ELSE c
Fold(path, fold) == [i \in DOMAIN path.parts |-> Component(path.parts[i], fold)]

under(path, prefix) ==
  LET fold == prefix.windows
  IN prefix.parts # <<>> /\ IsPrefix(Fold(prefix, fold), Fold(path, fold))

(***************************************************************************)
(* Flows and DNS                                                           *)
(***************************************************************************)

classify_flow(supervised, dst_blocked) ==
  IF ~supervised THEN "Direct" ELSE IF dst_blocked THEN "Block" ELSE "Tunnel"

suffix_matches(qname, domain) ==
  /\ normalize_host(domain) # <<>>
  /\ IsSuffix(normalize_host(domain), normalize_host(qname))

decide_dns(supervised, qname, steering) ==
  IF /\ supervised
     /\ steering.steer_all \/ \E d \in steering.match_domains : suffix_matches(qname, d)
  THEN "Steer" ELSE "Personal"

classify_dns_flow(supervised, qname, steering) ==
  CASE ~supervised -> "Direct"
    [] supervised /\ steering = None -> "Tunnel"
    [] supervised /\ steering # None ->
         IF decide_dns(supervised, qname, steering) = "Steer" THEN "Tunnel" ELSE "Direct"

=============================================================================
