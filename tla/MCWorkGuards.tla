---------------------------- MODULE MCWorkGuards ----------------------------
(* WorkGuards with a work and a personal process.  The second policy takes *)
(* back what the first allowed, and expires.                               *)
EXTENDS WorkGuards

CONSTANTS w, p
MCPids == {w, p}
MCPayloads == {{"PlainText"}, {"PlainText", "Image"}}
Bundle(allowed, capturers, not_after) ==
  [work_to_personal_allow |-> allowed, personal_to_work_sanitize |-> {},
   allowed_capturers |-> capturers, on_capture |-> "Deny",
   allowed_tappers |-> {}, on_tap |-> "Prompt", not_after |-> not_after,
   allow_save_outside_enclave |-> FALSE, blocked_hosts |-> {}]
MCPolicies == << Bundle({"PlainText"}, {}, 1), Bundle({}, {p}, MaxTime) >>
MCRequests ==
  { [kind |-> "FileOpen", proc |-> p, inside |-> TRUE, access |-> "Read"],
    [kind |-> "ClipboardTransfer", src |-> "Work", dst |-> "Personal", fmt |-> "Image"] }
=============================================================================
