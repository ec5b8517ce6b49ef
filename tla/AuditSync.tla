----------------------------- MODULE AuditSync -----------------------------
(***************************************************************************)
(* The path of an audit event from the device to the gateway's ledger:     *)
(*                                                                         *)
(*   AuditSpool (clave-proto/src/audit.rs)        seq, head, pending       *)
(*   GatewaySync::sync_once and Checkpoint        pc, snapSeq, snapHead,   *)
(*     (clave-daemon/src/lib.rs)                  peeked, ckpt             *)
(*   GatewayLink (clave-proto/src/link.rs and     link, wire               *)
(*     transport.rs)                                                       *)
(*   AuditLedger::ingest                          chain, verified, alerts  *)
(*     (clave-gateway/src/audit_ingest.rs)                                 *)
(*                                                                         *)
(* The sync thread runs sync_once in steps, one per lock it takes or call  *)
(* it makes; Emit is taken by any thread of the daemon (the clipboard      *)
(* guard, the screen and input watches, launcher requests, and sync_once   *)
(* itself while it applies commands) and so interleaves with every step.   *)
(***************************************************************************)
EXTENDS AuditChain, FiniteSets

CONSTANTS DeviceKey,  \* the key of the DeviceSigningKey, registered at the gateway
          Faults,     \* the faults that may happen (see FaultKind)
          MaxFaults,  \* bound on their number
          MaxSeq,     \* bound on spool.seq
          BootMode    \* "fresh": AuditSpool::new() (mac_main, win_main)
                      \* "resume": AuditSpool::resume_with (integration tests)

FaultKind == {"offline",      \* the link refuses a push, and later recovers
              "pump",         \* the pump task ends: what it had not written is lost
              "crash",        \* the daemon dies and is started again
              "unreachable",  \* as "crash", and the gateway cannot be reached at boot
              "disk",         \* FileCheckpointStore::save fails
              "drop", "duplicate", "corrupt", "garble", "forge"}  \* what a hostile path may do

ASSUME SyncAssumption ==
  /\ DeviceKey \in Key
  /\ Faults \subseteq FaultKind
  /\ MaxFaults \in Nat
  /\ MaxSeq \in Nat
  /\ BootMode \in {"fresh", "resume"}

VARIABLES
  seq, head, pending,         \* SpoolState
  pc,                         \* where the sync thread is in sync_once
  snapSeq, snapHead,          \* audit_checkpoint(), read under two separate locks
  peeked,                     \* the batch peek_audit() returned
  ckpt,                       \* the checkpoint file
  link,                       \* the GatewayLink of this process
  wire,                       \* batches accepted by the link, not yet ingested
  chain, verified, alerts,    \* the device's DeviceChain, its events, the alert kinds
  minted,                     \* auxiliary: every head the spool has had
  happened, nfaults           \* auxiliary: the kinds and the number of faults so far

spoolVars == <<seq, head, pending>>
syncVars == <<pc, snapSeq, snapHead, peeked>>
ledgerVars == <<chain, verified, alerts>>
faultVars == <<happened, nfaults>>
vars == <<spoolVars, syncVars, ckpt, link, wire, ledgerVars, minted, faultVars>>

NoBatch == [entries |-> << >>, head |-> GENESIS]
NoCheckpoint == [saved |-> FALSE, seq |-> 0, head |-> GENESIS, pending |-> << >>]

PCs == {"seq1", "head1", "save1", "peek", "push", "confirm", "seq2", "head2", "save2"}

TypeOK ==
  /\ seq \in Nat /\ head \in ChainHash /\ pending \in Seq(SpoolEntry)
  /\ pc \in PCs
  /\ snapSeq \in Nat /\ snapHead \in ChainHash
  /\ peeked \in [entries : Seq(SpoolEntry), head : ChainHash]
  /\ ckpt \in [saved : BOOLEAN, seq : Nat, head : ChainHash, pending : Seq(SpoolEntry)]
  /\ link \in {"up", "down", "dead", "sink"}
  /\ wire \in Seq(SignedSpoolBatch)
  /\ chain \in [public_key : Key, next_seq : Nat, head : ChainHash]
  /\ verified \in Seq(Event)
  /\ alerts \subseteq {"gap", "tampered", "bad_signature", "rejected"}
  /\ minted \subseteq ChainHash
  /\ happened \subseteq FaultKind /\ nfaults \in Nat

Init ==
  /\ seq = 0 /\ head = GENESIS /\ pending = << >>
  /\ pc = "seq1" /\ snapSeq = 0 /\ snapHead = GENESIS /\ peeked = NoBatch
  /\ ckpt = NoCheckpoint
  /\ link = "up" /\ wire = << >>
  /\ chain = [public_key |-> DeviceKey, next_seq |-> 1, head |-> GENESIS]
  /\ verified = << >> /\ alerts = {}
  /\ minted = {GENESIS}
  /\ happened = {} /\ nfaults = 0

-----------------------------------------------------------------------------
(* The spool. *)

\* AuditSpool::emit, one critical section.
Emit(event) ==
  /\ seq < MaxSeq
  /\ seq' = seq + 1
  /\ head' = EntryHash(seq + 1, head, event)
  /\ pending' = Append(pending, [seq |-> seq + 1, prev |-> head,
                                 event |-> event, hash |-> head'])
  /\ minted' = minted \cup {head'}
  /\ UNCHANGED <<syncVars, ckpt, link, wire, ledgerVars, faultVars>>

-----------------------------------------------------------------------------
(* GatewaySync::sync_once.  Daemon::checkpoint reads the sequence number,  *)
(* the head and the pending entries under three separate locks.            *)

ReadSeq ==
  /\ pc \in {"seq1", "seq2"}
  /\ snapSeq' = seq
  /\ pc' = IF pc = "seq1" THEN "head1" ELSE "head2"
  /\ UNCHANGED <<spoolVars, snapHead, peeked, ckpt, link, wire, ledgerVars, minted, faultVars>>

ReadHead ==
  /\ pc \in {"head1", "head2"}
  /\ snapHead' = head
  /\ pc' = IF pc = "head1" THEN "save1" ELSE "save2"
  /\ UNCHANGED <<spoolVars, snapSeq, peeked, ckpt, link, wire, ledgerVars, minted, faultVars>>

\* Locals of sync_once are reset where they go out of scope.
ForgetSnapshot == snapSeq' = 0 /\ snapHead' = GENESIS

AfterSave == IF pc = "save1" THEN "peek" ELSE "seq1"

\* peek() of the pending entries, then write to a temporary file and rename.
SaveCheckpoint ==
  /\ pc \in {"save1", "save2"}
  /\ ckpt' = [saved |-> TRUE, seq |-> snapSeq, head |-> snapHead, pending |-> pending]
  /\ pc' = AfterSave /\ ForgetSnapshot
  /\ UNCHANGED <<spoolVars, peeked, link, wire, ledgerVars, minted, faultVars>>

PeekAudit ==
  /\ pc = "peek"
  /\ peeked' = IF pending = << >> THEN NoBatch ELSE [entries |-> pending, head |-> head]
  /\ pc' = IF pending = << >> THEN "seq1" ELSE "push"
  /\ UNCHANGED <<spoolVars, snapSeq, snapHead, ckpt, link, wire, ledgerVars, minted, faultVars>>

\* push_audit returns Ok once the batch is queued: for the pump (transport.rs),
\* or in the memory of the loopback that stands in for the gateway (link.rs).
PushAudit ==
  /\ pc = "push" /\ link \in {"up", "sink"}
  /\ wire' = IF link = "sink" THEN wire
             ELSE Append(wire, SignBatch(DeviceKey, peeked.entries, peeked.head))
  /\ pc' = "confirm"
  /\ UNCHANGED <<spoolVars, snapSeq, snapHead, peeked, ckpt, link, ledgerVars, minted, faultVars>>

\* Mutant: a push that fails is taken for one that succeeded.
PushErrorIgnored ==
  /\ pc = "push" /\ link \in {"down", "dead"}
  /\ pc' = "confirm"
  /\ UNCHANGED <<spoolVars, snapSeq, snapHead, peeked, ckpt, link, wire, ledgerVars, minted, faultVars>>

\* push_audit returns Err(Unavailable): the tail is retained for the next cycle.
PushUnavailable ==
  /\ pc = "push" /\ link \in {"down", "dead"}
  /\ pc' = "seq1" /\ peeked' = NoBatch
  /\ UNCHANGED <<spoolVars, snapSeq, snapHead, ckpt, link, wire, ledgerVars, minted, faultVars>>

\* Mutant: the spool is drained, not trimmed to what was shipped.
ConfirmDrains ==
  /\ pc = "confirm"
  /\ pending' = << >>
  /\ peeked' = NoBatch
  /\ pc' = "seq2"
  /\ UNCHANGED <<seq, head, snapSeq, snapHead, ckpt, link, wire, ledgerVars, minted, faultVars>>

ConfirmAudit ==
  /\ pc = "confirm"
  /\ pending' = Retain(pending, peeked.entries[Len(peeked.entries)].seq)
  /\ peeked' = NoBatch
  /\ pc' = "seq2"
  /\ UNCHANGED <<seq, head, snapSeq, snapHead, ckpt, link, wire, ledgerVars, minted, faultVars>>

-----------------------------------------------------------------------------
(* The gateway: serve_device_audit hands each batch to AuditLedger::ingest. *)

\* Mutant: a rejected batch leaves no alert.
IngestSilently ==
  /\ wire # << >>
  /\ LET batch == Head(wire)
         result == VerifyBatch(chain.head, chain.next_seq, batch, chain.public_key)
         events == EntryEvents(batch.entries)
     IN  IF result = "Ok"
         THEN /\ chain' = [chain EXCEPT !.next_seq = @ + Len(events), !.head = batch.head]
              /\ verified' = verified \o events
         ELSE UNCHANGED <<chain, verified>>
  /\ wire' = Tail(wire)
  /\ UNCHANGED <<spoolVars, syncVars, ckpt, link, alerts, minted, faultVars>>

\* Mutant: the events of a batch are recorded before it is verified.
IngestRecordsFirst ==
  /\ wire # << >>
  /\ LET batch == Head(wire)
         result == VerifyBatch(chain.head, chain.next_seq, batch, chain.public_key)
         events == EntryEvents(batch.entries)
     IN  /\ verified' = verified \o events
         /\ IF result = "Ok"
            THEN /\ chain' = [chain EXCEPT !.next_seq = @ + Len(events), !.head = batch.head]
                 /\ UNCHANGED alerts
            ELSE alerts' = alerts \cup {AlertKind(result)} /\ UNCHANGED chain
  /\ wire' = Tail(wire)
  /\ UNCHANGED <<spoolVars, syncVars, ckpt, link, minted, faultVars>>

\* AuditLedger::ingest.
Ingest ==
  /\ wire # << >>
  /\ LET batch == Head(wire)
         result == VerifyBatch(chain.head, chain.next_seq, batch, chain.public_key)
         events == EntryEvents(batch.entries)
     IN  IF result = "Ok"
         THEN /\ chain' = [chain EXCEPT !.next_seq = @ + Len(events), !.head = batch.head]
              /\ verified' = verified \o events
              /\ UNCHANGED alerts
         ELSE /\ alerts' = alerts \cup {AlertKind(result)}
              /\ UNCHANGED <<chain, verified>>
  /\ wire' = Tail(wire)
  /\ UNCHANGED <<spoolVars, syncVars, ckpt, link, minted, faultVars>>

-----------------------------------------------------------------------------
(* Faults. *)

Fault(kind) ==
  /\ kind \in Faults /\ nfaults < MaxFaults
  /\ happened' = happened \cup {kind} /\ nfaults' = nfaults + 1

GoOffline ==
  /\ Fault("offline") /\ link = "up" /\ link' = "down"
  /\ UNCHANGED <<spoolVars, syncVars, ckpt, wire, ledgerVars, minted>>

GoOnline ==
  /\ link = "down" /\ link' = "up"
  /\ UNCHANGED <<spoolVars, syncVars, ckpt, wire, ledgerVars, minted, faultVars>>

\* pump() returns (an I/O error, a peer that closed, a frame that does not
\* decode or exceeds MAX_FRAME) and drops its receiver: some suffix of what the
\* channel had accepted is lost, and later sends fail for the process lifetime.
PumpDies ==
  /\ Fault("pump") /\ link = "up" /\ link' = "dead"
  /\ \E k \in 0..Len(wire) : wire' = SubSeq(wire, 1, k)
  /\ UNCHANGED <<spoolVars, syncVars, ckpt, ledgerVars, minted>>

SaveFails ==
  /\ Fault("disk") /\ pc \in {"save1", "save2"}
  /\ pc' = AfterSave /\ ForgetSnapshot
  /\ UNCHANGED <<spoolVars, peeked, ckpt, link, wire, ledgerVars, minted>>

\* The process dies at any step and boots again.  select_gateway_link connects
\* to the gateway, or falls back on a loopback when it cannot.
CrashAndBoot(kind) ==
  /\ kind \in {"crash", "unreachable"} /\ Fault(kind)
  /\ LET resumed == BootMode = "resume" /\ ckpt.saved IN
       /\ seq' = IF resumed THEN ckpt.seq ELSE 0
       /\ head' = IF resumed THEN ckpt.head ELSE GENESIS
       /\ pending' = IF resumed THEN ckpt.pending ELSE << >>
  /\ minted' = minted \cup {head'}
  /\ pc' = "seq1" /\ ForgetSnapshot /\ peeked' = NoBatch
  /\ link' = IF kind = "unreachable" THEN "sink" ELSE "up"
  /\ \E k \in 0..Len(wire) : wire' = SubSeq(wire, 1, k)
  /\ UNCHANGED <<ckpt, ledgerVars>>

Without(s, i) == SubSeq(s, 1, i - 1) \o SubSeq(s, i + 1, Len(s))

\* A batch is suppressed on its way.
DropBatch(i) ==
  /\ Fault("drop") /\ i \in 1..Len(wire)
  /\ wire' = Without(wire, i)
  /\ UNCHANGED <<spoolVars, syncVars, ckpt, link, ledgerVars, minted>>

\* A batch is delivered again.
DuplicateBatch(i) ==
  /\ Fault("duplicate") /\ i \in 1..Len(wire)
  /\ wire' = Append(wire, wire[i])
  /\ UNCHANGED <<spoolVars, syncVars, ckpt, link, ledgerVars, minted>>

\* The event of one entry is rewritten, the rest left as it was.
RewriteEvent(i, j, event) ==
  /\ Fault("corrupt") /\ i \in 1..Len(wire) /\ j \in 1..Len(wire[i].entries)
  /\ event # wire[i].entries[j].event
  /\ wire' = [wire EXCEPT ![i].entries[j].event = event]
  /\ UNCHANGED <<spoolVars, syncVars, ckpt, link, ledgerVars, minted>>

\* The signature bytes are replaced by bytes that do not decode.
GarbleSignature(i) ==
  /\ Fault("garble") /\ i \in 1..Len(wire)
  /\ wire' = [wire EXCEPT ![i].signature.by = NoKey]
  /\ UNCHANGED <<spoolVars, syncVars, ckpt, link, ledgerVars, minted>>

\* Someone without the device key sends a batch that continues the ledger's chain.
ForgeBatch(key, event) ==
  /\ Fault("forge") /\ key # DeviceKey
  /\ LET forged == EntryHash(chain.next_seq, chain.head, event)
         entry == [seq |-> chain.next_seq, prev |-> chain.head,
                   event |-> event, hash |-> forged]
     IN  wire' = <<SignBatch(key, <<entry>>, forged)>> \o wire
  /\ UNCHANGED <<spoolVars, syncVars, ckpt, link, ledgerVars, minted>>

Tampering ==
  \/ \E i \in 1..Len(wire) : DropBatch(i) \/ DuplicateBatch(i) \/ GarbleSignature(i)
  \/ \E i \in 1..Len(wire) : \E j \in 1..Len(wire[i].entries), event \in Event :
       RewriteEvent(i, j, event)
  \/ \E key \in Key, event \in Event : ForgeBatch(key, event)

-----------------------------------------------------------------------------
SyncStep ==
  \/ ReadSeq \/ ReadHead \/ SaveCheckpoint
  \/ PeekAudit \/ PushAudit \/ PushUnavailable \/ ConfirmAudit

Next ==
  \/ \E event \in Event : Emit(event)
  \/ SyncStep
  \/ Ingest
  \/ GoOffline \/ GoOnline \/ PumpDies \/ SaveFails
  \/ \E kind \in {"crash", "unreachable"} : CrashAndBoot(kind)
  \/ Tampering

Spec == Init /\ [][Next]_vars

\* spawn_gateway_sync loops for the life of the process, serve_device_audit
\* takes every batch that arrives, and an outage of the link ends.
Fairness == WF_vars(SyncStep) /\ WF_vars(Ingest) /\ WF_vars(GoOnline)

LiveSpec == Spec /\ Fairness

-----------------------------------------------------------------------------
(* Properties. *)

\* Event n of the device's chain is in the ledger, on its way, or in the spool.
InLedger(n) == n <= Len(verified) /\ verified[n] = head[n].event
OnWire(n) == \E i \in 1..Len(wire) : \E j \in 1..Len(wire[i].entries) :
               wire[i].entries[j].seq = n /\ wire[i].entries[j].event = head[n].event
InSpool(n) == \E j \in 1..Len(pending) :
                pending[j].seq = n /\ pending[j].event = head[n].event
Lost(n) == ~InLedger(n) /\ ~OnWire(n) /\ ~InSpool(n)

\* Trimming the spool never loses an event: whatever steps of other threads come
\* between peek, push and confirm_through in sync_once, and however often the link
\* refuses a push or a checkpoint cannot be saved, every event emitted is in the
\* ledger, on the link, or retained.  (A path that suppresses a batch loses it.)
NothingLost == happened \subseteq {"offline", "disk"} => \A n \in 1..Len(head) : ~Lost(n)

\* What AuditLedger::ingest admits is genuine: whatever is dropped, repeated,
\* rewritten or forged on the way, and however often the device restarts, the
\* ledger's position is a head the device's own spool has had, its next_seq counts
\* that chain without a hole, and the admitted events are the ones hashed into it.
LedgerGenuine ==
  /\ chain.head \in minted
  /\ chain.next_seq = Len(chain.head) + 1
  /\ WellNumbered(chain.head)
  /\ verified = EventsOf(chain.head)

\* An alert of record_alert means what it says: "tampered" only after an event was
\* rewritten, "bad_signature" only after a forgery, "rejected" only after undecodable
\* bytes or a restart, and no alert at all from outages and failed saves alone.
AlertsExplained ==
  /\ TypeOK
  /\ "tampered" \in alerts => "corrupt" \in happened
  /\ "bad_signature" \in alerts => "forge" \in happened
  /\ "rejected" \in alerts => happened \cap {"garble", "crash", "unreachable"} # {}
  /\ alerts # {} => ~(happened \subseteq {"offline", "disk"})

\* Every event the device emits reaches the ledger once the link stays up, unless a
\* batch was suppressed on the way: no interleaving of emit with sync_once parks an
\* entry in the spool for ever.
EventuallyDelivered ==
  \A n \in 1..MaxSeq : (seq >= n) ~> (Len(verified) >= n \/ "drop" \in happened)

\* A suppressed batch does not go unnoticed: once an event is lost on the way and
\* the device has a later one to ship, the gateway comes to raise an alert.
SuppressionDetected ==
  ((\E n \in 1..Len(head) : Lost(n)) /\ pending # << >>) ~> (alerts # {})

-----------------------------------------------------------------------------
(* What the pieces promise together: AuditDelivery. *)
Delivery == INSTANCE AuditDelivery WITH log <- EventsOf(head), delivered <- verified

\* Spool, sync_once and ledger together implement AuditDelivery: the device's log
\* grows at its end and the ledger holds a prefix of it that only grows, also when
\* the path suppresses a batch.
Refinement == Delivery!Spec
=============================================================================
