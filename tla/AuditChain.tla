---------------------------- MODULE AuditChain ----------------------------
(***************************************************************************)
(* The hash chain and the signed batches of crates/clave-proto/src/audit.rs.*)
(*                                                                         *)
(* A ChainHash is represented by its preimage: the hash of an entry is the *)
(* sequence of all the links hashed into it, so that two hashes are equal  *)
(* exactly when everything hashed into them is equal (SHA-256 taken to be  *)
(* collision free).  A signature is the pair of the signing key and the    *)
(* head it covers (Ed25519 taken to be unforgeable); bytes that do not     *)
(* decode as a signature are a signature by NoKey.                         *)
(***************************************************************************)
EXTENDS Naturals, Sequences

CONSTANTS Event,      \* what an AuditEvent can be
          Key,        \* the Ed25519 keys that may sign or be registered
          NoKey       \* stands for the signer of undecodable bytes

ASSUME NoKeyAssumption == NoKey \notin Key

GENESIS == << >>

Link == [seq : Nat, event : Event]
ChainHash == Seq(Link)

EntryHash(seq, prev, event) == Append(prev, [seq |-> seq, event |-> event])

SpoolEntry == [seq : Nat, prev : ChainHash, event : Event, hash : ChainHash]

Signature == [by : Key \cup {NoKey}, over : ChainHash]

SignedSpoolBatch == [entries : Seq(SpoolEntry), head : ChainHash, signature : Signature]

\* DeviceSigningKey::sign_batch: the signature covers the head alone.
SignBatch(key, entries, head) ==
  [entries |-> entries, head |-> head, signature |-> [by |-> key, over |-> head]]

(***************************************************************************)
(* verify_batch.  The loop stops at the first entry that fails, and at     *)
(* that entry reports the first of three checks to fail.                   *)
(***************************************************************************)

\* `running' before entry i is examined.
Running(prev, entries, i) == IF i = 1 THEN prev ELSE entries[i - 1].hash

\* Mutant: the link to the previous entry is examined before the number.
EntryErrorChainFirst(prev, next_seq, entries, i) ==
  LET e == entries[i] IN
    IF e.prev # Running(prev, entries, i) THEN "BrokenChain"
    ELSE IF e.seq # next_seq + i - 1 THEN "Gap"
    ELSE IF EntryHash(e.seq, e.prev, e.event) # e.hash THEN "Tampered"
    ELSE "Ok"

EntryError(prev, next_seq, entries, i) ==
  LET e == entries[i] IN
    IF e.seq # next_seq + i - 1 THEN "Gap"
    ELSE IF e.prev # Running(prev, entries, i) THEN "BrokenChain"
    ELSE IF EntryHash(e.seq, e.prev, e.event) # e.hash THEN "Tampered"
    ELSE "Ok"

BadEntries(prev, next_seq, entries) ==
  {i \in 1..Len(entries) : EntryError(prev, next_seq, entries, i) # "Ok"}

First(S) == CHOOSE i \in S : \A j \in S : i <= j

\* Mutant: the signature is not verified.
SignatureUnchecked(batch, key) == "Ok"

SignatureError(batch, key) ==
  IF batch.signature.by = NoKey THEN "Malformed"
  ELSE IF batch.signature # [by |-> key, over |-> batch.head] THEN "BadSignature"
  ELSE "Ok"

VerifyBatch(prev, next_seq, batch, key) ==
  LET bad == BadEntries(prev, next_seq, batch.entries) IN
    IF bad # {} THEN EntryError(prev, next_seq, batch.entries, First(bad))
    ELSE IF Running(prev, batch.entries, Len(batch.entries) + 1) # batch.head
         THEN "BrokenChain"
    ELSE SignatureError(batch, key)

\* AuditLedger::record_alert: the kind under which an error is reported.
AlertKind(error) ==
  CASE error = "Gap"          -> "gap"
    [] error = "Tampered"     -> "tampered"
    [] error = "BadSignature" -> "bad_signature"
    [] OTHER                  -> "rejected"

\* AuditSpool::confirm_through: Vec::retain of the entries numbered above n.
Retain(entries, n) ==
  LET kept[i \in 0..Len(entries)] ==
        IF i = 0 THEN << >>
        ELSE IF entries[i].seq > n THEN Append(kept[i - 1], entries[i])
        ELSE kept[i - 1]
  IN  kept[Len(entries)]

(***************************************************************************)
(* Reading a chain back.  Because a hash is its own preimage, the entries  *)
(* that a head commits to after its first k links can be recomputed.       *)
(***************************************************************************)
EventsOf(head) == [i \in 1..Len(head) |-> head[i].event]

EntriesAfter(head, k) ==
  [i \in 1..(Len(head) - k) |->
     [seq |-> k + i, prev |-> SubSeq(head, 1, k + i - 1),
      event |-> head[k + i].event, hash |-> SubSeq(head, 1, k + i)]]

\* The events of a batch, in order.
EntryEvents(entries) == [i \in 1..Len(entries) |-> entries[i].event]

\* Links numbered 1, 2, 3, ... without a hole.
WellNumbered(head) == \A i \in 1..Len(head) : head[i].seq = i
=============================================================================
