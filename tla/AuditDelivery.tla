--------------------------- MODULE AuditDelivery ---------------------------
(***************************************************************************)
(* What the audit path promises: the device keeps a log that only grows at *)
(* its end, and the gateway holds a prefix of it, which only grows.        *)
(***************************************************************************)
EXTENDS Naturals, Sequences

CONSTANT Event

VARIABLES log, delivered

vars == <<log, delivered>>

Init == log = << >> /\ delivered = << >>

Record(event) ==
  /\ log' = Append(log, event)
  /\ UNCHANGED delivered

Deliver ==
  /\ \E n \in (Len(delivered) + 1)..Len(log) : delivered' = SubSeq(log, 1, n)
  /\ UNCHANGED log

Next == (\E event \in Event : Record(event)) \/ Deliver

Spec == Init /\ [][Next]_vars
=============================================================================
