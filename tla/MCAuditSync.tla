---------------------------- MODULE MCAuditSync ----------------------------
(* AuditSync on small instances. *)
EXTENDS AuditSync, TLC

CONSTANTS e1, e2, deviceKey, otherKey

MCEvent == {e1, e2}
MCKey == {deviceKey, otherKey}

\* Events are only compared: interchanging them changes no invariant.
EventSymmetry == Permutations(MCEvent)
=============================================================================
