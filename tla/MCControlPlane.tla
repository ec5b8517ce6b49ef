--------------------------- MODULE MCControlPlane ---------------------------
(* ControlPlane with an administrator and three strangers: one who may     *)
(* come in, one in an allowed domain whom the identity provider cannot     *)
(* verify by SSO, and one whose address is outside the domains.            *)
EXTENDS ControlPlane, TLC

CONSTANTS admin, stranger, local, outsider

MCFounderRole == [u \in User |-> IF u = admin THEN Admin ELSE Member]

RequestSymmetry == Permutations(Request)
\* Bound: where the last two have an invitation or a request under way, a state with
\* MaxRequests begun is checked and not followed.
Followed ==
  (\E u \in {local, outsider} : \/ invitation[u].state # "none"
                                \/ \E r \in Request : ~Idle(r) /\ req[r].on = u)
    => begun < MaxRequests
=============================================================================
