--------------------------- MODULE MCGatewayStores ---------------------------
EXTENDS GatewayStores, TLC

CONSTANTS acme, other, alice, bob, k1, k2, r1, r2, e1, e2

MCWorkspace == {acme, other}
MCEmail == {alice, bob}
MCKey == {k1, k2}
MCRequest == {r1, r2}
MCEvent == {e1, e2}
MCMemberships == {<<"Owner", "Active">>, <<"Admin", "Suspended">>, <<"Member", "Invited">>}
Symmetry == {p @@ q : p \in Permutations(MCRequest), q \in Permutations(MCEvent)}
=============================================================================
