-------------------------- MODULE MCGatewayControl --------------------------
EXTENDS GatewayControl, TLC

CONSTANTS sync, s1, s2

MCBody == ControlBody
SignerSymmetry == Permutations(Signer)
=============================================================================
