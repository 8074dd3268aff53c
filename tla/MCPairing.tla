----------------------------- MODULE MCPairing -----------------------------
(* PairingPanel with small constants: tokens, rooms and clients are model     *)
(* values, a tick of the clock stands for the shortest lifetime.              *)
EXTENDS PairingPanel, TLC

MCTtls == {0, 5}    \* below and above the clamp

=============================================================================
