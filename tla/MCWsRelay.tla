----------------------------- MODULE MCWsRelay -----------------------------
(* WsRelay with small constants: model values for sockets, rooms and tokens,  *)
(* and two units of data as the largest frame.                                *)
EXTENDS WsRelay, TLC

MCTtls == {1}

=============================================================================
