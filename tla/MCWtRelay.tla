----------------------------- MODULE MCWtRelay -----------------------------
(* WtRelay on model values; three sessions from two addresses compete for     *)
(* two slots each, two sessions and one room.                                 *)
EXTENDS WtRelay, TLC

=============================================================================
