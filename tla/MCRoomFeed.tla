----------------------------- MODULE MCRoomFeed -----------------------------
(* RoomFeed with a ring of two frames, which a publisher can lap twice.       *)
EXTENDS RoomFeed, TLC

=============================================================================
