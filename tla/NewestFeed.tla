----------------------------- MODULE NewestFeed -----------------------------
(***************************************************************************)
(* What a subscriber of a room may rely on, whichever relay serves it      *)
(* (docs/transport/webtransport-realtime.md 44-53): it is sent some of the *)
(* frames published since it came, each at most once and never an older    *)
(* one after a newer one, and it is never left behind for good.  Frames    *)
(* may be skipped at will.                                                 *)
(***************************************************************************)
EXTENDS Integers

CONSTANTS
  Subscribers,
  MaxFrames      \* bound of the model: publishing stops here

Off == -1

VARIABLES
  sent,   \* how many frames have been published; a frame is its number
  last    \* last[u]: the newest frame u was sent or, before the first, the
          \* newest it has missed; Off when u is not subscribed

vars == <<sent, last>>

Init ==
  /\ sent = 0
  /\ last = [u \in Subscribers |-> Off]

Publish ==
  /\ sent < MaxFrames
  /\ sent' = sent + 1
  /\ UNCHANGED last

Join(u) ==
  /\ last[u] = Off
  /\ last' = [last EXCEPT ![u] = sent]
  /\ UNCHANGED sent

Deliver(u) ==
  /\ last[u] # Off
  /\ \E n \in last[u] + 1 .. sent : last' = [last EXCEPT ![u] = n]
  /\ UNCHANGED sent

Leave(u) ==
  /\ last[u] # Off
  /\ last' = [last EXCEPT ![u] = Off]
  /\ UNCHANGED sent

Next == Publish \/ \E u \in Subscribers : Join(u) \/ Deliver(u) \/ Leave(u)

Safety == Init /\ [][Next]_vars

Spec == Safety /\ \A u \in Subscribers : WF_vars(Deliver(u))
=============================================================================
