------------------------------ MODULE RoomFeed ------------------------------
(***************************************************************************)
(* The frames of one room of relay-rs (relay-rs/src/main.rs): publishers   *)
(* send into a tokio broadcast channel, a ring of the last Capacity frames *)
(* of all of them; each subscriber's task takes a frame, drains what is    *)
(* queued behind it, and sends one datagram.                               *)
(*                                                                         *)
(* Tasks run in parallel: a publisher can send between any two calls a     *)
(* subscriber's drain makes on its receiver.                               *)
(***************************************************************************)
EXTENDS Integers, Sequences

CONSTANTS
  Publishers,    \* participants; a frame is known by who published it
  Subscribers,
  Capacity,      \* ROOM_CAPACITY
  MaxFrames      \* bound of the model: publishing stops here

ASSUME FeedAssumption == Capacity \in Nat \ {0} /\ MaxFrames \in Nat

VARIABLES
  feed,       \* who published each frame sent into the channel so far
  pc,         \* "off", "waiting" in recv, or "draining"
  next,       \* the receiver's cursor: frames before and at it are behind it
  hold,       \* drain_newest's `newest`
  out,        \* the last frame sent to the peer, or where its subscription began
  start,      \* history: where its subscription began
  framesOut,  \* the subscriber's part of frames_out_total
  dropped,    \* its part of frames_dropped_newest_only_total
  lost        \* history: frames that a drain skipped without counting them

vars == <<feed, pc, next, hold, out, start, framesOut, dropped, lost>>

NoFrame == 0
Off == -1

TypeOK ==
  /\ feed \in Seq(Publishers)
  /\ pc \in [Subscribers -> {"off", "waiting", "draining"}]
  /\ next \in [Subscribers -> Nat] /\ hold \in [Subscribers -> Nat]
  /\ out \in [Subscribers -> Nat] /\ start \in [Subscribers -> Nat]
  /\ framesOut \in [Subscribers -> Nat] /\ dropped \in [Subscribers -> Nat]
  /\ lost \in [Subscribers -> Nat]

Zeros == [u \in Subscribers |-> 0]

Init ==
  /\ feed = <<>>
  /\ pc = [u \in Subscribers |-> "off"]
  /\ next = Zeros /\ hold = Zeros /\ out = Zeros /\ start = Zeros
  /\ framesOut = Zeros /\ dropped = Zeros /\ lost = Zeros

Goto(u, label) == pc' = [pc EXCEPT ![u] = label]

-----------------------------------------------------------------------------
(* The channel *)

\* tx.send, after the size cap and the publisher's rate limit let it through.
Publish(p) ==
  /\ Len(feed) < MaxFrames
  /\ feed' = Append(feed, p)
  /\ UNCHANGED <<pc, next, hold, out, start, framesOut, dropped, lost>>

\* The ring has overwritten frames the receiver had not taken.
Lagged(u) == next[u] < Len(feed) - Capacity

\* A lagged receiver is moved to the oldest frame that is left.
ToOldest(u) == next' = [next EXCEPT ![u] = Len(feed) - Capacity]

Skipped(u) == Len(feed) - Capacity - next[u]

ToNext(u) == next' = [next EXCEPT ![u] = @ + 1]

-----------------------------------------------------------------------------
(* The subscriber's task *)

\* tx.subscribe(): the receiver starts behind the newest frame.
Subscribe(u) ==
  /\ pc[u] = "off"
  /\ Goto(u, "waiting")
  /\ next' = [next EXCEPT ![u] = Len(feed)]
  /\ out' = [out EXCEPT ![u] = Len(feed)]
  /\ start' = [start EXCEPT ![u] = Len(feed)]
  /\ framesOut' = [framesOut EXCEPT ![u] = 0]
  /\ dropped' = [dropped EXCEPT ![u] = 0]
  /\ lost' = [lost EXCEPT ![u] = 0]
  /\ UNCHANGED <<feed, hold>>

\* rx.recv() reports a lag: the skipped frames are counted, and it goes on.
RecvLagged(u) ==
  /\ pc[u] = "waiting" /\ Lagged(u)
  /\ ToOldest(u)
  /\ dropped' = [dropped EXCEPT ![u] = @ + Skipped(u)]
  /\ UNCHANGED <<feed, pc, hold, out, start, framesOut, lost>>

\* rx.recv() returns a frame, with which drain_newest begins.
Recv(u) ==
  /\ pc[u] = "waiting" /\ next[u] < Len(feed) /\ ~Lagged(u)
  /\ ToNext(u)
  /\ hold' = [hold EXCEPT ![u] = next[u] + 1]
  /\ Goto(u, "draining")
  /\ UNCHANGED <<feed, out, start, framesOut, dropped, lost>>

\* Mutation of TryRecv: the replaced frame is not counted.
TryRecvUncounted(u) ==
  /\ pc[u] = "draining" /\ next[u] < Len(feed) /\ ~Lagged(u)
  /\ ToNext(u)
  /\ hold' = [hold EXCEPT ![u] = next[u] + 1]
  /\ UNCHANGED <<feed, pc, out, start, framesOut, dropped, lost>>

\* Mutation of TryRecv: the first frame is kept, not the newest.
TryRecvKeepingFirst(u) ==
  /\ pc[u] = "draining" /\ next[u] < Len(feed) /\ ~Lagged(u)
  /\ ToNext(u)
  /\ dropped' = [dropped EXCEPT ![u] = @ + 1]
  /\ UNCHANGED <<feed, pc, hold, out, start, framesOut, lost>>

\* rx.try_recv() returns another frame: it replaces the one at hand, whoever
\* published the two.
TryRecv(u) ==
  /\ pc[u] = "draining" /\ next[u] < Len(feed) /\ ~Lagged(u)
  /\ ToNext(u)
  /\ hold' = [hold EXCEPT ![u] = next[u] + 1]
  /\ dropped' = [dropped EXCEPT ![u] = @ + 1]
  /\ UNCHANGED <<feed, pc, out, start, framesOut, lost>>

\* send_datagram(newest) succeeds.
SendDatagram(u) ==
  /\ out' = [out EXCEPT ![u] = hold[u]]
  /\ framesOut' = [framesOut EXCEPT ![u] = @ + 1]
  /\ hold' = [hold EXCEPT ![u] = NoFrame]
  /\ Goto(u, "waiting")
  /\ UNCHANGED <<feed, start, dropped>>

\* rx.try_recv() finds nothing more: what is at hand goes out.
DrainEmpty(u) ==
  /\ pc[u] = "draining" /\ next[u] = Len(feed)
  /\ SendDatagram(u)
  /\ UNCHANGED <<next, lost>>

\* rx.try_recv() reports a lag.  That ends the loop like an empty queue: what is
\* at hand goes out although newer frames are queued, and nothing is counted.
DrainLagged(u) ==
  /\ pc[u] = "draining" /\ Lagged(u)
  /\ SendDatagram(u)
  /\ ToOldest(u)
  /\ lost' = [lost EXCEPT ![u] = @ + Skipped(u)]

\* The peer is gone: receive_datagram or send_datagram fails.
Leave(u) ==
  /\ pc[u] # "off"
  /\ Goto(u, "off")
  /\ hold' = [hold EXCEPT ![u] = NoFrame]
  /\ UNCHANGED <<feed, next, out, start, framesOut, dropped, lost>>

-----------------------------------------------------------------------------

Forward(u) ==
  RecvLagged(u) \/ Recv(u) \/ TryRecv(u) \/ DrainEmpty(u) \/ DrainLagged(u)

Next ==
  \/ \E p \in Publishers : Publish(p)
  \/ \E u \in Subscribers : Subscribe(u) \/ Forward(u) \/ Leave(u)

\* A subscriber's task is polled as long as it can go on.
Fairness == \A u \in Subscribers : WF_vars(Forward(u))

Spec == Init /\ [][Next]_vars /\ Fairness

-----------------------------------------------------------------------------

\* The subscriber's view: the newest frame it was sent.
LastSent == [u \in Subscribers |-> IF pc[u] = "off" THEN Off ELSE out[u]]

Feed == INSTANCE NewestFeed WITH sent <- Len(feed), last <- LastSent

\* The ring, its lags and the drain implement the newest-only feed: no frame is
\* sent twice or after a newer one, and a subscriber that stays is brought up to
\* the newest frame, however often the ring laps it.
FeedImplemented == Feed!Spec

\* Every frame between the start of a subscription and its cursor was sent on,
\* is at hand, was counted as dropped, or was skipped by a lag inside a drain:
\* those last are the only ones frames_dropped_newest_only_total misses.
FramesAccounted ==
  \A u \in Subscribers : pc[u] # "off" =>
    next[u] = start[u] + framesOut[u] + dropped[u] + lost[u]
                + (IF pc[u] = "draining" THEN 1 ELSE 0)

Sends(u) == pc[u] = "draining" /\ pc'[u] = "waiting"

\* docs/transport/webtransport-realtime.md 52: "relay-rs drains each
\* subscriber's room queue before sending, so a slow subscriber receives the
\* newest queued frame instead of replaying stale poses."
NewestQueuedIsSent == [][\A u \in Subscribers : Sends(u) => hold[u] = Len(feed)]_vars

\* docs/product/multi-avatar-rooms.md 22: "The relay keeps newest-only motion
\* delivery per participant": a frame gives way only to a newer one of the same
\* participant.
NewestOnlyPerParticipant ==
  [][\A u \in Subscribers :
       pc[u] = "draining" /\ hold'[u] > hold[u]
         => \E i \in hold[u] + 1 .. Len(feed) : feed[i] = feed[hold[u]]]_vars
=============================================================================
