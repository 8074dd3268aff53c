--------------------------- MODULE RoomFeedProofs ---------------------------
(***************************************************************************)
(* RoomFeed for any set of participants and subscribers and any capacity:  *)
(* its safety part implements NewestFeed, and its counters account for     *)
(* every frame.                                                            *)
(*                                                                         *)
(* Both follow from where the cursors stand.  A frame that is sent has to  *)
(* be newer than the last one sent, which holds because the frame at hand  *)
(* is the one the cursor is at and the cursor never moves back, not even   *)
(* when a lag moves it.                                                    *)
(***************************************************************************)
EXTENDS RoomFeed, TLAPS

\* A subscription's cursor is between what was sent to the peer and the newest
\* frame; while draining it stands at the frame at hand, which the peer has not
\* seen.
Ordered(u) ==
  pc[u] # "off" =>
    /\ start[u] <= out[u] /\ out[u] <= next[u] /\ next[u] <= Len(feed)
    /\ pc[u] = "draining" => out[u] < hold[u] /\ hold[u] = next[u]

CursorsOrdered == \A u \in Subscribers : Ordered(u)

\* The books of one subscription.
Accounted(u) ==
  pc[u] # "off" =>
    next[u] = start[u] + framesOut[u] + dropped[u] + lost[u]
                + (IF pc[u] = "draining" THEN 1 ELSE 0)

IInv == TypeOK /\ CursorsOrdered /\ FramesAccounted

-----------------------------------------------------------------------------

LEMMA InitInv == Init => IInv
  BY FeedAssumption
  DEF Init, Zeros, IInv, TypeOK, CursorsOrdered, Ordered, FramesAccounted

Own(u) == Subscribe(u) \/ Forward(u) \/ Leave(u)

\* A subscriber's step leaves the feed and the other subscribers alone.
LEMMA OwnStep ==
  ASSUME TypeOK, NEW u \in Subscribers, Own(u), NEW v \in Subscribers \ {u}
  PROVE  /\ feed' = feed /\ pc'[v] = pc[v] /\ next'[v] = next[v]
         /\ hold'[v] = hold[v] /\ out'[v] = out[v] /\ start'[v] = start[v]
         /\ framesOut'[v] = framesOut[v] /\ dropped'[v] = dropped[v]
         /\ lost'[v] = lost[v]
<1> USE DEF TypeOK, Goto, ToNext, ToOldest
<1>1. CASE Subscribe(u)
  BY <1>1 DEF Subscribe
<1>2. CASE RecvLagged(u)
  BY <1>2 DEF RecvLagged
<1>3. CASE Recv(u) \/ TryRecv(u)
  BY <1>3 DEF Recv, TryRecv
<1>4. CASE DrainEmpty(u) \/ DrainLagged(u)
  BY <1>4 DEF DrainEmpty, DrainLagged, SendDatagram
<1>5. CASE Leave(u)
  BY <1>5 DEF Leave
<1> QED
  BY <1>1, <1>2, <1>3, <1>4, <1>5 DEF Own, Forward

\* A lag moves a cursor forward, so what is skipped is a number.
LEMMA TypeStep == IInv /\ [Next]_vars => TypeOK'
<1> SUFFICES ASSUME IInv, [Next]_vars PROVE TypeOK'
  OBVIOUS
<1> USE FeedAssumption DEF IInv, TypeOK, Goto, ToNext, ToOldest, Lagged, Skipped, NoFrame
<1>1. ASSUME NEW p \in Publishers, Publish(p) PROVE TypeOK'
  BY <1>1 DEF Publish
<1>2. ASSUME NEW u \in Subscribers, Subscribe(u) PROVE TypeOK'
  BY <1>2 DEF Subscribe
<1>3. ASSUME NEW u \in Subscribers, RecvLagged(u) PROVE TypeOK'
  <2>1. Len(feed) \in Nat /\ Len(feed) - Capacity \in Nat /\ Skipped(u) \in Nat
    BY <1>3 DEF RecvLagged
  <2>2. next' \in [Subscribers -> Nat]
    BY <1>3, <2>1 DEF RecvLagged
  <2>3. dropped' \in [Subscribers -> Nat]
    BY <1>3, <2>1 DEF RecvLagged
  <2> QED
    BY <1>3, <2>2, <2>3 DEF RecvLagged
<1>4. ASSUME NEW u \in Subscribers, Recv(u) PROVE TypeOK'
  BY <1>4, SMTT(30) DEF Recv
<1>5. ASSUME NEW u \in Subscribers, TryRecv(u) PROVE TypeOK'
  BY <1>5, SMTT(30) DEF TryRecv
<1>6. ASSUME NEW u \in Subscribers, DrainEmpty(u) PROVE TypeOK'
  BY <1>6 DEF DrainEmpty, SendDatagram
<1>7. ASSUME NEW u \in Subscribers, DrainLagged(u) PROVE TypeOK'
  <2>1. Len(feed) \in Nat /\ Len(feed) - Capacity \in Nat /\ Skipped(u) \in Nat
    BY <1>7 DEF DrainLagged
  <2>2. next' \in [Subscribers -> Nat]
    BY <1>7, <2>1 DEF DrainLagged
  <2>3. lost' \in [Subscribers -> Nat]
    BY <1>7, <2>1 DEF DrainLagged
  <2>4. hold' \in [Subscribers -> Nat] /\ out' \in [Subscribers -> Nat]
    BY <1>7 DEF DrainLagged, SendDatagram
  <2>5. framesOut' \in [Subscribers -> Nat]
    BY <1>7 DEF DrainLagged, SendDatagram
  <2> QED
    BY <1>7, <2>2, <2>3, <2>4, <2>5 DEF DrainLagged, SendDatagram
<1>8. ASSUME NEW u \in Subscribers, Leave(u) PROVE TypeOK'
  BY <1>8 DEF Leave
<1>9. CASE UNCHANGED vars
  BY <1>9 DEF vars
<1> QED
  BY <1>1, <1>2, <1>3, <1>4, <1>5, <1>6, <1>7, <1>8, <1>9 DEF Next, Forward

\* Cursors only move forward: Subscribe sets them to the newest frame, a lag
\* moves them to a frame the ring still has, and hold follows the cursor.
LEMMA CursorStep == IInv /\ [Next]_vars => CursorsOrdered'
<1> SUFFICES ASSUME IInv, [Next]_vars, NEW v \in Subscribers PROVE Ordered(v)'
  BY DEF CursorsOrdered
<1>1. TypeOK /\ Len(feed) \in Nat /\ Ordered(v) /\ Accounted(v)
  BY SMTT(30) DEF IInv, TypeOK, CursorsOrdered, FramesAccounted, Accounted
<1>2. ASSUME NEW p \in Publishers, Publish(p) PROVE Ordered(v)'
  <2>1. Len(feed') = Len(feed) + 1
    BY <1>1, <1>2 DEF Publish, TypeOK
  <2> QED
    BY <1>1, <1>2, <2>1 DEF Publish, TypeOK, Ordered
<1>3. ASSUME NEW u \in Subscribers, Own(u) PROVE Ordered(v)'
  <2>1. CASE v # u
    BY <1>1, <1>3, <2>1, OwnStep DEF Ordered
  <2>2. CASE v = u
    <3> USE <1>1, <2>2, FeedAssumption
        DEF TypeOK, Ordered, Goto, ToNext, ToOldest, Lagged
    <3>1. CASE Subscribe(v)
      BY <3>1 DEF Subscribe
    <3>2. CASE RecvLagged(v)
      BY <3>2 DEF RecvLagged
    <3>3. CASE Recv(v)
      BY <3>3 DEF Recv
    <3>4. CASE TryRecv(v)
      BY <3>4 DEF TryRecv
    <3>5. CASE DrainEmpty(v)
      BY <3>5 DEF DrainEmpty, SendDatagram
    <3>6. CASE DrainLagged(v)
      BY <3>6 DEF DrainLagged, SendDatagram
    <3>7. CASE Leave(v)
      BY <3>7 DEF Leave
    <3> QED
      BY <1>3, <3>1, <3>2, <3>3, <3>4, <3>5, <3>6, <3>7 DEF Own, Forward
  <2> QED
    BY <2>1, <2>2
<1>4. CASE UNCHANGED vars
  BY <1>1, <1>4 DEF vars, Ordered
<1> QED
  BY <1>2, <1>3, <1>4 DEF Next, Own

\* Each step that moves the cursor books what it moved over.
LEMMA AccountStep == IInv /\ [Next]_vars => FramesAccounted'
<1> SUFFICES ASSUME IInv, [Next]_vars, NEW v \in Subscribers PROVE Accounted(v)'
  BY DEF FramesAccounted, Accounted
<1>1. TypeOK /\ Len(feed) \in Nat /\ Ordered(v) /\ Accounted(v)
  BY SMTT(30) DEF IInv, TypeOK, CursorsOrdered, FramesAccounted, Accounted
<1>2. ASSUME NEW p \in Publishers, Publish(p) PROVE Accounted(v)'
  <2>1. Len(feed') = Len(feed) + 1
    BY <1>1, <1>2 DEF Publish, TypeOK
  <2> QED
    BY <1>1, <1>2, <2>1 DEF Publish, TypeOK, Accounted
<1>3. ASSUME NEW u \in Subscribers, Own(u) PROVE Accounted(v)'
  <2>1. CASE v # u
    BY <1>1, <1>3, <2>1, OwnStep DEF Accounted
  <2>2. CASE v = u
    <3> USE <1>1, <2>2, FeedAssumption
    <3>1. CASE Subscribe(v)
      BY <3>1 DEF Subscribe,
        Accounted, TypeOK, Goto, ToNext, ToOldest, Lagged, Skipped
    <3>2. CASE RecvLagged(v)
      <4> DEFINE k == Len(feed) - Capacity - next[v]
      <4>0. k \in Int /\ Len(feed) - Capacity = next[v] + k
        BY DEF TypeOK
      <4>1. /\ next'[v] = next[v] + k /\ dropped'[v] = dropped[v] + k
            /\ framesOut' = framesOut /\ lost' = lost /\ pc' = pc /\ start' = start
        BY <3>2, <4>0 DEF RecvLagged,
          TypeOK, Goto, ToNext, ToOldest, Lagged, Skipped
      <4>2. next[v] \in Nat /\ dropped[v] \in Nat /\ framesOut[v] \in Nat
            /\ lost[v] \in Nat /\ start[v] \in Nat /\ Capacity \in Nat
        BY DEF TypeOK
      <4>3. next[v] = start[v] + framesOut[v] + dropped[v] + lost[v] + 0
        BY <3>2 DEF RecvLagged, Accounted
      <4>4. next'[v] = start[v] + framesOut[v] + dropped'[v] + lost[v] + 0
        <5> HIDE DEF k
        <5> QED
          BY <4>0, <4>1, <4>2, <4>3, SMTT(30)
      <4> QED
        BY <3>2, <4>1, <4>4 DEF RecvLagged, Accounted
    <3>3. CASE Recv(v)
      BY <3>3 DEF Recv,
        Accounted, TypeOK, Goto, ToNext, ToOldest, Lagged, Skipped
    <3>4. CASE TryRecv(v)
      BY <3>4 DEF TryRecv,
        Accounted, TypeOK, Goto, ToNext, ToOldest, Lagged, Skipped
    <3>5. CASE DrainEmpty(v)
      BY <3>5 DEF DrainEmpty, SendDatagram,
        Accounted, TypeOK, Goto, ToNext, ToOldest, Lagged, Skipped
    <3>6. CASE DrainLagged(v)
      <4> DEFINE k == Len(feed) - Capacity - next[v]
      <4>0. k \in Int /\ Len(feed) - Capacity = next[v] + k
        BY DEF TypeOK
      <4>1. /\ next'[v] = next[v] + k /\ lost'[v] = lost[v] + k
            /\ framesOut'[v] = framesOut[v] + 1 /\ pc'[v] = "waiting"
            /\ dropped' = dropped /\ start' = start
        BY <3>6, <4>0 DEF DrainLagged, SendDatagram,
          TypeOK, Goto, ToNext, ToOldest, Lagged, Skipped
      <4>2. next[v] \in Nat /\ dropped[v] \in Nat /\ framesOut[v] \in Nat
            /\ lost[v] \in Nat /\ start[v] \in Nat /\ Capacity \in Nat
        BY DEF TypeOK
      <4>3. next[v] = start[v] + framesOut[v] + dropped[v] + lost[v] + 1
        BY <3>6 DEF DrainLagged, Accounted
      <4>4. next'[v] = start[v] + framesOut'[v] + dropped[v] + lost'[v] + 0
        <5> HIDE DEF k
        <5>1. PICK f \in Nat : f = framesOut[v]
          BY <4>2
        <5>2. PICK d \in Nat : d = dropped[v]
          BY <4>2
        <5>3. PICK l \in Nat : l = lost[v]
          BY <4>2
        <5>4. PICK b \in Nat : b = start[v]
          BY <4>2
        <5>5. PICK n \in Nat : n = next[v]
          BY <4>2
        <5>6. n = b + f + d + l + 1
          BY <4>3, <5>1, <5>2, <5>3, <5>4, <5>5
        <5>7. n + k = b + (f + 1) + d + (l + k) + 0
          <6>1. k \in Int
            BY <4>0
          <6> QED
            BY <5>6, <6>1
        <5> QED
          BY <4>1, <5>1, <5>2, <5>3, <5>4, <5>5, <5>7
      <4> QED
        BY <4>1, <4>4 DEF Accounted
    <3>7. CASE Leave(v)
      BY <3>7 DEF Leave,
        Accounted, TypeOK, Goto, ToNext, ToOldest, Lagged, Skipped
    <3> QED
      BY <1>3, <3>1, <3>2, <3>3, <3>4, <3>5, <3>6, <3>7 DEF Own, Forward
  <2> QED
    BY <2>1, <2>2
<1>4. CASE UNCHANGED vars
  BY <1>1, <1>4 DEF vars, Accounted
<1> QED
  BY <1>2, <1>3, <1>4 DEF Next, Own

-----------------------------------------------------------------------------

\* The inductive invariant.
LEMMA Invariance == Spec => []IInv
<1>1. IInv /\ [Next]_vars => IInv'
  BY TypeStep, CursorStep, AccountStep DEF IInv
<1> QED
  BY InitInv, <1>1, PTL DEF Spec

\* Every frame since a subscription began is sent, at hand, counted as dropped,
\* or was skipped by a lag inside a drain (serve_session, drain_newest).
THEOREM Accounting == Spec => []FramesAccounted
BY Invariance, PTL DEF IInv

\* The subscriber of the ring sees a newest-only feed: no frame twice, none after
\* a newer one (the safety part of FeedImplemented).
THEOREM Implementation == Spec => Feed!Safety
<1>1. Init => Feed!Init
  BY DEF Init, Feed!Init, LastSent, Off, Feed!Off
<1>2. IInv /\ [Next]_vars => [Feed!Next]_(Feed!vars)
  <2> SUFFICES ASSUME IInv, [Next]_vars PROVE [Feed!Next]_(Feed!vars)
    OBVIOUS
  <2>0. feed \in Seq(Publishers) /\ Len(feed) \in Nat /\ TypeOK /\ CursorsOrdered
    BY DEF IInv, TypeOK
  <2> USE <2>0 DEF TypeOK, Goto, LastSent, Off, Feed!Off, Feed!vars
  <2>1. ASSUME NEW p \in Publishers, Publish(p) PROVE Feed!Publish
    BY <2>1 DEF Publish, Feed!Publish
  <2>2. ASSUME NEW u \in Subscribers, Subscribe(u) PROVE Feed!Join(u)
    BY <2>2 DEF Subscribe, Feed!Join
  <2>3. ASSUME NEW u \in Subscribers, RecvLagged(u) \/ Recv(u) \/ TryRecv(u)
        PROVE  UNCHANGED Feed!vars
    BY <2>3 DEF RecvLagged, Recv, TryRecv
  <2>4. ASSUME NEW u \in Subscribers, DrainEmpty(u) \/ DrainLagged(u)
        PROVE  Feed!Deliver(u)
    <3>1. hold[u] \in out[u] + 1 .. Len(feed)
      <4>1. Ordered(u) /\ pc[u] = "draining" /\ out[u] \in Nat /\ hold[u] \in Nat
        BY <2>4 DEF CursorsOrdered, DrainEmpty, DrainLagged
      <4> QED
        BY <4>1, <2>0 DEF Ordered
    <3>2. LastSent' = [LastSent EXCEPT ![u] = hold[u]] /\ feed' = feed
      BY <2>4 DEF DrainEmpty, DrainLagged, SendDatagram
    <3>3. LastSent[u] = out[u] /\ out[u] # Off
      <4>1. pc[u] # "off" /\ out[u] \in Nat
        BY <2>4 DEF DrainEmpty, DrainLagged
      <4> QED
        BY <4>1
    <3> QED
      BY <3>1, <3>2, <3>3 DEF Feed!Deliver
  <2>5. ASSUME NEW u \in Subscribers, Leave(u) PROVE Feed!Leave(u)
    <3>1. LastSent' = [LastSent EXCEPT ![u] = Off] /\ feed' = feed
      BY <2>5 DEF Leave
    <3>2. pc[u] # "off" /\ out[u] \in Nat
      BY <2>5 DEF Leave
    <3>3. LastSent[u] # Off
      BY <3>2
    <3> QED
      BY <3>1, <3>3 DEF Feed!Leave
  <2>6. CASE UNCHANGED vars
    BY <2>6 DEF vars
  <2> QED
    BY <2>1, <2>2, <2>3, <2>4, <2>5, <2>6 DEF Next, Forward, Feed!Next
<1> QED
  BY <1>1, <1>2, Invariance, PTL DEF Spec, Feed!Safety
=============================================================================

