--------------------------- MODULE WsRelayProofs ---------------------------
(***************************************************************************)
(* WsRelay for any sockets, rooms, tokens and limits: a redeemable token   *)
(* closes its room, a closed room gains no stranger, the rooms map is      *)
(* exact and send queues are bounded.                                      *)
(*                                                                         *)
(* The inductive invariant joins the store's (every stored token's room is *)
(* protected, PairingTokensProofs) to the sockets': that a room is shut is *)
(* decided when a socket joins, so nothing more is needed there, but which *)
(* sockets are strangers in a room depends on the rooms map being exact.   *)
(***************************************************************************)
EXTENDS WsRelay, PairingTokensProofs

\* What the sockets' proofs need of their types.
SocketTypes ==
  /\ phase \in [Sockets -> Phases]
  /\ at \in [Sockets -> Rooms \cup {NoRoom}]
  /\ stranger \in [Sockets -> BOOLEAN]
  /\ buffered \in [Sockets -> Nat]
  /\ pingAt \in [Sockets -> Nat \cup {NoPing}]
  /\ isAlive \in [Sockets -> BOOLEAN] /\ peerUp \in [Sockets -> BOOLEAN]
  /\ DOMAIN rooms \subseteq Rooms /\ rooms \in [DOMAIN rooms -> SUBSET Sockets]
  /\ server \in {"running", "stopping", "exited"}

IInv == StoreInv /\ SocketTypes /\ RoomIndexExact /\ SendQueueBound

LEMMA TypesAre == TypeOK <=> StoreTypeOK /\ SocketTypes
BY DEF TypeOK, SocketTypes

LEMMA InitInv == Init => IInv
<1> SUFFICES ASSUME Init PROVE IInv
  OBVIOUS
<1>1. StoreInv
  BY StoreInitInv DEF Init
<1>2. SocketTypes
  BY DEF Init, SocketTypes, Phases, NoPing, Empty
<1>3. RoomIndexExact
  BY StoreAssumption DEF Init, RoomIndexExact, RoomOf, Empty, WssClients
<1>4. SendQueueBound
  BY SocketAssumption DEF Init, SendQueueBound
<1> QED
  BY <1>1, <1>2, <1>3, <1>4 DEF IInv

-----------------------------------------------------------------------------
(* The store's steps and the sockets' steps leave each other alone. *)

Visit(s) ==
  \/ \E room \in Rooms, tok \in Tokens \cup {NoToken, StaticToken}, ok \in BOOLEAN :
       Connect(s, room, tok, ok)
  \/ \E size \in 1..MaxFrame : Message(s, size)
  \/ Closed(s) \/ Drain(s) \/ Pong(s) \/ GoSilent(s)

StoreStep == StoreRequest \/ PurgeTimer \/ (Tick /\ UNCHANGED socketVars)

SocketStep == (\E s \in Sockets : Visit(s)) \/ Beat \/ Shutdown \/ CleanExit \/ ForcedExit

LEMMA NextSplit == Next <=> SocketStep \/ StoreStep
BY DEF Next, SocketStep, StoreStep, Visit

LEMMA StoreStepInv == StoreInv /\ StoreStep => StoreInv' /\ UNCHANGED socketVars
<1> SUFFICES ASSUME StoreInv, StoreStep PROVE StoreInv' /\ UNCHANGED socketVars
  OBVIOUS
<1>1. CASE StoreRequest
  BY <1>1, PostTokenInv, PostRefusedInv, DeleteTokenInv DEF StoreRequest
<1>2. CASE PurgeTimer
  BY <1>2, PurgeInv DEF PurgeTimer
<1>3. CASE Tick /\ UNCHANGED socketVars
  BY <1>3, TickInv
<1> QED
  BY <1>1, <1>2, <1>3 DEF StoreStep

LEMMA SocketStepStore == SocketStep => UNCHANGED storeVars
BY DEF SocketStep, Visit, Connect, Message, Closed, Drain, Pong, GoSilent, Beat,
       Shutdown, CleanExit, ForcedExit, Exit

LEMMA SocketsUnchanged ==
  IInv /\ UNCHANGED socketVars => SocketTypes' /\ RoomIndexExact' /\ SendQueueBound'
BY DEF IInv, socketVars, SocketTypes, RoomIndexExact, RoomOf, WssClients, SendQueueBound

-----------------------------------------------------------------------------
(* Each socket step preserves the sockets' part. *)

SocketInv == SocketTypes /\ RoomIndexExact /\ SendQueueBound

LEMMA ConnectInv ==
  ASSUME SocketInv, NEW s \in Sockets, NEW room \in Rooms, NEW tok, NEW ok,
         Connect(s, room, tok, ok)
  PROVE  SocketInv'
<1> USE StoreAssumption DEF SocketInv, SocketTypes
<1>1. at[s] = NoRoom
  BY DEF Connect, RoomIndexExact, WssClients
<1>2. CASE phase' = [phase EXCEPT ![s] = "open"] /\ at' = [at EXCEPT ![s] = room]
           /\ stranger' = [stranger EXCEPT ![s] = tok = NoToken] /\ Joined(s, room)
  <2>1. /\ DOMAIN rooms' = DOMAIN rooms \cup {room}
        /\ rooms'[room] = RoomOf(room) \cup {s}
        /\ \A r \in DOMAIN rooms : r # room => rooms'[r] = rooms[r]
    BY <1>2 DEF Joined
  <2>2. SocketTypes'
    <3>1. rooms' \in [DOMAIN rooms' -> SUBSET Sockets]
      BY <1>2, <2>1 DEF RoomOf, Joined
    <3> QED
      BY <1>2, <2>1, <3>1 DEF Connect, Phases
  <2>3. \A r \in Rooms : RoomOf(r)' = IF r = room THEN RoomOf(r) \cup {s} ELSE RoomOf(r)
    BY <2>1 DEF RoomOf
  <2>4. RoomIndexExact'
    BY <1>1, <1>2, <2>1, <2>3 DEF RoomIndexExact, WssClients
  <2> QED
    BY <2>2, <2>4 DEF Connect, SendQueueBound
<1>3. CASE phase' = [phase EXCEPT ![s] = "closing"] /\ UNCHANGED <<at, stranger, rooms>>
  <2>1. SocketTypes'
    BY <1>3 DEF Connect, Phases
  <2>2. RoomIndexExact'
    BY <1>3 DEF RoomIndexExact, RoomOf, WssClients
  <2> QED
    BY <2>1, <2>2 DEF Connect, SendQueueBound
<1> QED
  BY <1>2, <1>3 DEF Connect

LEMMA ClosedInv ==
  ASSUME SocketInv, NEW s \in Sockets, Closed(s)
  PROVE  SocketInv'
<1> USE StoreAssumption DEF SocketInv, SocketTypes
<1>1. DOMAIN rooms' = {r \in DOMAIN rooms : r # at[s] \/ rooms[r] # {s}}
      /\ \A r \in DOMAIN rooms' : rooms'[r] = rooms[r] \ {s}
  BY DEF Closed, LeaveRoom
<1>2. SocketTypes'
  <2>1. rooms' \in [DOMAIN rooms' -> SUBSET Sockets]
    BY <1>1 DEF Closed, LeaveRoom
  <2> QED
    BY <1>1, <2>1 DEF Closed, Phases, NoPing
<1>3. \A r \in Rooms : RoomOf(r)' = RoomOf(r) \ {s}
  <2>1. \A r \in DOMAIN rooms : r # at[s] => s \notin rooms[r]
    BY DEF RoomIndexExact, RoomOf
  <2> QED
    BY <1>1, <2>1 DEF RoomOf
<1>4. RoomIndexExact'
  <2>1. \A p \in Sockets, r \in Rooms : p \in RoomOf(r)' <=> at'[p] = r
    BY <1>3 DEF RoomIndexExact, Closed
  <2>2. \A r \in DOMAIN rooms' : rooms'[r] # {}
    <3> SUFFICES ASSUME NEW r \in DOMAIN rooms' PROVE rooms'[r] # {}
      OBVIOUS
    <3>1. r \in DOMAIN rooms /\ rooms[r] # {} /\ rooms'[r] = rooms[r] \ {s}
      BY <1>1 DEF RoomIndexExact
    <3>2. CASE r = at[s]
      BY <1>1, <3>1, <3>2
    <3>3. CASE r # at[s]
      BY <3>1, <3>3 DEF RoomIndexExact, RoomOf
    <3> QED
      BY <3>2, <3>3
  <2>3. \A p \in Sockets : at'[p] # NoRoom => p \in WssClients'
    BY DEF RoomIndexExact, WssClients, Closed
  <2> QED
    BY <2>1, <2>2, <2>3 DEF RoomIndexExact
<1>5. SendQueueBound'
  BY SocketAssumption DEF Closed, SendQueueBound
<1> QED
  BY <1>2, <1>4, <1>5

LEMMA MessageInv ==
  ASSUME SocketInv, NEW s \in Sockets, NEW size \in 1..MaxFrame, Message(s, size)
  PROVE  SocketInv'
<1> USE SocketAssumption DEF SocketInv, SocketTypes
<1>1. SocketTypes'
  BY DEF Message
<1>2. RoomIndexExact'
  BY DEF Message, RoomIndexExact, RoomOf, WssClients
<1>3. SendQueueBound'
  <2> SUFFICES ASSUME NEW p \in Sockets PROVE buffered'[p] <= MaxBuffered + MaxFrame
    BY DEF SendQueueBound
  <2>1. CASE buffered'[p] = buffered[p]
    BY <2>1 DEF SendQueueBound
  <2>2. CASE buffered[p] <= MaxBuffered /\ buffered'[p] = buffered[p] + size
    BY <2>2
  <2> QED
    BY <2>1, <2>2 DEF Message, WithinBackpressureLimit
<1> QED
  BY <1>1, <1>2, <1>3

LEMMA OtherInv ==
  ASSUME SocketInv,
         \/ \E s \in Sockets : Drain(s) \/ Pong(s) \/ GoSilent(s)
         \/ Beat \/ Shutdown \/ CleanExit \/ ForcedExit
  PROVE  SocketInv'
<1> USE StoreAssumption, SocketAssumption DEF SocketInv, SocketTypes
<1>1. ASSUME NEW s \in Sockets, Drain(s) PROVE SocketInv'
  <2>1. SocketTypes'
    BY <1>1 DEF Drain, NoPing
  <2>2. RoomIndexExact'
    BY <1>1 DEF Drain, RoomIndexExact, RoomOf, WssClients
  <2>3. SendQueueBound'
    BY <1>1 DEF Drain, SendQueueBound
  <2> QED
    BY <2>1, <2>2, <2>3
<1>2. ASSUME NEW s \in Sockets, Pong(s) \/ GoSilent(s) PROVE SocketInv'
  <2>1. SocketTypes'
    BY <1>2 DEF Pong, GoSilent, NoPing
  <2>2. RoomIndexExact'
    BY <1>2 DEF Pong, GoSilent, RoomIndexExact, RoomOf, WssClients
  <2> QED
    BY <1>2, <2>1, <2>2 DEF Pong, GoSilent, SendQueueBound
<1>3. CASE Beat
  <2>1. SocketTypes'
    BY <1>3 DEF Beat, Phases
  <2>2. RoomIndexExact'
    BY <1>3 DEF Beat, RoomIndexExact, RoomOf, WssClients
  <2> QED
    BY <1>3, <2>1, <2>2 DEF Beat, SendQueueBound
<1>4. CASE Shutdown
  <2>1. SocketTypes'
    BY <1>4 DEF Shutdown, Phases
  <2>2. RoomIndexExact'
    BY <1>4 DEF Shutdown, RoomIndexExact, RoomOf, WssClients
  <2> QED
    BY <1>4, <2>1, <2>2 DEF Shutdown, SendQueueBound
<1>5. CASE Exit
  <2>1. SocketTypes'
    BY <1>5 DEF Exit, Phases, NoPing, Empty
  <2>2. RoomIndexExact'
    BY <1>5 DEF Exit, RoomIndexExact, RoomOf, WssClients, Empty
  <2> QED
    BY <1>5, <2>1, <2>2 DEF Exit, SendQueueBound
<1> QED
  BY <1>1, <1>2, <1>3, <1>4, <1>5 DEF CleanExit, ForcedExit

LEMMA SocketStepInv == SocketInv /\ SocketStep => SocketInv'
BY ConnectInv, ClosedInv, MessageInv, OtherInv DEF SocketStep, Visit

-----------------------------------------------------------------------------

LEMMA StepInv == IInv /\ [Next]_vars => IInv'
<1> SUFFICES ASSUME IInv, [Next]_vars PROVE IInv'
  OBVIOUS
<1>1. CASE SocketStep
  BY <1>1, SocketStepInv, SocketStepStore, StoreUnchanged DEF IInv, SocketInv
<1>2. CASE StoreStep
  BY <1>2, StoreStepInv, SocketsUnchanged DEF IInv
<1>3. CASE UNCHANGED vars
  BY <1>3, StoreUnchanged, SocketsUnchanged DEF vars, IInv
<1> QED
  BY <1>1, <1>2, <1>3, NextSplit

LEMMA Invariance == Spec => []IInv
BY InitInv, StepInv, PTL DEF Spec

\* The relay's variables keep their types.
THEOREM TypeCorrect == Spec => []TypeOK
<1>1. IInv => TypeOK
  BY TypesAre DEF IInv, StoreInv
<1> QED
  BY <1>1, Invariance, PTL

\* A token that can be redeemed closes its room to sockets without one
\* (authorizeRoomToken against issuePairingToken and purgePairingTokens).
THEOREM RoomsClosed == Spec => []LiveTokenClosesRoom
<1>1. IInv => LiveTokenClosesRoom
  BY InvClosesRooms DEF IInv
<1> QED
  BY <1>1, Invariance, PTL

\* The rooms map is exact, and no send queue outgrows the backpressure limit by
\* more than one frame (leaveRoom, withinBackpressureLimit).
THEOREM RoomsExact == Spec => [](RoomIndexExact /\ SendQueueBound)
<1>1. IInv => RoomIndexExact /\ SendQueueBound
  BY DEF IInv
<1> QED
  BY <1>1, Invariance, PTL

\* While a token of a room can be redeemed, nobody enters it without one.
THEOREM NoStrangerEnters == Spec => ClosedRoomGainsNoStranger
<1> DEFINE Kept ==
      \A r \in Rooms : (\E t \in Tokens : Live(t) /\ tokens[t].room = r)
                         => Strangers(r)' \subseteq Strangers(r)
<1>1. IInv /\ [Next]_vars => [Kept]_vars
  <2> SUFFICES ASSUME IInv, [Next]_vars, NEW r \in Rooms,
                      NEW t \in Tokens, Live(t), tokens[t].room = r
               PROVE  Strangers(r)' \subseteq Strangers(r)
    OBVIOUS
  <2>0. SocketInv /\ StoreInv
    BY DEF IInv, SocketInv
  <2>1. ~AuthorizeRoomToken(r, NoToken)
    BY <2>0, StrangersShutOut DEF Live
  <2>2. ASSUME rooms' = rooms, stranger' = stranger PROVE Strangers(r)' \subseteq Strangers(r)
    BY <2>2 DEF Strangers, RoomOf
  <2>3. ASSUME NEW s \in Sockets, NEW room \in Rooms, NEW tok, NEW ok,
               Connect(s, room, tok, ok)
        PROVE  Strangers(r)' \subseteq Strangers(r)
    <3>1. CASE stranger' = stranger /\ rooms' = rooms
      BY <2>2, <3>1
    <3>2. CASE /\ AuthorizeRoomToken(room, tok) /\ Joined(s, room)
               /\ stranger' = [stranger EXCEPT ![s] = tok = NoToken]
      <4>1. s \notin RoomOf(r)
        BY <2>0, <2>3, StoreAssumption
        DEF Connect, SocketInv, RoomIndexExact, WssClients
      <4>2. RoomOf(r)' = IF r = room THEN RoomOf(r) \cup {s} ELSE RoomOf(r)
        BY <3>2 DEF Joined, RoomOf
      <4>3. r = room => ~stranger'[s]
        BY <2>0, <2>1, <3>2 DEF SocketInv, SocketTypes
      <4> QED
        BY <2>0, <3>2, <4>1, <4>2, <4>3 DEF Strangers, SocketInv, SocketTypes
    <3> QED
      BY <2>3, <3>1, <3>2 DEF Connect
  <2>4. ASSUME NEW s \in Sockets, Closed(s) PROVE Strangers(r)' \subseteq Strangers(r)
    <3>1. RoomOf(r)' \subseteq RoomOf(r)
      BY <2>4 DEF Closed, LeaveRoom, RoomOf
    <3> QED
      BY <2>0, <2>4, <3>1 DEF Closed, Strangers, SocketInv, SocketTypes
  <2>5. ASSUME Exit PROVE Strangers(r)' \subseteq Strangers(r)
    BY <2>5 DEF Exit, Strangers, RoomOf, Empty
  <2>6. CASE SocketStep
    <3>1. ASSUME NEW s \in Sockets, Visit(s) PROVE Strangers(r)' \subseteq Strangers(r)
      BY <2>2, <2>3, <2>4, <3>1 DEF Visit, Message, Drain, Pong, GoSilent
    <3> QED
      BY <2>2, <2>5, <2>6, <3>1 DEF SocketStep, Beat, Shutdown, CleanExit, ForcedExit
  <2>7. CASE StoreStep
    BY <2>0, <2>2, <2>7, StoreStepInv DEF socketVars
  <2>8. CASE UNCHANGED vars
    BY <2>2, <2>8 DEF vars, socketVars
  <2> QED
    BY <2>6, <2>7, <2>8, NextSplit
<1> QED
  BY <1>1, Invariance, PTL DEF Spec, ClosedRoomGainsNoStranger
=============================================================================
