--------------------------- MODULE WtRelayProofs ---------------------------
(***************************************************************************)
(* WtRelay for any number of sessions, addresses, rooms and channels and   *)
(* any caps: whatever the tasks' interleaving, the per-address map, the    *)
(* rooms map and active_sessions count exactly what they stand for, and    *)
(* everyone in a room talks over the room's one channel.                   *)
(*                                                                         *)
(* Each of the three counts is the cardinality of a set of sessions, and a *)
(* step moves at most one session into or out of one of the sets: the      *)
(* lemmas SlotsStep, MembersStep and ServingStep say which.                *)
(***************************************************************************)
EXTENDS WtRelay, FiniteSetTheorems, TLAPS

\* A session has an address while it exists, and a room from the session cap on.
Placed ==
  \A s \in Sessions :
    /\ pc[s] # "absent" => ip[s] \in Addresses
    /\ pc[s] = "accepting" \/ InRoom(s) => room[s] \in Rooms

RoomsFinite == IsFiniteSet(DOMAIN rooms)

IInv ==
  /\ TypeOK /\ Placed /\ RoomsFinite
  /\ AddressSlotsExact /\ ParticipantsExact /\ RoomChannelShared /\ CapsHold

SessionStep(s) ==
  \/ \E a \in Addresses : Incoming(s, a)
  \/ \E r \in Rooms, valid \in BOOLEAN : Handshaken(s, r, valid)
  \/ Step(s) \/ PeerGone(s)

LEMMA NextSplit == Next <=> \E s \in Sessions : SessionStep(s)
BY DEF Next, SessionStep

LEMMA SessionSetsFinite ==
  /\ \A a : IsFiniteSet(SlotsOf(a)) /\ SlotsOf(a) \subseteq Sessions
  /\ \A r : IsFiniteSet(Members(r)) /\ Members(r) \subseteq Sessions
  /\ IsFiniteSet(Serving)
<1>1. \A S \in SUBSET Sessions : IsFiniteSet(S)
  BY FS_Subset, WtAssumption
<1> QED
  BY <1>1 DEF SlotsOf, Members, Serving

\* A step of one session leaves the others where they are.
LEMMA OthersUnchanged ==
  ASSUME TypeOK, NEW s \in Sessions, SessionStep(s), NEW t \in Sessions \ {s}
  PROVE  /\ pc'[t] = pc[t] /\ ip'[t] = ip[t]
         /\ room'[t] = room[t] /\ tx'[t] = tx[t]
<1> USE DEF TypeOK, Goto
<1>1. ASSUME NEW a \in Addresses, Incoming(s, a) PROVE pc'[t] = pc[t] /\ ip'[t] = ip[t]
                                        /\ room'[t] = room[t] /\ tx'[t] = tx[t]
  BY <1>1 DEF Incoming
<1>2. ASSUME NEW r \in Rooms, NEW valid \in BOOLEAN, Handshaken(s, r, valid)
      PROVE  pc'[t] = pc[t] /\ ip'[t] = ip[t] /\ room'[t] = room[t] /\ tx'[t] = tx[t]
  BY <1>2 DEF Handshaken
<1>3. CASE Refused(s) \/ HandshakeFailed(s) \/ RoomRejected(s) \/ Release(s)
  BY <1>3 DEF Refused, HandshakeFailed, RoomRejected, Release
<1>4. CASE JoinRoom(s)
  BY <1>4 DEF JoinRoom
<1>5. CASE Serve(s) \/ ServeEnds(s) \/ LeaveRoom(s) \/ PeerGone(s)
  BY <1>5 DEF Serve, ServeEnds, LeaveRoom, PeerGone
<1> QED
  BY <1>1, <1>2, <1>3, <1>4, <1>5 DEF SessionStep, Step

-----------------------------------------------------------------------------
(* Which set a step moves its session into or out of *)

\* A session takes its slot when it comes in and gives it back when it ends.
LEMMA SlotsStep ==
  ASSUME TypeOK, Placed, NEW s \in Sessions, SessionStep(s)
  PROVE  \/ \E a \in Addresses :
              /\ RegisterIpSession(a) /\ HasAddressSlot(a)
              /\ s \notin SlotsOf(a)
              /\ SlotsOf(a)' = SlotsOf(a) \cup {s}
              /\ \A b \in Addresses \ {a} : SlotsOf(b)' = SlotsOf(b)
         \/ \E a \in Addresses :
              /\ DeregisterIpSession(a)
              /\ s \in SlotsOf(a)
              /\ SlotsOf(a)' = SlotsOf(a) \ {s}
              /\ \A b \in Addresses \ {a} : SlotsOf(b)' = SlotsOf(b)
         \/ /\ ipSessions' = ipSessions
            /\ \A a \in Addresses : SlotsOf(a)' = SlotsOf(a)
<1> DEFINE Others == \A t \in Sessions \ {s} : pc'[t] = pc[t] /\ ip'[t] = ip[t]
<1>0. Others
  BY OthersUnchanged
<1> USE DEF SlotsOf, HasSlot, TypeOK, Goto
<1>1. ASSUME NEW a \in Addresses, Incoming(s, a), HasAddressSlot(a)
      PROVE  /\ RegisterIpSession(a) /\ HasAddressSlot(a)
             /\ s \notin SlotsOf(a)
             /\ SlotsOf(a)' = SlotsOf(a) \cup {s}
             /\ \A b \in Addresses \ {a} : SlotsOf(b)' = SlotsOf(b)
  <2>1. pc[s] = "absent" /\ pc'[s] = "handshake" /\ ip'[s] = a /\ RegisterIpSession(a)
    BY <1>1 DEF Incoming
  <2> QED
    BY <1>0, <1>1, <2>1
<1>2. ASSUME NEW a \in Addresses, Incoming(s, a), ~HasAddressSlot(a)
      PROVE  ipSessions' = ipSessions /\ \A b \in Addresses : SlotsOf(b)' = SlotsOf(b)
  <2>1. pc[s] = "absent" /\ pc'[s] = "refused" /\ ipSessions' = ipSessions
    BY <1>2 DEF Incoming
  <2> QED
    BY <1>0, <2>1
<1>3. ASSUME Release(s), NEW a, a = ip[s]
      PROVE  /\ a \in Addresses /\ DeregisterIpSession(a)
             /\ s \in SlotsOf(a)
             /\ SlotsOf(a)' = SlotsOf(a) \ {s}
             /\ \A b \in Addresses \ {a} : SlotsOf(b)' = SlotsOf(b)
  <2>1. pc[s] = "releasing" /\ pc'[s] = "absent" /\ DeregisterIpSession(a)
    BY <1>3 DEF Release
  <2>2. a \in Addresses /\ s \in SlotsOf(a)
    BY <1>3, <2>1 DEF Placed
  <2>3. \A b \in Addresses : SlotsOf(b)' = SlotsOf(b) \ {s}
    BY <1>0, <2>1
  <2>4. \A b \in Addresses \ {a} : s \notin SlotsOf(b)
    BY <1>3
  <2> HIDE DEF SlotsOf, HasSlot, TypeOK, Goto
  <2>5. \A b \in Addresses \ {a} : SlotsOf(b)' = SlotsOf(b)
    BY <2>3, <2>4
  <2> QED
    BY <2>1, <2>2, <2>3, <2>5
<1>4. ASSUME Refused(s)
      PROVE  ipSessions' = ipSessions /\ \A b \in Addresses : SlotsOf(b)' = SlotsOf(b)
  <2>1. pc[s] = "refused" /\ pc'[s] = "absent" /\ ipSessions' = ipSessions
    BY <1>4 DEF Refused
  <2> QED
    BY <1>0, <2>1
<1>5. ASSUME ip' = ip, ipSessions' = ipSessions, HasSlot(s)' <=> HasSlot(s)
      PROVE  ipSessions' = ipSessions /\ \A b \in Addresses : SlotsOf(b)' = SlotsOf(b)
  BY <1>0, <1>5
<1>6. ASSUME NEW r \in Rooms, NEW valid \in BOOLEAN, Handshaken(s, r, valid)
      PROVE  ip' = ip /\ ipSessions' = ipSessions /\ (HasSlot(s)' <=> HasSlot(s))
  BY <1>6 DEF Handshaken
<1>7. ASSUME HandshakeFailed(s) \/ JoinRoom(s) \/ RoomRejected(s) \/ Serve(s)
               \/ ServeEnds(s) \/ LeaveRoom(s) \/ PeerGone(s)
      PROVE  ip' = ip /\ ipSessions' = ipSessions /\ (HasSlot(s)' <=> HasSlot(s))
  BY <1>7 DEF HandshakeFailed, JoinRoom, RoomRejected, Serve, ServeEnds, LeaveRoom, PeerGone
<1> HIDE DEF SlotsOf, HasSlot, TypeOK, Goto
<1>8. CASE \E a \in Addresses : Incoming(s, a)
  BY <1>1, <1>2, <1>8
<1>9. CASE Release(s)
  BY <1>3, <1>9
<1>10. CASE \E r \in Rooms, valid \in BOOLEAN : Handshaken(s, r, valid)
  <2>1. ip' = ip /\ ipSessions' = ipSessions /\ (HasSlot(s)' <=> HasSlot(s))
    BY <1>6, <1>10
  <2> QED
    BY <1>5, <2>1
<1>11. CASE Refused(s)
  BY <1>4, <1>11
<1>12. CASE HandshakeFailed(s) \/ JoinRoom(s) \/ RoomRejected(s) \/ Serve(s)
              \/ ServeEnds(s) \/ LeaveRoom(s) \/ PeerGone(s)
  BY <1>5, <1>7, <1>12
<1> QED
  BY <1>8, <1>9, <1>10, <1>11, <1>12 DEF SessionStep, Step

\* A session enters its room in JoinRoom and is out of it with gc_room.
LEMMA MembersStep ==
  ASSUME TypeOK, Placed, NEW s \in Sessions, SessionStep(s)
  PROVE  \/ \E r \in Rooms :
              /\ JoinRoom(s) /\ r = room[s] /\ s \notin Members(r)
              /\ Members(r)' = Members(r) \cup {s}
              /\ \A q \in Rooms \ {r} : Members(q)' = Members(q)
         \/ \E r \in Rooms :
              /\ LeaveRoom(s) /\ r = room[s] /\ s \in Members(r)
              /\ Members(r)' = Members(r) \ {s}
              /\ \A q \in Rooms \ {r} : Members(q)' = Members(q)
         \/ /\ rooms' = rooms
            /\ \A t \in Sessions : InRoom(t)' <=> InRoom(t)
            /\ \A t \in Sessions : InRoom(t) => room'[t] = room[t] /\ tx'[t] = tx[t]
            /\ \A r \in Rooms : Members(r)' = Members(r)
<1>0. \A t \in Sessions \ {s} : pc'[t] = pc[t] /\ room'[t] = room[t] /\ tx'[t] = tx[t]
  BY OthersUnchanged
<1> USE DEF Members, InRoom, TypeOK, Goto
<1>1. ASSUME JoinRoom(s), NEW r, r = room[s]
      PROVE  /\ r \in Rooms /\ s \notin Members(r)
             /\ Members(r)' = Members(r) \cup {s}
             /\ \A q \in Rooms \ {r} : Members(q)' = Members(q)
  <2>1. pc[s] = "accepting" /\ pc'[s] = "joined" /\ room' = room
    BY <1>1 DEF JoinRoom
  <2> QED
    BY <1>0, <1>1, <2>1 DEF Placed
<1>2. ASSUME LeaveRoom(s), NEW r, r = room[s]
      PROVE  /\ r \in Rooms /\ s \in Members(r)
             /\ Members(r)' = Members(r) \ {s}
             /\ \A q \in Rooms \ {r} : Members(q)' = Members(q)
  <2>1. pc[s] = "leaving" /\ pc'[s] = "releasing"
    BY <1>2 DEF LeaveRoom
  <2>2. \A q \in Rooms : Members(q)' = Members(q) \ {s}
    BY <1>0, <2>1
  <2>3. \A q \in Rooms \ {r} : s \notin Members(q)
    BY <1>2
  <2>4. r \in Rooms /\ s \in Members(r)
    BY <1>2, <2>1 DEF Placed
  <2> HIDE DEF Members, InRoom, TypeOK, Goto
  <2>5. \A q \in Rooms \ {r} : Members(q)' = Members(q)
    BY <2>2, <2>3
  <2> QED
    BY <2>2, <2>4, <2>5
<1>3. ASSUME rooms' = rooms, InRoom(s)' <=> InRoom(s),
             InRoom(s) => room'[s] = room[s] /\ tx'[s] = tx[s]
      PROVE  /\ rooms' = rooms
             /\ \A t \in Sessions : InRoom(t)' <=> InRoom(t)
             /\ \A t \in Sessions : InRoom(t) => room'[t] = room[t] /\ tx'[t] = tx[t]
             /\ \A r \in Rooms : Members(r)' = Members(r)
  BY <1>0, <1>3
<1>4. ASSUME NEW a \in Addresses, Incoming(s, a)
      PROVE  /\ rooms' = rooms /\ (InRoom(s)' <=> InRoom(s))
             /\ InRoom(s) => room'[s] = room[s] /\ tx'[s] = tx[s]
  BY <1>4 DEF Incoming
<1>5. ASSUME NEW r \in Rooms, NEW valid \in BOOLEAN, Handshaken(s, r, valid)
      PROVE  /\ rooms' = rooms /\ (InRoom(s)' <=> InRoom(s))
             /\ InRoom(s) => room'[s] = room[s] /\ tx'[s] = tx[s]
  BY <1>5 DEF Handshaken
<1>6. ASSUME Refused(s) \/ HandshakeFailed(s) \/ RoomRejected(s) \/ Serve(s)
               \/ ServeEnds(s) \/ Release(s) \/ PeerGone(s)
      PROVE  /\ rooms' = rooms /\ (InRoom(s)' <=> InRoom(s))
             /\ InRoom(s) => room'[s] = room[s] /\ tx'[s] = tx[s]
  BY <1>6 DEF Refused, HandshakeFailed, RoomRejected, Serve, ServeEnds, Release, PeerGone
<1> HIDE DEF Members, InRoom, TypeOK, Goto
<1> QED
  BY <1>1, <1>2, <1>3, <1>4, <1>5, <1>6 DEF SessionStep, Step

\* A session is counted from Serve to ServeEnds.
LEMMA ServingStep ==
  ASSUME TypeOK, NEW s \in Sessions, SessionStep(s)
  PROVE  \/ s \notin Serving /\ Serving' = Serving \cup {s} /\ active' = active + 1
         \/ s \in Serving /\ Serving' = Serving \ {s} /\ active' = active - 1
         \/ Serving' = Serving /\ active' = active
<1>0. \A t \in Sessions \ {s} : pc'[t] = pc[t]
  BY OthersUnchanged
<1> USE DEF Serving, TypeOK, Goto
<1>1. CASE Serve(s)
  BY <1>0, <1>1 DEF Serve
<1>2. CASE ServeEnds(s)
  BY <1>0, <1>2 DEF ServeEnds
<1>3. ASSUME active' = active, pc[s] # "serving", pc'[s] # "serving"
      PROVE  Serving' = Serving /\ active' = active
  BY <1>0, <1>3
<1>4. ASSUME NEW a \in Addresses, Incoming(s, a)
      PROVE  active' = active /\ pc[s] # "serving" /\ pc'[s] # "serving"
  BY <1>4 DEF Incoming
<1>5. ASSUME NEW r \in Rooms, NEW valid \in BOOLEAN, Handshaken(s, r, valid)
      PROVE  active' = active /\ pc[s] # "serving" /\ pc'[s] # "serving"
  BY <1>5 DEF Handshaken
<1>6. ASSUME Refused(s) \/ HandshakeFailed(s) \/ JoinRoom(s) \/ RoomRejected(s)
               \/ LeaveRoom(s) \/ Release(s)
      PROVE  active' = active /\ pc[s] # "serving" /\ pc'[s] # "serving"
  BY <1>6 DEF Refused, HandshakeFailed, JoinRoom, RoomRejected, LeaveRoom, Release
<1>7. CASE PeerGone(s)
  BY <1>7 DEF PeerGone
<1> HIDE DEF Serving, TypeOK, Goto
<1> QED
  BY <1>1, <1>2, <1>3, <1>4, <1>5, <1>6, <1>7 DEF SessionStep, Step
-----------------------------------------------------------------------------
(* The invariant *)

LEMMA InitInv == Init => IInv
<1> SUFFICES ASSUME Init PROVE IInv
  OBVIOUS
<1>1. TypeOK /\ Placed
  BY WtAssumption DEF Init, TypeOK, Phases, Empty, Placed, InRoom
<1>2. DOMAIN rooms = {} /\ DOMAIN ipSessions = {}
  BY DEF Init, Empty
<1>3. (\A a : SlotsOf(a) = {}) /\ (\A r : Members(r) = {}) /\ Serving = {}
  BY DEF Init, SlotsOf, HasSlot, Members, InRoom, Serving
<1>4. IsFiniteSet({}) /\ Cardinality({}) = 0
  BY FS_EmptySet
<1>5. AddressSlotsExact
  BY <1>2, <1>3, <1>4 DEF AddressSlotsExact, Count
<1>6. ParticipantsExact /\ RoomChannelShared
  BY <1>2, <1>3 DEF ParticipantsExact, RoomChannelShared, Init, InRoom
<1>7. CapsHold /\ RoomsFinite
  BY <1>2, <1>3, <1>4, WtAssumption DEF CapsHold, RoomsFinite, Init
<1> QED
  BY <1>1, <1>5, <1>6, <1>7 DEF IInv

LEMMA FunctionType ==
  ASSUME NEW f, NEW S, f = [x \in DOMAIN f |-> f[x]], \A x \in DOMAIN f : f[x] \in S
  PROVE  f \in [DOMAIN f -> S]
OBVIOUS

\* The per-address map keeps its type and counts what SlotsStep says.
LEMMA SlotsInv ==
  ASSUME IInv, NEW s \in Sessions, SessionStep(s)
  PROVE  /\ AddressSlotsExact'
         /\ DOMAIN ipSessions' \subseteq Addresses
         /\ ipSessions' \in [DOMAIN ipSessions' -> 1..MaxSessionsPerIp]
<1> DEFINE Typed == /\ DOMAIN ipSessions \subseteq Addresses
                    /\ \A b \in DOMAIN ipSessions : ipSessions[b] \in 1..MaxSessionsPerIp
<1>0. /\ TypeOK /\ Placed /\ AddressSlotsExact /\ Typed
      /\ \A b \in Addresses : IsFiniteSet(SlotsOf(b))
      /\ MaxSessionsPerIp \in Nat
  BY SessionSetsFinite, WtAssumption DEF IInv, TypeOK
<1> SUFFICES AddressSlotsExact' /\ Typed' /\ ipSessions' = [b \in DOMAIN ipSessions' |-> ipSessions'[b]]
  BY FunctionType
<1>1. CASE \E a \in Addresses :
              /\ RegisterIpSession(a) /\ HasAddressSlot(a)
              /\ s \notin SlotsOf(a)
              /\ SlotsOf(a)' = SlotsOf(a) \cup {s}
              /\ \A b \in Addresses \ {a} : SlotsOf(b)' = SlotsOf(b)
  <2> PICK a \in Addresses :
              /\ RegisterIpSession(a) /\ HasAddressSlot(a)
              /\ s \notin SlotsOf(a)
              /\ SlotsOf(a)' = SlotsOf(a) \cup {s}
              /\ \A b \in Addresses \ {a} : SlotsOf(b)' = SlotsOf(b)
    BY <1>1
  <2>1. /\ Cardinality(SlotsOf(a)') = Cardinality(SlotsOf(a)) + 1
        /\ SlotsOf(a)' # {}
    BY <1>0, FS_AddElement
  <2>2. /\ DOMAIN ipSessions' = DOMAIN ipSessions \cup {a}
        /\ ipSessions'[a] = Count(a) + 1
        /\ \A b \in DOMAIN ipSessions \ {a} : ipSessions'[b] = ipSessions[b]
        /\ ipSessions' = [b \in DOMAIN ipSessions' |-> ipSessions'[b]]
    BY DEF RegisterIpSession
  <2>3. Count(a) \in Nat /\ Count(a) + 1 \in 1..MaxSessionsPerIp
    BY <1>0 DEF Count, HasAddressSlot
  <2>4. Typed'
    BY <1>0, <2>2, <2>3
  <2>5. Count(a)' = Count(a) + 1 /\ \A b \in Addresses \ {a} : Count(b)' = Count(b)
    BY <2>2 DEF Count
  <2>6. AddressSlotsExact'
    BY <1>0, <2>1, <2>2, <2>5 DEF AddressSlotsExact
  <2> QED
    BY <2>2, <2>4, <2>6
<1>2. CASE \E a \in Addresses :
              /\ DeregisterIpSession(a)
              /\ s \in SlotsOf(a)
              /\ SlotsOf(a)' = SlotsOf(a) \ {s}
              /\ \A b \in Addresses \ {a} : SlotsOf(b)' = SlotsOf(b)
  <2> PICK a \in Addresses :
              /\ DeregisterIpSession(a)
              /\ s \in SlotsOf(a)
              /\ SlotsOf(a)' = SlotsOf(a) \ {s}
              /\ \A b \in Addresses \ {a} : SlotsOf(b)' = SlotsOf(b)
    BY <1>2
  <2>1. a \in DOMAIN ipSessions /\ ipSessions[a] = Cardinality(SlotsOf(a))
    BY <1>0 DEF AddressSlotsExact, Count
  <2>2. /\ IsFiniteSet(SlotsOf(a)')
        /\ Cardinality(SlotsOf(a)') = ipSessions[a] - 1
    BY <1>0, <2>1, FS_RemoveElement
  <2>3. Cardinality(SlotsOf(a)') = 0 <=> SlotsOf(a)' = {}
    BY <2>2, FS_EmptySet
  <2>4. /\ DOMAIN ipSessions' = {c \in DOMAIN ipSessions : c # a \/ ipSessions[c] > 1}
        /\ a \in DOMAIN ipSessions' => ipSessions'[a] = ipSessions[a] - 1
        /\ \A b \in DOMAIN ipSessions \ {a} : ipSessions'[b] = ipSessions[b]
        /\ ipSessions' = [b \in DOMAIN ipSessions' |-> ipSessions'[b]]
    BY DEF DeregisterIpSession
  <2>5. ipSessions[a] \in 1..MaxSessionsPerIp
    BY <1>0, <2>1
  <2>6. Typed'
    BY <1>0, <2>4, <2>5
  <2>7. /\ a \in DOMAIN ipSessions' <=> ipSessions[a] > 1
        /\ Count(a)' = ipSessions[a] - 1
    BY <2>1, <2>4, <2>5 DEF Count
  <2>8. \A b \in Addresses \ {a} : /\ Count(b)' = Count(b)
                                   /\ b \in DOMAIN ipSessions' <=> b \in DOMAIN ipSessions
    BY <2>4 DEF Count
  <2>9. a \in DOMAIN ipSessions' <=> SlotsOf(a)' # {}
    BY <2>2, <2>3, <2>5, <2>7
  <2>10. AddressSlotsExact'
    BY <1>0, <2>2, <2>7, <2>8, <2>9 DEF AddressSlotsExact
  <2> QED
    BY <2>4, <2>6, <2>10
<1>3. CASE ipSessions' = ipSessions /\ \A a \in Addresses : SlotsOf(a)' = SlotsOf(a)
  <2>1. ipSessions = [b \in DOMAIN ipSessions |-> ipSessions[b]]
    BY DEF IInv, TypeOK
  <2> QED
    BY <1>0, <1>3, <2>1 DEF AddressSlotsExact, Count
<1> QED
  BY <1>0, <1>1, <1>2, <1>3, SlotsStep

\* The rooms map counts what MembersStep says, and a room's channel stays the
\* one its members hold.
LEMMA RoomsInv ==
  ASSUME IInv, NEW s \in Sessions, SessionStep(s)
  PROVE  /\ ParticipantsExact' /\ RoomChannelShared' /\ RoomsFinite'
         /\ Cardinality(DOMAIN rooms') <= MaxRooms
         /\ DOMAIN rooms' \subseteq Rooms
         /\ rooms' \in [DOMAIN rooms' -> [chan : Channels, participants : Nat]]
<1> DEFINE Entry  == [chan : Channels, participants : Nat]
           Capped == Cardinality(DOMAIN rooms) <= MaxRooms
           Typed  == DOMAIN rooms \subseteq Rooms /\ \A q \in DOMAIN rooms : rooms[q] \in Entry
<1>0. /\ TypeOK /\ Placed /\ ParticipantsExact /\ RoomChannelShared /\ RoomsFinite
      /\ Typed /\ Capped
      /\ \A q : IsFiniteSet(Members(q)) /\ Members(q) \subseteq Sessions
      /\ rooms = [q \in DOMAIN rooms |-> rooms[q]]
      /\ MaxRooms \in Nat
  BY SessionSetsFinite, WtAssumption DEF IInv, TypeOK, CapsHold
<1> SUFFICES /\ ParticipantsExact' /\ RoomChannelShared' /\ RoomsFinite' /\ Capped' /\ Typed'
             /\ rooms' = [q \in DOMAIN rooms' |-> rooms'[q]]
  BY FunctionType
<1>a. \A t \in Sessions \ {s} : pc'[t] = pc[t] /\ room'[t] = room[t] /\ tx'[t] = tx[t]
  BY <1>0, OthersUnchanged
<1>1. CASE \E r \in Rooms :
              /\ JoinRoom(s) /\ r = room[s] /\ s \notin Members(r)
              /\ Members(r)' = Members(r) \cup {s}
              /\ \A q \in Rooms \ {r} : Members(q)' = Members(q)
  <2> PICK r \in Rooms :
              /\ JoinRoom(s) /\ r = room[s] /\ s \notin Members(r)
              /\ Members(r)' = Members(r) \cup {s}
              /\ \A q \in Rooms \ {r} : Members(q)' = Members(q)
    BY <1>1
  <2> DEFINE fresh == CHOOSE c \in Channels : Unused(c)
             here  == IF r \in DOMAIN rooms THEN rooms[r]
                      ELSE [chan |-> fresh, participants |-> 0]
  <2>1. /\ tx' = [tx EXCEPT ![s] = here.chan]
        /\ rooms' = [q \in DOMAIN rooms \cup {r} |->
                       IF q = r THEN [here EXCEPT !.participants = @ + 1] ELSE rooms[q]]
        /\ RoomAdmits(r) /\ pc[s] = "accepting" /\ pc'[s] = "joined" /\ room' = room
        /\ r \notin DOMAIN rooms => \E c \in Channels : Unused(c)
    BY <1>0 DEF JoinRoom, Goto, TypeOK
  <2>2. r \notin DOMAIN rooms => fresh \in Channels /\ Unused(fresh)
    BY <2>1
  <2> HIDE DEF fresh
  <2>3. here \in Entry
    BY <1>0, <2>2
  <2>4. /\ r \in DOMAIN rooms => here = rooms[r]
        /\ r \notin DOMAIN rooms => here.chan = fresh /\ here.participants = 0
    OBVIOUS
  <2> HIDE DEF here
  <2>5. /\ DOMAIN rooms' = DOMAIN rooms \cup {r}
        /\ rooms'[r] \in Entry /\ rooms'[r].chan = here.chan
        /\ rooms'[r].participants = here.participants + 1
        /\ \A q \in DOMAIN rooms \ {r} : rooms'[q] = rooms[q]
        /\ rooms' = [q \in DOMAIN rooms' |-> rooms'[q]]
    BY <2>1, <2>3
  <2>6. Typed'
    BY <1>0, <2>5
  <2>7. RoomsFinite' /\ Capped'
    <3>1. /\ IsFiniteSet(DOMAIN rooms \cup {r})
          /\ Cardinality(DOMAIN rooms \cup {r})
               = IF r \in DOMAIN rooms THEN Cardinality(DOMAIN rooms)
                                       ELSE Cardinality(DOMAIN rooms) + 1
      <4>1. IsFiniteSet(DOMAIN rooms)
        BY <1>0 DEF RoomsFinite
      <4> QED
        BY <4>1, FS_AddElement
    <3>2. Cardinality(DOMAIN rooms) \in Nat
      BY <1>0, FS_CardinalityType DEF RoomsFinite
    <3> QED
      BY <1>0, <2>1, <2>5, <3>1, <3>2 DEF RoomsFinite, RoomAdmits
  <2>8. here.participants = Cardinality(Members(r))
    <3>1. CASE r \in DOMAIN rooms
      BY <1>0, <2>4, <3>1 DEF ParticipantsExact
    <3>2. CASE r \notin DOMAIN rooms
      BY <1>0, <2>4, <3>2, FS_EmptySet DEF ParticipantsExact
    <3> QED
      BY <3>1, <3>2
  <2>9. /\ Cardinality(Members(r)') = Cardinality(Members(r)) + 1
        /\ Members(r)' # {}
    BY <1>0, FS_AddElement
  <2>10. ParticipantsExact'
    BY <1>0, <2>5, <2>8, <2>9 DEF ParticipantsExact
  <2>11. \A t \in Sessions : InRoom(t)' => room'[t] \in DOMAIN rooms' /\ tx'[t] = rooms'[room'[t]].chan
    <3>1. CASE r \in DOMAIN rooms
      BY <1>0, <1>a, <2>1, <2>4, <2>5, <3>1 DEF RoomChannelShared, InRoom, TypeOK
    <3>2. CASE r \notin DOMAIN rooms
      BY <1>0, <1>a, <2>1, <2>4, <2>5, <3>2 DEF RoomChannelShared, InRoom, TypeOK
    <3> QED
      BY <3>1, <3>2
  <2>12. \A p, q \in DOMAIN rooms' : rooms'[p].chan = rooms'[q].chan => p = q
    <3>1. CASE r \in DOMAIN rooms
      BY <1>0, <2>4, <2>5, <3>1 DEF RoomChannelShared
    <3>2. CASE r \notin DOMAIN rooms
      BY <1>0, <2>2, <2>4, <2>5, <3>2 DEF RoomChannelShared, Unused
    <3> QED
      BY <3>1, <3>2
  <2> QED
    BY <2>5, <2>6, <2>7, <2>10, <2>11, <2>12 DEF RoomChannelShared
<1>2. CASE \E r \in Rooms :
              /\ LeaveRoom(s) /\ r = room[s] /\ s \in Members(r)
              /\ Members(r)' = Members(r) \ {s}
              /\ \A q \in Rooms \ {r} : Members(q)' = Members(q)
  <2> PICK r \in Rooms :
              /\ LeaveRoom(s) /\ r = room[s] /\ s \in Members(r)
              /\ Members(r)' = Members(r) \ {s}
              /\ \A q \in Rooms \ {r} : Members(q)' = Members(q)
    BY <1>2
  <2>1. /\ GcRoom(r) /\ ~InRoom(s)'
    BY <1>0 DEF LeaveRoom, Goto, TypeOK, InRoom
  <2>2. r \in DOMAIN rooms /\ rooms[r].participants = Cardinality(Members(r)) /\ rooms[r] \in Entry
    BY <1>0 DEF ParticipantsExact
  <2>3. /\ IsFiniteSet(Members(r)')
        /\ Cardinality(Members(r)') = rooms[r].participants - 1
        /\ Cardinality(Members(r)') \in Nat
    BY <1>0, <2>2, FS_RemoveElement, FS_CardinalityType
  <2>4. Cardinality(Members(r)') = 0 <=> Members(r)' = {}
    BY <2>3, FS_EmptySet
  <2>5. /\ DOMAIN rooms' = {p \in DOMAIN rooms : p # r \/ rooms[p].participants > 1}
        /\ r \in DOMAIN rooms' => rooms'[r] = [rooms[r] EXCEPT !.participants = @ - 1]
        /\ \A q \in DOMAIN rooms \ {r} : rooms'[q] = rooms[q]
        /\ rooms' = [q \in DOMAIN rooms' |-> rooms'[q]]
    BY <2>1 DEF GcRoom
  <2>6. r \in DOMAIN rooms' => /\ rooms'[r] \in Entry /\ rooms'[r].chan = rooms[r].chan
                             /\ rooms'[r].participants = rooms[r].participants - 1
    BY <2>2, <2>5
  <2>7. Typed'
    BY <1>0, <2>5, <2>6
  <2>8. RoomsFinite' /\ Capped'
    <3>1. DOMAIN rooms' \subseteq DOMAIN rooms
      BY <2>5
    <3>2. /\ IsFiniteSet(DOMAIN rooms')
          /\ Cardinality(DOMAIN rooms') <= Cardinality(DOMAIN rooms)
          /\ Cardinality(DOMAIN rooms') \in Nat /\ Cardinality(DOMAIN rooms) \in Nat
      BY <1>0, <3>1, FS_Subset, FS_CardinalityType DEF RoomsFinite
    <3> QED
      BY <1>0, <3>2 DEF RoomsFinite
  <2>9. r \in DOMAIN rooms' <=> Members(r)' # {}
    BY <2>2, <2>3, <2>4, <2>5
  <2>10. ParticipantsExact'
    <3> SUFFICES ASSUME NEW q \in Rooms
                 PROVE  /\ q \in DOMAIN rooms' <=> Members(q)' # {}
                        /\ q \in DOMAIN rooms' =>
                             rooms'[q].participants = Cardinality(Members(q)')
      BY DEF ParticipantsExact
    <3>1. CASE q = r
      BY <2>3, <2>6, <2>9, <3>1
    <3>2. CASE q # r
      BY <1>0, <2>5, <3>2 DEF ParticipantsExact
    <3> QED
      BY <3>1, <3>2
  <2>11. \A t \in Sessions : InRoom(t)' => room'[t] \in DOMAIN rooms' /\ tx'[t] = rooms'[room'[t]].chan
    <3> SUFFICES ASSUME NEW t \in Sessions, InRoom(t)'
                 PROVE  room'[t] \in DOMAIN rooms' /\ tx'[t] = rooms'[room'[t]].chan
      OBVIOUS
    <3>1. t # s /\ InRoom(t) /\ room'[t] = room[t] /\ tx'[t] = tx[t]
      BY <1>a, <2>1 DEF InRoom
    <3>2. room[t] \in DOMAIN rooms /\ tx[t] = rooms[room[t]].chan
      BY <1>0, <3>1 DEF RoomChannelShared
    <3>3. CASE room[t] = r
      <4>1. t \in Members(r)'
        BY <3>1, <3>3 DEF Members
      <4> QED
        BY <2>6, <2>9, <3>1, <3>2, <3>3, <4>1
    <3>4. CASE room[t] # r
      BY <2>5, <3>1, <3>2, <3>4
    <3> QED
      BY <3>3, <3>4
  <2>12. \A p, q \in DOMAIN rooms' : rooms'[p].chan = rooms'[q].chan => p = q
    <3>1. \A p \in DOMAIN rooms' : p \in DOMAIN rooms /\ rooms'[p].chan = rooms[p].chan
      BY <2>5, <2>6
    <3> QED
      BY <1>0, <3>1 DEF RoomChannelShared
  <2> QED
    BY <2>5, <2>7, <2>8, <2>10, <2>11, <2>12 DEF RoomChannelShared
<1>3. CASE /\ rooms' = rooms
           /\ \A t \in Sessions : InRoom(t)' <=> InRoom(t)
           /\ \A t \in Sessions : InRoom(t) => room'[t] = room[t] /\ tx'[t] = tx[t]
           /\ \A r \in Rooms : Members(r)' = Members(r)
  <2>1. RoomChannelShared'
    BY <1>0, <1>3 DEF RoomChannelShared
  <2> QED
    BY <1>0, <1>3, <2>1 DEF ParticipantsExact, RoomsFinite
<1> QED
  BY <1>0, <1>1, <1>2, <1>3, MembersStep

\* active_sessions counts what ServingStep says.
LEMMA ActiveInv ==
  ASSUME IInv, NEW s \in Sessions, SessionStep(s)
  PROVE  active' \in Nat /\ active' = Cardinality(Serving')
<1>1. TypeOK /\ active = Cardinality(Serving) /\ IsFiniteSet(Serving)
  BY SessionSetsFinite DEF IInv, CapsHold
<1>2. Cardinality(Serving) \in Nat
  BY <1>1, FS_CardinalityType
<1>3. CASE s \notin Serving /\ Serving' = Serving \cup {s} /\ active' = active + 1
  BY <1>1, <1>2, <1>3, FS_AddElement
<1>4. CASE s \in Serving /\ Serving' = Serving \ {s} /\ active' = active - 1
  <2>1. /\ IsFiniteSet(Serving \ {s})
        /\ Cardinality(Serving \ {s}) = Cardinality(Serving) - 1
    BY <1>1, <1>4, FS_RemoveElement
  <2>2. Cardinality(Serving \ {s}) \in Nat
    BY <2>1, FS_CardinalityType
  <2> QED
    BY <1>1, <1>4, <2>1, <2>2
<1>5. CASE Serving' = Serving /\ active' = active
  BY <1>1, <1>2, <1>5
<1> QED
  BY <1>1, <1>3, <1>4, <1>5, ServingStep

\* The per-session variables keep their types.
SessionTypes ==
  /\ pc \in [Sessions -> Phases]
  /\ ip \in [Sessions -> Addresses \cup {None}]
  /\ room \in [Sessions -> Rooms \cup {None}]
  /\ tx \in [Sessions -> Channels \cup {None}]
  /\ gone \in [Sessions -> BOOLEAN]

LEMMA SessionTypesInv ==
  ASSUME IInv, NEW s \in Sessions, SessionStep(s)
  PROVE  SessionTypes' /\ Placed'
<1> USE DEF SessionTypes, Placed, InRoom, Goto, Phases
<1>0. SessionTypes /\ Placed
  BY DEF IInv, TypeOK
<1>1. ASSUME NEW a \in Addresses, Incoming(s, a) PROVE SessionTypes' /\ Placed'
  BY <1>0, <1>1 DEF Incoming
<1>2. ASSUME NEW r \in Rooms, NEW valid \in BOOLEAN, Handshaken(s, r, valid)
      PROVE  SessionTypes' /\ Placed'
  BY <1>0, <1>2 DEF Handshaken
<1>3. CASE Refused(s)
  BY <1>0, <1>3 DEF Refused
<1>4. CASE HandshakeFailed(s) \/ RoomRejected(s)
  BY <1>0, <1>4 DEF HandshakeFailed, RoomRejected
<1>5. CASE JoinRoom(s)
  <2>1. tx' \in [Sessions -> Channels \cup {None}]
    <3> DEFINE fresh == CHOOSE c \in Channels : Unused(c)
               here  == IF room[s] \in DOMAIN rooms THEN rooms[room[s]]
                        ELSE [chan |-> fresh, participants |-> 0]
    <3>1. tx' = [tx EXCEPT ![s] = here.chan]
      BY <1>5 DEF JoinRoom
    <3>2. room[s] \notin DOMAIN rooms => fresh \in Channels
      BY <1>5 DEF JoinRoom
    <3> HIDE DEF fresh
    <3>3. here.chan \in Channels
      BY <3>2 DEF IInv, TypeOK
    <3> HIDE DEF here
    <3> QED
      BY <1>0, <3>1, <3>3
  <2>2. pc' = [pc EXCEPT ![s] = "joined"] /\ UNCHANGED <<ip, room, gone>> /\ pc[s] = "accepting"
    BY <1>5 DEF JoinRoom
  <2> QED
    BY <1>0, <2>1, <2>2
<1>6. CASE Serve(s) \/ ServeEnds(s)
  BY <1>0, <1>6 DEF Serve, ServeEnds
<1>7. CASE LeaveRoom(s)
  BY <1>0, <1>7 DEF LeaveRoom
<1>8. CASE Release(s)
  BY <1>0, <1>8 DEF Release
<1>9. CASE PeerGone(s)
  BY <1>0, <1>9 DEF PeerGone
<1> QED
  BY <1>1, <1>2, <1>3, <1>4, <1>5, <1>6, <1>7, <1>8, <1>9 DEF SessionStep, Step

LEMMA StepInv == IInv /\ [Next]_vars => IInv'
<1> SUFFICES ASSUME IInv, [Next]_vars PROVE IInv'
  OBVIOUS
<1>1. ASSUME NEW s \in Sessions, SessionStep(s) PROVE IInv'
  <2>1. SessionTypes' /\ Placed'
    BY <1>1, SessionTypesInv
  <2>2. TypeOK'
    BY <1>1, <2>1, SlotsInv, RoomsInv, ActiveInv DEF TypeOK, SessionTypes
  <2>3. CapsHold'
    BY <1>1, RoomsInv, ActiveInv DEF CapsHold
  <2> QED
    BY <1>1, <2>1, <2>2, <2>3, SlotsInv, RoomsInv DEF IInv
<1>2. CASE UNCHANGED vars
  <2>1. TypeOK' /\ Placed' /\ RoomsFinite'
    BY <1>2 DEF vars, IInv, TypeOK, Placed, InRoom, RoomsFinite
  <2>2. /\ \A a : SlotsOf(a)' = SlotsOf(a) /\ Count(a)' = Count(a)
        /\ \A r : Members(r)' = Members(r)
        /\ Serving' = Serving
    BY <1>2 DEF vars, SlotsOf, HasSlot, Count, Members, InRoom, Serving
  <2>3. AddressSlotsExact' /\ ParticipantsExact'
    BY <1>2, <2>2 DEF vars, IInv, AddressSlotsExact, ParticipantsExact
  <2>4. RoomChannelShared' /\ CapsHold'
    BY <1>2, <2>2 DEF vars, IInv, RoomChannelShared, InRoom, CapsHold
  <2> QED
    BY <2>1, <2>3, <2>4 DEF IInv
<1> QED
  BY <1>1, <1>2, NextSplit

\* Every reachable state satisfies the invariant.
THEOREM Inductive == Spec => []IInv
<1>1. Init => IInv
  BY InitInv
<1>2. IInv /\ [Next]_vars => IInv'
  BY StepInv
<1> QED
  BY <1>1, <1>2, PTL DEF Spec

\* The relay's maps and counters have their types in every reachable state, so
\* no count ever goes below zero or above an address's cap.
THEOREM TypeCorrect == Spec => []TypeOK
<1>1. IInv => TypeOK
  BY DEF IInv
<1> QED
  BY <1>1, Inductive, PTL

\* register_ip_session and deregister_ip_session balance on every path a session
\* can take: the per-address map counts the sessions that hold a slot.
THEOREM SlotsBalance == Spec => []AddressSlotsExact
<1>1. IInv => AddressSlotsExact
  BY DEF IInv
<1> QED
  BY <1>1, Inductive, PTL

\* No interleaving of joins with the last participant's gc_room loses a room or
\* splits it over two channels: rooms are exactly the sessions in them, and all
\* of these hold the room's channel.
THEOREM RoomsKept == Spec => [](ParticipantsExact /\ RoomChannelShared)
<1>1. IInv => ParticipantsExact /\ RoomChannelShared
  BY DEF IInv
<1> QED
  BY <1>1, Inductive, PTL

\* The rooms map stays within its cap and active_sessions is what it says,
\* although the session cap that reads it may be overshot.
THEOREM CapsKept == Spec => []CapsHold
<1>1. IInv => CapsHold
  BY DEF IInv
<1> QED
  BY <1>1, Inductive, PTL
=============================================================================
