------------------------------ MODULE WtRelay ------------------------------
(***************************************************************************)
(* The session tasks of relay-rs (relay-rs/src/main.rs): one tokio task    *)
(* per incoming WebTransport session, which takes a slot of its address,   *)
(* shakes hands, passes the session cap, joins a room and gives everything *)
(* back when its peer is gone.  The tasks run on several threads and       *)
(* interleave wherever one awaits or takes a lock: pc[s] names the places  *)
(* where a task can be overtaken.                                          *)
(*                                                                         *)
(* What a session does with the room's channel while it serves is RoomFeed.*)
(***************************************************************************)
EXTENDS Integers, FiniteSets

CONSTANTS
  Sessions,           \* task slots; a slot is used again after its task ended
  Addresses,          \* remote IP addresses
  Rooms,              \* room names
  Channels,           \* identities of broadcast channels
  None,               \* no address, room or channel
  MaxRooms,           \* limits.max_rooms
  MaxSessions,        \* limits.max_sessions
  MaxSessionsPerIp    \* limits.max_sessions_per_ip

ASSUME WtAssumption ==
  /\ IsFiniteSet(Sessions)
  /\ None \notin Addresses \cup Rooms \cup Channels
  /\ MaxRooms \in Nat /\ MaxSessions \in Nat
  /\ MaxSessionsPerIp \in Nat \ {0}

VARIABLES
  pc,          \* where the session's task is
  ip,          \* peer_ip
  room,        \* the room of the request path
  tx,          \* the sender cloned from the room
  gone,        \* the peer has disconnected
  ipSessions,  \* the per-address map: address -> count
  rooms,       \* the rooms map: name -> its channel and participants
  active       \* metrics.active_sessions

vars == <<pc, ip, room, tx, gone, ipSessions, rooms, active>>

Empty == [x \in {} |-> x]

\* "refused": over the address's cap, and still owed an answer;
\* "handshake": in incoming.await;  "accepting": past the session cap, in
\* request.accept or waiting for the rooms lock;  "joined": in the room, not yet
\* counted;  "leaving": no longer counted, before gc_room;  "releasing": before
\* deregister_ip_session.
Phases == {"absent", "refused", "handshake", "accepting", "joined", "serving",
           "leaving", "releasing"}

HasSlot(s) == pc[s] \notin {"absent", "refused"}
InRoom(s)  == pc[s] \in {"joined", "serving", "leaving"}

Members(r)   == {s \in Sessions : InRoom(s) /\ room[s] = r}
SlotsOf(a)   == {s \in Sessions : HasSlot(s) /\ ip[s] = a}
Serving      == {s \in Sessions : pc[s] = "serving"}

TypeOK ==
  /\ pc \in [Sessions -> Phases]
  /\ ip \in [Sessions -> Addresses \cup {None}]
  /\ room \in [Sessions -> Rooms \cup {None}]
  /\ tx \in [Sessions -> Channels \cup {None}]
  /\ gone \in [Sessions -> BOOLEAN]
  /\ DOMAIN ipSessions \subseteq Addresses
  /\ ipSessions \in [DOMAIN ipSessions -> 1..MaxSessionsPerIp]
  /\ DOMAIN rooms \subseteq Rooms
  /\ rooms \in [DOMAIN rooms -> [chan : Channels, participants : Nat]]
  /\ active \in Nat

Init ==
  /\ pc = [s \in Sessions |-> "absent"]
  /\ ip = [s \in Sessions |-> None]
  /\ room = [s \in Sessions |-> None]
  /\ tx = [s \in Sessions |-> None]
  /\ gone = [s \in Sessions |-> FALSE]
  /\ ipSessions = Empty /\ rooms = Empty
  /\ active = 0

Goto(s, label) == pc' = [pc EXCEPT ![s] = label]

-----------------------------------------------------------------------------
(* The per-address map *)

Count(a) == IF a \in DOMAIN ipSessions THEN ipSessions[a] ELSE 0

RegisterIpSession(a) ==
  ipSessions' = [b \in DOMAIN ipSessions \cup {a} |->
                   IF b = a THEN Count(a) + 1 ELSE ipSessions[b]]

\* Mutation of DeregisterIpSession: the address is forgotten with its first session.
DeregisterWholeAddress(a) ==
  ipSessions' = [b \in DOMAIN ipSessions \ {a} |-> ipSessions[b]]

\* The address goes from the map with its last session.
DeregisterIpSession(a) ==
  ipSessions' = [b \in {c \in DOMAIN ipSessions : c # a \/ ipSessions[c] > 1} |->
                   IF b = a THEN ipSessions[b] - 1 ELSE ipSessions[b]]

-----------------------------------------------------------------------------
(* A session, from the incoming connection to the room *)

\* Mutation of HasAddressSlot: off by one.
HasOneMoreAddressSlot(a) == Count(a) <= MaxSessionsPerIp

HasAddressSlot(a) == Count(a) < MaxSessionsPerIp

\* A session comes in from an address and takes a slot, if there is one.
Incoming(s, a) ==
  /\ pc[s] = "absent"
  /\ ip' = [ip EXCEPT ![s] = a]
  /\ IF HasAddressSlot(a)
     THEN RegisterIpSession(a) /\ Goto(s, "handshake")
     ELSE UNCHANGED ipSessions /\ Goto(s, "refused")
  /\ UNCHANGED <<room, tx, gone, rooms, active>>

\* The refused session has shaken hands for its 429, or has given up.
Refused(s) ==
  /\ pc[s] = "refused"
  /\ Goto(s, "absent")
  /\ ip' = [ip EXCEPT ![s] = None]
  /\ gone' = [gone EXCEPT ![s] = FALSE]
  /\ UNCHANGED <<room, tx, ipSessions, rooms, active>>

WithinSessionCap == active < MaxSessions

\* incoming.await returns a request.  `valid` stands for its path, token and
\* role; the session cap is read in the same step, and nothing is reserved.
Handshaken(s, r, valid) ==
  /\ pc[s] = "handshake"
  /\ IF valid /\ WithinSessionCap
     THEN room' = [room EXCEPT ![s] = r] /\ Goto(s, "accepting")
     ELSE Goto(s, "releasing") /\ UNCHANGED room
  /\ UNCHANGED <<ip, tx, gone, ipSessions, rooms, active>>

\* Mutation of HandshakeFailed: a failed incoming.await ends the task.
AcceptFailedOnly(s) ==
  /\ pc[s] = "accepting" /\ gone[s]
  /\ Goto(s, "releasing")
  /\ room' = [room EXCEPT ![s] = None]
  /\ UNCHANGED <<ip, tx, gone, ipSessions, rooms, active>>

\* incoming.await or request.accept fails.
HandshakeFailed(s) ==
  /\ pc[s] \in {"handshake", "accepting"} /\ gone[s]
  /\ Goto(s, "releasing")
  /\ room' = [room EXCEPT ![s] = None]
  /\ UNCHANGED <<ip, tx, gone, ipSessions, rooms, active>>

\* Mutation of RoomAdmits: off by one.
RoomAdmitsOneMore(r) == r \in DOMAIN rooms \/ Cardinality(DOMAIN rooms) <= MaxRooms

RoomAdmits(r) == r \in DOMAIN rooms \/ Cardinality(DOMAIN rooms) < MaxRooms

Unused(c) == /\ \A r \in DOMAIN rooms : rooms[r].chan # c
             /\ \A s \in Sessions : tx[s] # c

\* The block under the rooms lock: the room is created with a new channel when
\* it does not exist, and its sender is cloned.  Any unused identity will do.
JoinRoom(s) ==
  /\ pc[s] = "accepting" /\ RoomAdmits(room[s])
  /\ room[s] \notin DOMAIN rooms => \E c \in Channels : Unused(c)
  /\ LET r    == room[s]
         here == IF r \in DOMAIN rooms THEN rooms[r]
                 ELSE [chan |-> CHOOSE c \in Channels : Unused(c), participants |-> 0]
     IN  /\ tx' = [tx EXCEPT ![s] = here.chan]
         /\ rooms' = [q \in DOMAIN rooms \cup {r} |->
                        IF q = r THEN [here EXCEPT !.participants = @ + 1] ELSE rooms[q]]
  /\ Goto(s, "joined")
  /\ UNCHANGED <<ip, room, gone, ipSessions, active>>

\* The room cap refuses a new room, and the accepted connection is closed.
RoomRejected(s) ==
  /\ pc[s] = "accepting" /\ ~RoomAdmits(room[s])
  /\ Goto(s, "releasing")
  /\ room' = [room EXCEPT ![s] = None]
  /\ UNCHANGED <<ip, tx, gone, ipSessions, rooms, active>>

-----------------------------------------------------------------------------
(* Serving, and giving everything back *)

Serve(s) ==
  /\ pc[s] = "joined"
  /\ active' = active + 1
  /\ Goto(s, "serving")
  /\ UNCHANGED <<ip, room, tx, gone, ipSessions, rooms>>

\* Mutation of ServeEnds: the counter is left as it is.
ServeEndsUncounted(s) ==
  /\ pc[s] = "serving" /\ gone[s]
  /\ Goto(s, "leaving")
  /\ UNCHANGED <<ip, room, tx, gone, ipSessions, rooms, active>>

\* The publisher's or the subscriber's loop ends: only the peer can end it,
\* since the session's own sender keeps the channel open.
ServeEnds(s) ==
  /\ pc[s] = "serving" /\ gone[s]
  /\ active' = active - 1
  /\ Goto(s, "leaving")
  /\ UNCHANGED <<ip, room, tx, gone, ipSessions, rooms>>

\* Mutation of GcRoom: the room goes while one participant is left.
GcRoomEarly(r) ==
  rooms' = [q \in {p \in DOMAIN rooms : p # r \/ rooms[p].participants > 2} |->
              IF q = r THEN [rooms[q] EXCEPT !.participants = @ - 1] ELSE rooms[q]]

\* gc_room: the room goes with its last participant.
GcRoom(r) ==
  rooms' = [q \in {p \in DOMAIN rooms : p # r \/ rooms[p].participants > 1} |->
              IF q = r THEN [rooms[q] EXCEPT !.participants = @ - 1] ELSE rooms[q]]

LeaveRoom(s) ==
  /\ pc[s] = "leaving"
  /\ GcRoom(room[s])
  /\ room' = [room EXCEPT ![s] = None]
  /\ tx' = [tx EXCEPT ![s] = None]
  /\ Goto(s, "releasing")
  /\ UNCHANGED <<ip, gone, ipSessions, active>>

\* handle_session's last step, whatever serve_session returned.
Release(s) ==
  /\ pc[s] = "releasing"
  /\ DeregisterIpSession(ip[s])
  /\ Goto(s, "absent")
  /\ ip' = [ip EXCEPT ![s] = None]
  /\ gone' = [gone EXCEPT ![s] = FALSE]
  /\ UNCHANGED <<room, tx, rooms, active>>

\* The peer closes, or its connection is lost.
PeerGone(s) ==
  /\ pc[s] # "absent" /\ ~gone[s]
  /\ gone' = [gone EXCEPT ![s] = TRUE]
  /\ UNCHANGED <<pc, ip, room, tx, ipSessions, rooms, active>>

-----------------------------------------------------------------------------

\* What the relay does of its own once it can.
Step(s) ==
  \/ Refused(s) \/ HandshakeFailed(s) \/ JoinRoom(s) \/ RoomRejected(s)
  \/ Serve(s) \/ ServeEnds(s) \/ LeaveRoom(s) \/ Release(s)

Next ==
  \E s \in Sessions :
    \/ \E a \in Addresses : Incoming(s, a)
    \/ \E r \in Rooms, valid \in BOOLEAN : Handshaken(s, r, valid)
    \/ Step(s) \/ PeerGone(s)

\* tokio polls every task that can go on; peers are free to stay for ever.
Fairness == \A s \in Sessions : WF_vars(Step(s))

Spec == Init /\ [][Next]_vars /\ Fairness

-----------------------------------------------------------------------------

\* The per-address map counts exactly the sessions of an address that were let
\* in, on every path through serve_session, and has no entry for any other; so
\* no address ever holds more than its cap ("Always release the per-IP slot,
\* whatever the session does next", main.rs 279).
AddressSlotsExact ==
  \A a \in Addresses :
    /\ Count(a) = Cardinality(SlotsOf(a))
    /\ a \in DOMAIN ipSessions <=> SlotsOf(a) # {}

\* A room is in the map as long as a session is in it, and counts its sessions:
\* a session that enters while the last one leaves loses neither room nor count.
ParticipantsExact ==
  \A r \in Rooms :
    /\ r \in DOMAIN rooms <=> Members(r) # {}
    /\ r \in DOMAIN rooms => rooms[r].participants = Cardinality(Members(r))

\* Everyone in a room talks over one channel, the one newcomers will get; no two
\* rooms share one.
RoomChannelShared ==
  /\ \A s \in Sessions : InRoom(s) => room[s] \in DOMAIN rooms /\ tx[s] = rooms[room[s]].chan
  /\ \A q, r \in DOMAIN rooms : rooms[q].chan = rooms[r].chan => q = r

\* The rooms map never outgrows its cap, and active_sessions counts the sessions
\* being served: it cannot wrap below zero.
CapsHold ==
  /\ Cardinality(DOMAIN rooms) <= MaxRooms
  /\ active = Cardinality(Serving)

\* A session whose peer is gone gives back its room, its count and its slot.
GoneSessionsEnd == \A s \in Sessions : gone[s] ~> pc[s] = "absent"

\* main.rs 317: "Concurrent-session cap across the whole relay."
SessionCap == active <= MaxSessions
=============================================================================
