------------------------------ MODULE WsRelay ------------------------------
(***************************************************************************)
(* The sockets of relay-node (relay-node/server.mjs): who is admitted to   *)
(* which room, the fan-out with its backpressure limit, the heartbeat that *)
(* finds dead peers, leaving, and shutdown.  The pairing-token store it    *)
(* consults is PairingTokens.                                              *)
(*                                                                         *)
(* One event loop: each handler is a step.  Between the steps lie the ws   *)
(* library's send queues, the network and the peers, which may read slowly *)
(* or vanish without closing.  A queue is a number of units of data and,   *)
(* if a ping is waiting in it, the units ahead of the ping; control frames *)
(* themselves take no room.                                                *)
(***************************************************************************)
EXTENDS PairingTokens

CONSTANTS
  Sockets,      \* connection slots; a slot is used again after it closed
  MaxFrame,     \* MAX_FRAME_BYTES, in units
  MaxBuffered   \* MAX_BUFFERED_BYTES, in units

ASSUME SocketAssumption ==
  /\ MaxFrame \in Nat \ {0}
  /\ MaxBuffered \in Nat

VARIABLES
  phase,     \* the socket's readyState, "destroyed" between terminate and 'close'
  at,        \* ws.minamo.room
  stranger,  \* history: it was admitted without any token
  buffered,  \* ws.bufferedAmount
  pingAt,    \* units ahead of an undelivered ping, or NoPing
  isAlive,   \* ws.isAlive
  peerUp,    \* the peer still answers
  rooms,     \* room -> its sockets
  server     \* "running", "stopping" or "exited"

socketVars == <<phase, at, stranger, buffered, pingAt, isAlive, peerUp, rooms, server>>
vars == <<storeVars, socketVars>>

NoPing == -1
Phases == {"absent", "open", "closing", "destroyed"}

\* wss.clients: a socket stays in it until its 'close' event.
WssClients == {s \in Sockets : phase[s] # "absent"}

TypeOK ==
  /\ StoreTypeOK
  /\ phase \in [Sockets -> Phases]
  /\ at \in [Sockets -> Rooms \cup {NoRoom}]
  /\ stranger \in [Sockets -> BOOLEAN]
  /\ buffered \in [Sockets -> Nat]
  /\ pingAt \in [Sockets -> Nat \cup {NoPing}]
  /\ isAlive \in [Sockets -> BOOLEAN] /\ peerUp \in [Sockets -> BOOLEAN]
  /\ DOMAIN rooms \subseteq Rooms /\ rooms \in [DOMAIN rooms -> SUBSET Sockets]
  /\ server \in {"running", "stopping", "exited"}

Init ==
  /\ StoreInit
  /\ phase = [s \in Sockets |-> "absent"]
  /\ at = [s \in Sockets |-> NoRoom]
  /\ stranger = [s \in Sockets |-> FALSE]
  /\ buffered = [s \in Sockets |-> 0]
  /\ pingAt = [s \in Sockets |-> NoPing]
  /\ isAlive = [s \in Sockets |-> FALSE]
  /\ peerUp = [s \in Sockets |-> FALSE]
  /\ rooms = Empty
  /\ server = "running"

-----------------------------------------------------------------------------
(* Joining and leaving *)

RoomOf(r) == IF r \in DOMAIN rooms THEN rooms[r] ELSE {}

Joined(s, r) ==
  rooms' = [q \in DOMAIN rooms \cup {r} |-> IF q = r THEN RoomOf(r) \cup {s} ELSE rooms[q]]

\* Mutation of LeaveRoom: a room that became empty stays in the map.
LeaveRoomKeepingEmpty(s) ==
  rooms' = [r \in DOMAIN rooms |-> rooms[r] \ (IF r = at[s] THEN {s} ELSE {})]

\* Mutation of LeaveRoom: a socket that never joined leaves a room of its own.
LeaveRoomUnguarded(s) == rooms' = [r \in DOMAIN rooms \cup {at[s]} |-> RoomOf(r) \ {s}]

\* leaveRoom: the room goes with its last socket.
LeaveRoom(s) ==
  rooms' = [r \in {q \in DOMAIN rooms : q # at[s] \/ rooms[q] # {s}} |-> rooms[r] \ {s}]

\* An upgrade request for the room with a token, or with none.  `wellFormed`
\* stands for the room name, the origin, the role and the participant id.  A
\* socket that is turned away has to go through the close handshake.
Connect(s, room, tok, wellFormed) ==
  /\ server = "running" /\ phase[s] = "absent"
  /\ isAlive' = [isAlive EXCEPT ![s] = TRUE]
  /\ peerUp' = [peerUp EXCEPT ![s] = TRUE]
  /\ IF wellFormed /\ AuthorizeRoomToken(room, tok)
     THEN /\ phase' = [phase EXCEPT ![s] = "open"]
          /\ at' = [at EXCEPT ![s] = room]
          /\ stranger' = [stranger EXCEPT ![s] = tok = NoToken]
          /\ Joined(s, room)
     ELSE /\ phase' = [phase EXCEPT ![s] = "closing"]
          /\ UNCHANGED <<at, stranger, rooms>>
  /\ UNCHANGED <<storeVars, buffered, pingAt, server>>

\* The 'close' event: the peer closed, the close handshake ended, or the
\* server destroyed the connection.
Closed(s) ==
  /\ \/ phase[s] = "destroyed"
     \/ phase[s] \in {"open", "closing"} /\ peerUp[s]
  /\ phase' = [phase EXCEPT ![s] = "absent"]
  /\ LeaveRoom(s)
  /\ at' = [at EXCEPT ![s] = NoRoom]
  /\ stranger' = [stranger EXCEPT ![s] = FALSE]
  /\ buffered' = [buffered EXCEPT ![s] = 0]
  /\ pingAt' = [pingAt EXCEPT ![s] = NoPing]
  /\ isAlive' = [isAlive EXCEPT ![s] = FALSE]
  /\ peerUp' = [peerUp EXCEPT ![s] = FALSE]
  /\ UNCHANGED <<storeVars, server>>

-----------------------------------------------------------------------------
(* Fan-out *)

\* Mutation of WithinBackpressureLimit: a slow reader's queue grows freely.
WithoutBackpressureLimit(s) == buffered[s] >= 0

WithinBackpressureLimit(s) == buffered[s] <= MaxBuffered

\* A frame from a socket in a room, of either role, goes to every other open
\* socket there whose queue is not backed up.
Message(s, size) ==
  /\ phase[s] \in {"open", "closing"} /\ peerUp[s]
  /\ at[s] # NoRoom
  /\ buffered' = [p \in Sockets |->
                    IF /\ p \in RoomOf(at[s]) \ {s}
                       /\ phase[p] = "open"
                       /\ WithinBackpressureLimit(p)
                    THEN buffered[p] + size ELSE buffered[p]]
  /\ UNCHANGED <<storeVars, phase, at, stranger, pingAt, isAlive, peerUp, rooms, server>>

\* The peer reads a unit of its queue.
Drain(s) ==
  /\ phase[s] \in {"open", "closing"} /\ peerUp[s]
  /\ buffered[s] > 0
  /\ buffered' = [buffered EXCEPT ![s] = @ - 1]
  /\ pingAt' = [pingAt EXCEPT ![s] = IF @ > 0 THEN @ - 1 ELSE @]
  /\ UNCHANGED <<storeVars, phase, at, stranger, isAlive, peerUp, rooms, server>>

-----------------------------------------------------------------------------
(* Heartbeat *)

\* Mutation of Beat: isAlive is not cleared when the ping is sent.
BeatWithoutClearing ==
  /\ server = "running"
  /\ phase' = [s \in Sockets |-> IF s \in WssClients /\ ~isAlive[s]
                                 THEN "destroyed" ELSE phase[s]]
  /\ pingAt' = [s \in Sockets |-> IF /\ phase[s] = "open" /\ isAlive[s]
                                     /\ pingAt[s] = NoPing
                                  THEN buffered[s] ELSE pingAt[s]]
  /\ UNCHANGED <<storeVars, at, stranger, buffered, isAlive, peerUp, rooms, server>>

\* Every 30 s: a socket that has not answered the last ping is terminated, any
\* other is pinged; the ping waits behind the data queued for the socket.
Beat ==
  /\ server = "running"
  /\ phase' = [s \in Sockets |-> IF s \in WssClients /\ ~isAlive[s]
                                 THEN "destroyed" ELSE phase[s]]
  /\ isAlive' = [s \in Sockets |-> FALSE]
  /\ pingAt' = [s \in Sockets |-> IF /\ phase[s] = "open" /\ isAlive[s]
                                     /\ pingAt[s] = NoPing
                                  THEN buffered[s] ELSE pingAt[s]]
  /\ UNCHANGED <<storeVars, at, stranger, buffered, peerUp, rooms, server>>

\* The peer has received the ping, and its pong is back.
Pong(s) ==
  /\ phase[s] \in {"open", "closing"} /\ peerUp[s]
  /\ pingAt[s] = 0
  /\ pingAt' = [pingAt EXCEPT ![s] = NoPing]
  /\ isAlive' = [isAlive EXCEPT ![s] = TRUE]
  /\ UNCHANGED <<storeVars, phase, at, stranger, buffered, peerUp, rooms, server>>

\* The peer vanishes without closing the connection.
GoSilent(s) ==
  /\ phase[s] \in {"open", "closing"} /\ peerUp[s]
  /\ peerUp' = [peerUp EXCEPT ![s] = FALSE]
  /\ UNCHANGED <<storeVars, phase, at, stranger, buffered, pingAt, isAlive, rooms, server>>

-----------------------------------------------------------------------------
(* Shutdown, and the requests that change the token store *)

\* SIGTERM: both intervals stop, every socket gets a close frame, and no new
\* one is accepted.
Shutdown ==
  /\ server = "running"
  /\ server' = "stopping"
  /\ phase' = [s \in Sockets |-> IF phase[s] = "open" THEN "closing" ELSE phase[s]]
  /\ UNCHANGED <<storeVars, at, stranger, buffered, pingAt, isAlive, peerUp, rooms>>

Exit ==
  /\ server = "stopping"
  /\ server' = "exited"
  /\ phase' = [s \in Sockets |-> "absent"]
  /\ at' = [s \in Sockets |-> NoRoom] /\ rooms' = Empty
  /\ stranger' = [s \in Sockets |-> FALSE]
  /\ buffered' = [s \in Sockets |-> 0] /\ pingAt' = [s \in Sockets |-> NoPing]
  /\ isAlive' = [s \in Sockets |-> FALSE] /\ peerUp' = [s \in Sockets |-> FALSE]
  /\ UNCHANGED storeVars

\* The last socket closed: wss.close and then http.close call back.
CleanExit == WssClients = {} /\ Exit

\* Mutation of ForcedExit: the timer waits for the sockets as well.
ForcedExitWhenEmpty == WssClients = {} /\ Exit

\* The two-second timer: the process ends whatever the peers do.
ForcedExit == WssClients # {} /\ Exit

StoreRequest ==
  /\ server # "exited"
  /\ \/ /\ issued # Tokens
        /\ \E c \in Clients, room \in Rooms, ttl \in RequestedTtls,
              previous \in DOMAIN tokens \cup {NoToken} :
             PostToken(c, room, ttl, previous, CHOOSE t \in Tokens : t \notin issued)
     \/ \E c \in Clients : PostRefused(c)
     \/ \E t \in DOMAIN tokens : DeleteToken(t, tokens[t].room)
  /\ UNCHANGED socketVars

PurgeTimer == server = "running" /\ Purge /\ UNCHANGED socketVars

Next ==
  \/ \E s \in Sockets : 
       \/ \E room \in Rooms, tok \in Tokens \cup {NoToken, StaticToken}, ok \in BOOLEAN :
            Connect(s, room, tok, ok)
       \/ \E size \in 1..MaxFrame : Message(s, size)
       \/ Closed(s) \/ Drain(s) \/ Pong(s) \/ GoSilent(s)
  \/ Beat \/ Shutdown \/ CleanExit \/ ForcedExit
  \/ StoreRequest \/ PurgeTimer \/ (Tick /\ UNCHANGED socketVars)

\* The heartbeat and the shutdown timer fire, and a destroyed connection
\* reports its 'close'.  Peers owe nothing: they may neither read nor close.
Fairness ==
  /\ WF_vars(Beat)
  /\ WF_vars(ForcedExit) /\ WF_vars(CleanExit)
  /\ \A s \in Sockets : WF_vars(phase[s] = "destroyed" /\ Closed(s))

Spec == Init /\ [][Next]_vars /\ Fairness

-----------------------------------------------------------------------------

\* The rooms map holds exactly the sockets that were admitted and whose 'close'
\* has not fired, and no empty room, whether they left, were terminated by the
\* heartbeat or are being shut down (connection and close handlers, leaveRoom).
RoomIndexExact ==
  /\ \A s \in Sockets, r \in Rooms : s \in RoomOf(r) <=> at[s] = r
  /\ \A r \in DOMAIN rooms : rooms[r] # {}
  /\ \A s \in Sockets : at[s] # NoRoom => s \in WssClients

\* A subscriber that reads slowly or not at all holds at most one frame more
\* than the backpressure limit, however many publishers share its room.
SendQueueBound == \A s \in Sockets : buffered[s] <= MaxBuffered + MaxFrame

Strangers(r) == {s \in RoomOf(r) : stranger[s]}

\* While a token of a room can be redeemed, no socket enters the room without
\* one: minting closes a room at once, and it stays closed through purges,
\* revocations of other tokens and reconnects.
ClosedRoomGainsNoStranger ==
  [][\A r \in Rooms : (\E t \in Tokens : Live(t) /\ tokens[t].room = r)
                        => Strangers(r)' \subseteq Strangers(r)]_vars

\* A peer that vanished is out of its room in the end: two heartbeats, or the
\* process's exit, see to it ("drop dead sockets so rooms do not leak",
\* server.mjs 154).
DeadPeersLeave ==
  \A s \in Sockets : (at[s] # NoRoom /\ ~peerUp[s]) ~> at[s] = NoRoom

\* Once asked to stop, the process ends, even if no peer answers the close.
ShutdownEnds == server = "stopping" ~> server = "exited"
=============================================================================
