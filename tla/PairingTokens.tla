--------------------------- MODULE PairingTokens ---------------------------
(***************************************************************************)
(* The pairing-token store of relay-node (relay-node/server.mjs): tokens   *)
(* minted for one room with a lifetime, their revocation, the periodic     *)
(* purge, the fixed-window limiter in front of minting, and the decision   *)
(* whether a socket may enter a room.                                      *)
(*                                                                         *)
(* The store is driven by HTTP handlers and a timer of one event loop:     *)
(* each handler is one step.  This module gives the store's state and its  *)
(* steps; PairingPanel drives them from the desktop's pairing panel, and   *)
(* WsRelay uses them to admit sockets.                                     *)
(***************************************************************************)
EXTENDS Integers, FiniteSets

CONSTANTS
  Rooms,            \* room names
  Tokens,           \* opaque tokens; each is drawn at most once (24 random bytes)
  Clients,          \* remote addresses that mint tokens: the limiter's keys
  NoRoom, NoToken,  \* the empty string in a request's room or token
  StaticToken,      \* MINAMO_RELAY_TOKEN
  HasStaticToken,   \* whether the relay was started with one
  RequestedTtls,    \* lifetimes a request may ask for
  MinTtl, MaxTtl,   \* PAIRING_TOKEN_MIN/MAX_TTL_SECONDS
  MintLimit,        \* MINAMO_PAIRING_RATE_LIMIT
  MintWindow,       \* MINAMO_PAIRING_RATE_WINDOW_MS
  MaxTime           \* bound of the model: the clock stops here

ASSUME StoreAssumption ==
  /\ NoRoom \notin Rooms
  /\ NoToken \notin Tokens
  /\ StaticToken \notin Tokens \cup {NoToken}
  /\ HasStaticToken \in BOOLEAN
  /\ RequestedTtls \subseteq Nat
  /\ MinTtl \in Nat \ {0} /\ MaxTtl \in Nat /\ MinTtl <= MaxTtl
  /\ MintLimit \in Nat \ {0} /\ MintWindow \in Nat \ {0}
  /\ MaxTime \in Nat

VARIABLES
  tokens,          \* store.tokens: stored token -> its record
  protectedRooms,  \* store.protectedRooms
  hits,            \* the limiter's map: client -> open window
  now,             \* Date.now()
  issued,          \* history: every token ever minted
  mintLog          \* history: token -> who minted it and when, since the relay started

storeVars == <<tokens, protectedRooms, hits, now, issued, mintLog>>

TokenRecord == [room : Rooms, expiresAt : Nat, revoked : BOOLEAN]

StoreTypeOK ==
  /\ DOMAIN tokens \subseteq Tokens
  /\ tokens \in [DOMAIN tokens -> TokenRecord]
  /\ protectedRooms \subseteq Rooms
  /\ DOMAIN hits \subseteq Clients
  /\ hits \in [DOMAIN hits -> [count : 1..MintLimit, resetAt : Nat]]
  /\ now \in Nat
  /\ issued \subseteq Tokens
  /\ DOMAIN mintLog \subseteq issued
  /\ mintLog \in [DOMAIN mintLog -> [client : Clients, at : Nat]]

Empty == [x \in {} |-> x]

StoreInit ==
  /\ tokens = Empty /\ protectedRooms = {} /\ hits = Empty
  /\ now = 0 /\ issued = {} /\ mintLog = Empty

-----------------------------------------------------------------------------
(* Reading the store *)

Expired(t) == now >= tokens[t].expiresAt

Live(t) == t \in DOMAIN tokens /\ ~tokens[t].revoked /\ ~Expired(t)

ValidatePairingToken(room, t) == Live(t) /\ tokens[t].room = room

\* May a socket that presents tok enter the room?
AuthorizeRoomToken(room, tok) ==
  \/ HasStaticToken /\ tok = StaticToken
  \/ /\ room \in protectedRooms \/ tok # NoToken
     /\ ValidatePairingToken(room, tok)
  \/ /\ room \notin protectedRooms /\ tok = NoToken
     /\ ~HasStaticToken

-----------------------------------------------------------------------------
(* The limiter: a window opens with the first request after the last one    *)
(* closed, and admits MintLimit requests.                                   *)

WindowClosed(c) == c \notin DOMAIN hits \/ now >= hits[c].resetAt

\* Mutation of LimiterAllows: off by one.
LimiterAllowsOneMore(c) == ~WindowClosed(c) => hits[c].count <= MintLimit

LimiterAllows(c) == ~WindowClosed(c) => hits[c].count < MintLimit

CountRequest(c) ==
  hits' = [k \in DOMAIN hits \cup {c} |->
             IF k # c THEN hits[k]
             ELSE IF WindowClosed(c)
                  THEN [count |-> 1, resetAt |-> now + MintWindow]
                  ELSE [hits[c] EXCEPT !.count = @ + 1]]

-----------------------------------------------------------------------------
(* Changing the store *)

NormalizeTtl(ttl) ==
  IF ttl < MinTtl THEN MinTtl ELSE IF ttl > MaxTtl THEN MaxTtl ELSE ttl

\* revokePairingToken finds the token, and its room is the one asked for.
Revocable(t, room) == t \in DOMAIN tokens /\ room \in {NoRoom, tokens[t].room}

WithRevoked(t, room) ==
  [u \in DOMAIN tokens |->
     IF u = t /\ Revocable(t, room) THEN [tokens[u] EXCEPT !.revoked = TRUE]
                                    ELSE tokens[u]]

\* Mutation of IssuePairingToken: the room is not recorded as protected.
IssueWithoutProtecting(room, ttl, previous, t) ==
  /\ tokens' = [u \in DOMAIN tokens \cup {t} |->
                  IF u = t THEN [room |-> room, revoked |-> FALSE,
                                 expiresAt |-> now + NormalizeTtl(ttl)]
                           ELSE WithRevoked(previous, room)[u]]
  /\ UNCHANGED protectedRooms

\* Mutation of IssuePairingToken: the previous token is not revoked.
IssueWithoutRevoking(room, ttl, previous, t) ==
  /\ tokens' = [u \in DOMAIN tokens \cup {t} |->
                  IF u = t THEN [room |-> room, revoked |-> FALSE,
                                 expiresAt |-> now + NormalizeTtl(ttl)]
                           ELSE tokens[u]]
  /\ protectedRooms' = protectedRooms \cup {room}

\* The previous token of the same room dies in the step that mints the new one.
IssuePairingToken(room, ttl, previous, t) ==
  /\ tokens' = [u \in DOMAIN tokens \cup {t} |->
                  IF u = t THEN [room |-> room, revoked |-> FALSE,
                                 expiresAt |-> now + NormalizeTtl(ttl)]
                           ELSE WithRevoked(previous, room)[u]]
  /\ protectedRooms' = protectedRooms \cup {room}

\* POST /api/pairing-tokens
PostToken(c, room, ttl, previous, t) ==
  /\ LimiterAllows(c)
  /\ t \in Tokens \ issued
  /\ CountRequest(c)
  /\ IssuePairingToken(room, ttl, previous, t)
  /\ issued' = issued \cup {t}
  /\ mintLog' = [u \in DOMAIN mintLog \cup {t} |->
                   IF u = t THEN [client |-> c, at |-> now] ELSE mintLog[u]]
  /\ UNCHANGED now

\* A POST that names no valid room gets 400, after it was counted.
PostRefused(c) ==
  /\ LimiterAllows(c)
  /\ CountRequest(c)
  /\ UNCHANGED <<tokens, protectedRooms, now, issued, mintLog>>

\* DELETE /api/pairing-tokens
DeleteToken(t, room) ==
  /\ tokens' = WithRevoked(t, room)
  /\ UNCHANGED <<protectedRooms, hits, now, issued, mintLog>>

Survivors == {t \in DOMAIN tokens : Live(t)}

\* Mutation of Purge: the limiter's map is cleared with the tokens.
PurgeForgettingHits ==
  /\ tokens' = [t \in Survivors |-> tokens[t]]
  /\ protectedRooms' = protectedRooms \cap {tokens[t].room : t \in Survivors}
  /\ hits' = Empty
  /\ UNCHANGED <<now, issued, mintLog>>

\* Mutation of Purge: only expired tokens are dropped, never revoked ones.
PurgeExpiredOnly ==
  LET kept == {t \in DOMAIN tokens : ~Expired(t)}
  IN  /\ tokens' = [t \in kept |-> tokens[t]]
      /\ protectedRooms' = protectedRooms \cap {tokens[t].room : t \in kept}
      /\ hits' = [c \in {k \in DOMAIN hits : now < hits[k].resetAt} |-> hits[c]]
      /\ UNCHANGED <<now, issued, mintLog>>

\* Mutation of Purge: a room is opened when any of its tokens is dropped.
PurgeOpeningRooms ==
  /\ tokens' = [t \in Survivors |-> tokens[t]]
  /\ protectedRooms' = protectedRooms \ {tokens[t].room : t \in DOMAIN tokens \ Survivors}
  /\ hits' = [c \in {k \in DOMAIN hits : now < hits[k].resetAt} |-> hits[c]]
  /\ UNCHANGED <<now, issued, mintLog>>

\* The one-minute timer: dead tokens go, and the protection of rooms left
\* without a token, and the limiter's closed windows.
Purge ==
  /\ tokens' = [t \in Survivors |-> tokens[t]]
  /\ protectedRooms' = protectedRooms \cap {tokens[t].room : t \in Survivors}
  /\ hits' = [c \in {k \in DOMAIN hits : now < hits[k].resetAt} |-> hits[c]]
  /\ UNCHANGED <<now, issued, mintLog>>

\* The store is in memory: a new process starts without it.
RestartStore ==
  /\ tokens' = Empty /\ protectedRooms' = {} /\ hits' = Empty /\ mintLog' = Empty
  /\ UNCHANGED <<now, issued>>

Tick ==
  /\ now < MaxTime
  /\ now' = now + 1
  /\ UNCHANGED <<tokens, protectedRooms, hits, issued, mintLog>>

-----------------------------------------------------------------------------
(* What the store promises *)

\* A room for which a token can still be redeemed is closed to sockets that
\* present none: neither the purge of its older tokens nor a revocation of
\* another token opens it (authorizeRoomToken reads protectedRooms, the purge
\* recomputes it from the tokens that are left).
LiveTokenClosesRoom ==
  \A t \in DOMAIN tokens :
    Live(t) => ~AuthorizeRoomToken(tokens[t].room, NoToken)

\* However requests fall on the limiter's windows and on the purges between
\* them, one client mints at most 2 * MintLimit tokens in any span as long as a
\* window (a fixed-window limiter's bound; createRateLimiter, purge).
MintBudget ==
  \A c \in Clients : \A start \in 0..MaxTime :
    Cardinality({t \in DOMAIN mintLog :
                   /\ mintLog[t].client = c
                   /\ mintLog[t].at \in start..(start + MintWindow - 1)})
      <= 2 * MintLimit

\* Every token that can no longer be redeemed leaves the store, and a room
\* without live tokens stops being protected, unless a new one is minted
\* ("bound the pairing-token store", server.mjs 163 and 249).
DeadTokensArePurged ==
  /\ \A t \in Tokens : (t \in DOMAIN tokens /\ ~Live(t)) ~> t \notin DOMAIN tokens
  /\ \A r \in Rooms :
       (r \in protectedRooms /\ ~\E t \in Survivors : tokens[t].room = r)
         ~> (r \notin protectedRooms \/ \E t \in Survivors : tokens[t].room = r)
=============================================================================
