------------------------ MODULE PairingTokensProofs ------------------------
(***************************************************************************)
(* Lemmas about the pairing-token store, one per step of PairingTokens:    *)
(* its types are preserved, every stored token keeps its room protected,   *)
(* and the limiter keeps the minting budget.  The specifications built on  *)
(* the store cite them.                                                    *)
(***************************************************************************)
EXTENDS PairingTokens, FiniteSetTheorems, TLAPS

\* A stored token, live or dead, has its room among the protected ones.  This is
\* what makes the purge safe: it recomputes the protected rooms from the tokens
\* it keeps.
TokensProtectRooms == \A t \in DOMAIN tokens : tokens[t].room \in protectedRooms

StoreInv == StoreTypeOK /\ TokensProtectRooms

LEMMA StoreInitInv == StoreInit => StoreInv
BY StoreAssumption DEF StoreInit, Empty, StoreInv, StoreTypeOK, TokensProtectRooms

LEMMA StoreUnchanged == StoreInv /\ UNCHANGED storeVars => StoreInv'
BY DEF storeVars, StoreInv, StoreTypeOK, TokensProtectRooms

\* A token cannot be the empty string, so a stored token and its protected room
\* shut out whoever presents none.
LEMMA StrangersShutOut ==
  ASSUME StoreInv, NEW t \in DOMAIN tokens
  PROVE  ~AuthorizeRoomToken(tokens[t].room, NoToken)
BY StoreAssumption
   DEF StoreInv, StoreTypeOK, TokensProtectRooms, AuthorizeRoomToken,
       ValidatePairingToken, Live

LEMMA InvClosesRooms == StoreInv => LiveTokenClosesRoom
BY StrangersShutOut DEF LiveTokenClosesRoom

-----------------------------------------------------------------------------

LEMMA NormalizeTtlNat ==
  ASSUME NEW ttl \in RequestedTtls
  PROVE  NormalizeTtl(ttl) \in Nat
BY StoreAssumption DEF NormalizeTtl

LEMMA WithRevokedType ==
  ASSUME StoreTypeOK, NEW t, NEW room
  PROVE  /\ WithRevoked(t, room) \in [DOMAIN tokens -> TokenRecord]
         /\ \A u \in DOMAIN tokens : WithRevoked(t, room)[u].room = tokens[u].room
BY DEF WithRevoked, StoreTypeOK, TokenRecord

\* DELETE /api/pairing-tokens
LEMMA DeleteTokenInv ==
  ASSUME StoreInv, NEW t, NEW room, DeleteToken(t, room)
  PROVE  StoreInv'
<1>1. DOMAIN tokens' = DOMAIN tokens
  BY DEF DeleteToken, WithRevoked
<1>2. StoreTypeOK'
  BY <1>1, WithRevokedType DEF StoreInv, StoreTypeOK, DeleteToken, TokenRecord
<1>3. TokensProtectRooms'
  BY <1>1, WithRevokedType DEF StoreInv, TokensProtectRooms, DeleteToken
<1> QED
  BY <1>2, <1>3 DEF StoreInv

\* The limiter's map stays within its limit.
LEMMA CountRequestType ==
  ASSUME StoreTypeOK, NEW c \in Clients, LimiterAllows(c), CountRequest(c)
  PROVE  /\ DOMAIN hits' \subseteq Clients
         /\ hits' \in [DOMAIN hits' -> [count : 1..MintLimit, resetAt : Nat]]
<1>1. CASE WindowClosed(c)
  BY <1>1, StoreAssumption DEF StoreTypeOK, CountRequest
<1>2. CASE ~WindowClosed(c)
  <2>1. c \in DOMAIN hits /\ hits[c] \in [count : 1..MintLimit, resetAt : Nat]
    BY <1>2 DEF WindowClosed, StoreTypeOK
  <2>2. hits[c].count + 1 \in 1..MintLimit
    BY <1>2, <2>1, StoreAssumption DEF LimiterAllows
  <2>3. [hits[c] EXCEPT !.count = @ + 1] \in [count : 1..MintLimit, resetAt : Nat]
    BY <2>1, <2>2
  <2> QED
    BY <1>2, <2>1, <2>3 DEF CountRequest, StoreTypeOK
<1> QED
  BY <1>1, <1>2

\* POST /api/pairing-tokens
LEMMA PostTokenInv ==
  ASSUME StoreInv, NEW c \in Clients, NEW room \in Rooms, NEW ttl \in RequestedTtls,
         NEW previous, NEW t, PostToken(c, room, ttl, previous, t)
  PROVE  StoreInv'
<1> DEFINE fresh == [room |-> room, revoked |-> FALSE, expiresAt |-> now + NormalizeTtl(ttl)]
<1>1. fresh \in TokenRecord /\ fresh.room = room
  BY NormalizeTtlNat DEF TokenRecord, StoreInv, StoreTypeOK
<1>2. /\ tokens' = [u \in DOMAIN tokens \cup {t} |->
                      IF u = t THEN fresh ELSE WithRevoked(previous, room)[u]]
      /\ protectedRooms' = protectedRooms \cup {room}
      /\ t \in Tokens
  BY DEF PostToken, IssuePairingToken
<1>3. DOMAIN tokens' = DOMAIN tokens \cup {t}
  BY <1>2
<1>4. \A u \in DOMAIN tokens' : tokens'[u] \in TokenRecord /\ tokens'[u].room \in protectedRooms'
  <2> HIDE DEF fresh
  <2> QED
    BY <1>1, <1>2, <1>3, WithRevokedType DEF StoreInv, TokensProtectRooms
<1>5. /\ DOMAIN hits' \subseteq Clients
      /\ hits' \in [DOMAIN hits' -> [count : 1..MintLimit, resetAt : Nat]]
  BY CountRequestType DEF StoreInv, PostToken
<1>6. /\ now' \in Nat /\ issued' \subseteq Tokens /\ DOMAIN mintLog' \subseteq issued'
      /\ mintLog' \in [DOMAIN mintLog' -> [client : Clients, at : Nat]]
  BY <1>2 DEF StoreInv, StoreTypeOK, PostToken
<1>7. tokens' \in [DOMAIN tokens' -> TokenRecord] /\ DOMAIN tokens' \subseteq Tokens
  BY <1>2, <1>3, <1>4 DEF StoreInv, StoreTypeOK
<1>8. protectedRooms' \subseteq Rooms
  BY <1>2 DEF StoreInv, StoreTypeOK
<1> QED
  BY <1>4, <1>5, <1>6, <1>7, <1>8 DEF StoreInv, StoreTypeOK, TokensProtectRooms

\* A refused POST moves only the limiter.
LEMMA PostRefusedInv ==
  ASSUME StoreInv, NEW c \in Clients, PostRefused(c)
  PROVE  StoreInv'
BY CountRequestType DEF StoreInv, StoreTypeOK, TokensProtectRooms, PostRefused

\* The one-minute timer.
LEMMA PurgeInv ==
  ASSUME StoreInv, Purge
  PROVE  StoreInv'
<1>1. tokens' = [t \in Survivors |-> tokens[t]] /\ DOMAIN tokens' = Survivors
      /\ Survivors \subseteq DOMAIN tokens
  BY DEF Purge, Survivors
<1>2. StoreTypeOK'
  BY <1>1 DEF StoreInv, StoreTypeOK, Purge
<1>3. TokensProtectRooms'
  BY <1>1 DEF StoreInv, TokensProtectRooms, Purge
<1> QED
  BY <1>2, <1>3 DEF StoreInv

LEMMA RestartStoreInv == StoreInv /\ RestartStore => StoreInv'
BY DEF StoreInv, StoreTypeOK, TokensProtectRooms, RestartStore, Empty

LEMMA TickInv == StoreInv /\ Tick => StoreInv'
BY DEF StoreInv, StoreTypeOK, TokensProtectRooms, Tick

-----------------------------------------------------------------------------
(* The minting budget.  A window that is open counts every mint since it   *)
(* was opened, and what was minted in the window's length before that came *)
(* from one earlier window; a client without an open window has minted at  *)
(* most one window's worth lately, and nothing at this very time.          *)

Mints(c, a, b) == {t \in DOMAIN mintLog : mintLog[t].client = c /\ mintLog[t].at \in a..b}

OpenedAt(c, o) ==
  /\ o \in 0..now /\ hits[c].resetAt = o + MintWindow
  /\ \A t \in DOMAIN mintLog : mintLog[t].client = c => mintLog[t].at < o + MintWindow
  /\ Cardinality(Mints(c, o, now)) <= hits[c].count
  /\ Cardinality(Mints(c, o - MintWindow, o - 1)) <= MintLimit

NoneOpen(c) ==
  /\ \A t \in DOMAIN mintLog : mintLog[t].client = c => mintLog[t].at < now
  /\ Cardinality(Mints(c, now - MintWindow, now)) <= MintLimit

SpansHold(c) ==
  \A start \in Nat : Cardinality(Mints(c, start, start + MintWindow - 1)) <= 2 * MintLimit

MintLogOK == /\ IsFiniteSet(DOMAIN mintLog)
             /\ \A t \in DOMAIN mintLog : mintLog[t].at <= now

ClientBudget(c) ==
  /\ SpansHold(c)
  /\ c \in DOMAIN hits => \E o \in Nat : OpenedAt(c, o)
  /\ c \notin DOMAIN hits => NoneOpen(c)

BudgetInv == MintLogOK /\ \A c \in Clients : ClientBudget(c)

LEMMA InvKeepsBudget == BudgetInv => MintBudget
BY StoreAssumption DEF BudgetInv, ClientBudget, SpansHold, MintBudget, Mints

LEMMA MintsFinite ==
  ASSUME MintLogOK, NEW c, NEW a \in Int, NEW b \in Int
  PROVE  IsFiniteSet(Mints(c, a, b)) /\ Cardinality(Mints(c, a, b)) \in Nat
BY FS_Subset, FS_CardinalityType DEF MintLogOK, Mints

\* More of the time line holds no fewer mints.
LEMMA MintsMonotone ==
  ASSUME StoreTypeOK, MintLogOK, NEW c, NEW a \in Int, NEW b \in Int, NEW d \in Int, NEW e \in Int,
         Mints(c, a, b) \subseteq Mints(c, d, e)
  PROVE  Cardinality(Mints(c, a, b)) <= Cardinality(Mints(c, d, e))
BY MintsFinite, FS_Subset

\* A window that has closed leaves nothing of this time, and at most its own
\* mints of late.
LEMMA ClosedWindow ==
  ASSUME StoreTypeOK, MintLogOK, NEW c \in DOMAIN hits, NEW o \in Nat, OpenedAt(c, o), now >= hits[c].resetAt
  PROVE  NoneOpen(c)
<1> USE StoreAssumption
<1>1. now \in Nat /\ hits[c].count \in 1..MintLimit
  BY DEF StoreTypeOK
<1>2. Mints(c, now - MintWindow, now) \subseteq Mints(c, o, now)
  BY <1>1 DEF OpenedAt, Mints, StoreTypeOK
<1>a. now - MintWindow \in Int /\ now \in Int /\ o \in Int
  BY <1>1
<1>3. Cardinality(Mints(c, now - MintWindow, now)) <= Cardinality(Mints(c, o, now))
  BY <1>2, <1>a, MintsMonotone
<1>4. /\ Cardinality(Mints(c, now - MintWindow, now)) \in Nat
      /\ Cardinality(Mints(c, o, now)) \in Nat
  BY <1>a, MintsFinite
<1>5. Cardinality(Mints(c, now - MintWindow, now)) <= MintLimit
  BY <1>1, <1>3, <1>4 DEF OpenedAt
<1>6. \A t \in DOMAIN mintLog : mintLog[t].client = c => mintLog[t].at < now
  BY <1>1 DEF OpenedAt, StoreTypeOK
<1> QED
  BY <1>5, <1>6 DEF NoneOpen

\* What one mint adds.
LEMMA MintsAfter ==
  ASSUME StoreTypeOK, NEW c \in Clients, NEW t, t \notin issued,
         mintLog' = [u \in DOMAIN mintLog \cup {t} |->
                       IF u = t THEN [client |-> c, at |-> now] ELSE mintLog[u]],
         NEW k, NEW a \in Int, NEW b \in Int
  PROVE  Mints(k, a, b)' = IF k = c /\ now \in a..b THEN Mints(k, a, b) \cup {t}
                                                    ELSE Mints(k, a, b)
<1>1. t \notin DOMAIN mintLog
  BY DEF StoreTypeOK
<1>2. /\ DOMAIN mintLog' = DOMAIN mintLog \cup {t}
      /\ mintLog'[t].client = c /\ mintLog'[t].at = now
      /\ \A u \in DOMAIN mintLog : mintLog'[u] = mintLog[u]
  BY <1>1
<1> QED
  BY <1>1, <1>2 DEF Mints

LEMMA NothingMinted ==
  ASSUME NEW c, NEW a, NEW b, DOMAIN mintLog = {}
  PROVE  Cardinality(Mints(c, a, b)) = 0
BY FS_EmptySet DEF Mints

LEMMA BudgetInit == StoreInit => BudgetInv
<1> SUFFICES ASSUME StoreInit PROVE BudgetInv
  OBVIOUS
<1> USE StoreAssumption
<1>1. DOMAIN mintLog = {} /\ DOMAIN hits = {}
  BY DEF StoreInit, Empty
<1>2. MintLogOK
  BY <1>1, FS_EmptySet DEF MintLogOK
<1>3. ASSUME NEW c \in Clients PROVE ClientBudget(c)
  BY <1>1, NothingMinted DEF ClientBudget, SpansHold, NoneOpen
<1> QED
  BY <1>2, <1>3 DEF BudgetInv

\* What a step does not change of a client's mints and window keeps its budget.
LEMMA BudgetKept ==
  ASSUME StoreTypeOK, StoreTypeOK', MintLogOK, MintLogOK', NEW c, ClientBudget(c), now' = now,
         \A a \in Int, b \in Int : Mints(c, a, b)' = Mints(c, a, b),
         \A t \in DOMAIN mintLog' : mintLog'[t].client = c =>
            t \in DOMAIN mintLog /\ mintLog[t] = mintLog'[t],
         c \in DOMAIN hits' <=> c \in DOMAIN hits,
         c \in DOMAIN hits =>
            hits'[c].resetAt = hits[c].resetAt /\ hits'[c].count >= hits[c].count
  PROVE  ClientBudget(c)'
<1> USE StoreAssumption
<1>1. now \in Int /\ now - MintWindow \in Int
  BY DEF StoreTypeOK
<1>2. SpansHold(c)'
  <2> SUFFICES ASSUME NEW s \in Nat
               PROVE  Cardinality(Mints(c, s, s + MintWindow - 1)') <= 2 * MintLimit
    BY DEF SpansHold
  <2>1. s \in Int /\ s + MintWindow - 1 \in Int
    OBVIOUS
  <2>2. Mints(c, s, s + MintWindow - 1)' = Mints(c, s, s + MintWindow - 1)
    BY <2>1
  <2> QED
    BY <2>2 DEF ClientBudget, SpansHold
<1>3. ASSUME NEW o \in Nat, OpenedAt(c, o), c \in DOMAIN hits
      PROVE  OpenedAt(c, o)'
  <2>1. o \in Int /\ o - 1 \in Int /\ o - MintWindow \in Int
    OBVIOUS
  <2>2. Mints(c, o, now)' = Mints(c, o, now)
    BY <1>1, <2>1
  <2>3. Mints(c, o - MintWindow, o - 1)' = Mints(c, o - MintWindow, o - 1)
    BY <2>1
  <2>4. o \in 0..now' /\ hits'[c].resetAt = o + MintWindow
    BY <1>3 DEF OpenedAt
  <2>5. \A t \in DOMAIN mintLog' : mintLog'[t].client = c => mintLog'[t].at < o + MintWindow
    BY <1>3 DEF OpenedAt
  <2>6. Cardinality(Mints(c, o, now)') <= hits'[c].count
    <3>1. Cardinality(Mints(c, o, now)) \in Nat
      BY <1>1, <2>1, MintsFinite
    <3>2. hits[c].count \in Nat /\ hits'[c].count \in Nat
      BY <1>3 DEF StoreTypeOK
    <3> QED
      BY <1>3, <2>2, <3>1, <3>2 DEF OpenedAt
  <2>7. Cardinality(Mints(c, o - MintWindow, o - 1)') <= MintLimit
    BY <1>3, <2>3 DEF OpenedAt
  <2> QED
    BY <2>4, <2>5, <2>6, <2>7 DEF OpenedAt
<1>4. ASSUME NoneOpen(c) PROVE NoneOpen(c)'
  <2>1. Mints(c, now - MintWindow, now)' = Mints(c, now - MintWindow, now)
    BY <1>1
  <2> QED
    BY <1>4, <2>1 DEF NoneOpen
<1> QED
  BY <1>2, <1>3, <1>4 DEF ClientBudget

LEMMA ClosedMeansNoneOpen ==
  ASSUME StoreTypeOK, MintLogOK, NEW c, ClientBudget(c), WindowClosed(c)
  PROVE  NoneOpen(c)
BY ClosedWindow DEF ClientBudget, WindowClosed

\* A client the limiter admits has room for one more mint in every span around now.
LEMMA RoomForOne ==
  ASSUME StoreTypeOK, MintLogOK, NEW c, ClientBudget(c), LimiterAllows(c),
         NEW s \in Nat, now \in s..(s + MintWindow - 1)
  PROVE  Cardinality(Mints(c, s, s + MintWindow - 1)) < 2 * MintLimit
<1> USE StoreAssumption
<1>1. /\ s \in Int /\ s + MintWindow - 1 \in Int /\ now \in Int /\ now - MintWindow \in Int
      /\ MintLimit \in Nat /\ MintLimit >= 1
  BY DEF StoreTypeOK
<1>2. Cardinality(Mints(c, s, s + MintWindow - 1)) \in Nat
  BY <1>1, MintsFinite
<1>3. CASE WindowClosed(c)
  <2>1. NoneOpen(c)
    BY <1>3, ClosedMeansNoneOpen
  <2>2. Mints(c, s, s + MintWindow - 1) \subseteq Mints(c, now - MintWindow, now)
    BY <1>1 DEF Mints, MintLogOK, StoreTypeOK
  <2>3. Cardinality(Mints(c, s, s + MintWindow - 1)) <= Cardinality(Mints(c, now - MintWindow, now))
    BY <1>1, <2>2, MintsMonotone
  <2>4. Cardinality(Mints(c, now - MintWindow, now)) \in Nat
    BY <1>1, MintsFinite
  <2>5. Cardinality(Mints(c, now - MintWindow, now)) <= MintLimit
    BY <2>1 DEF NoneOpen
  <2> HIDE DEF Mints
  <2> QED
    BY <1>1, <1>2, <2>3, <2>4, <2>5
<1>4. CASE ~WindowClosed(c)
  <2>1. c \in DOMAIN hits /\ hits[c].count < MintLimit /\ hits[c].count \in Nat
    BY <1>4 DEF WindowClosed, LimiterAllows, StoreTypeOK
  <2>2. PICK o \in Nat : OpenedAt(c, o)
    BY <2>1 DEF ClientBudget
  <2> DEFINE early == Mints(c, o - MintWindow, o - 1)
             late  == Mints(c, o, now)
  <2>3. o \in Int /\ o - 1 \in Int /\ o - MintWindow \in Int
    OBVIOUS
  <2>4. /\ Cardinality(early) <= MintLimit /\ Cardinality(early) \in Nat /\ IsFiniteSet(early)
        /\ Cardinality(late) < MintLimit /\ Cardinality(late) \in Nat /\ IsFiniteSet(late)
    <3>1. Cardinality(early) \in Nat /\ IsFiniteSet(early)
      BY <2>3, MintsFinite
    <3>2. Cardinality(late) \in Nat /\ IsFiniteSet(late)
      BY <1>1, <2>3, MintsFinite
    <3> QED
      BY <2>1, <2>2, <3>1, <3>2 DEF OpenedAt
  <2>5. now < o + MintWindow
    BY <1>4, <2>1, <2>2 DEF WindowClosed, OpenedAt, StoreTypeOK
  <2>6. Mints(c, s, s + MintWindow - 1) \subseteq early \cup late
    <3> SUFFICES ASSUME NEW t \in Mints(c, s, s + MintWindow - 1) PROVE t \in early \cup late
      OBVIOUS
    <3>1. /\ t \in DOMAIN mintLog /\ mintLog[t].client = c
          /\ mintLog[t].at \in s..(s + MintWindow - 1) /\ mintLog[t].at <= now
      BY DEF Mints, MintLogOK
    <3>2. mintLog[t].at >= o - MintWindow
      BY <2>3, <2>2, <3>1, <1>1 DEF OpenedAt
    <3>3. mintLog[t].at \in (o - MintWindow)..(o - 1) \/ mintLog[t].at \in o..now
      BY <1>1, <2>3, <3>1, <3>2
    <3> QED
      BY <3>1, <3>3 DEF Mints
  <2>7. /\ IsFiniteSet(early \cup late)
        /\ Cardinality(early \cup late) = Cardinality(early) + Cardinality(late) - Cardinality(early \cap late)
    BY <2>4, FS_Union
  <2>8. Cardinality(early \cap late) \in Nat /\ Cardinality(early \cup late) \in Nat
    BY <2>4, <2>7, FS_CardinalityType, FS_Intersection
  <2>9. Cardinality(Mints(c, s, s + MintWindow - 1)) <= Cardinality(early \cup late)
    BY <2>6, <2>7, FS_Subset
  <2> HIDE DEF early, late
  <2> QED
    BY <1>1, <1>2, <2>4, <2>7, <2>8, <2>9
<1> QED
  BY <1>3, <1>4

LEMMA TickBudget ==
  ASSUME StoreInv, BudgetInv, Tick
  PROVE  BudgetInv'
<1> USE StoreAssumption
<1>1. now \in Nat /\ now' = now + 1 /\ UNCHANGED <<hits, mintLog>>
  BY DEF StoreInv, StoreTypeOK, Tick
<1>2. MintLogOK'
  BY <1>1 DEF BudgetInv, MintLogOK, StoreInv, StoreTypeOK
<1>3. StoreTypeOK /\ MintLogOK
  BY DEF StoreInv, BudgetInv
<1>4. ASSUME NEW c \in Clients PROVE ClientBudget(c)'
  <2>1. ClientBudget(c)
    BY DEF BudgetInv
  <2>2. SpansHold(c)'
    BY <1>1, <2>1 DEF ClientBudget, SpansHold, Mints
  <2>3. ASSUME NEW o \in Nat, OpenedAt(c, o) PROVE OpenedAt(c, o)'
    <3>1. Mints(c, o, now + 1) = Mints(c, o, now)
      BY <1>1, <1>3 DEF MintLogOK, StoreTypeOK, Mints
    <3>2. Mints(c, o, now)' = Mints(c, o, now + 1)
      BY <1>1 DEF Mints
    <3>3. Mints(c, o - MintWindow, o - 1)' = Mints(c, o - MintWindow, o - 1)
      BY <1>1 DEF Mints
    <3>4. o \in 0..now'
      BY <1>1, <2>3 DEF OpenedAt
    <3> QED
      BY <1>1, <2>3, <3>1, <3>2, <3>3, <3>4 DEF OpenedAt
  <2>4. ASSUME NoneOpen(c) PROVE NoneOpen(c)'
    <3>1. now - MintWindow \in Int /\ now + 1 - MintWindow \in Int /\ now + 1 \in Int /\ now \in Int
      BY <1>1
    <3>2. Mints(c, now + 1 - MintWindow, now + 1) \subseteq Mints(c, now - MintWindow, now)
      BY <1>1, <1>3 DEF Mints, MintLogOK, StoreTypeOK
    <3>3. Cardinality(Mints(c, now + 1 - MintWindow, now + 1)) <= Cardinality(Mints(c, now - MintWindow, now))
      BY <1>3, <3>1, <3>2, MintsMonotone
    <3>4. /\ Cardinality(Mints(c, now + 1 - MintWindow, now + 1)) \in Nat
          /\ Cardinality(Mints(c, now - MintWindow, now)) \in Nat
      BY <1>3, <3>1, MintsFinite
    <3>5. Cardinality(Mints(c, now + 1 - MintWindow, now + 1)) <= MintLimit
      BY <2>4, <3>3, <3>4 DEF NoneOpen
    <3>6. Mints(c, now - MintWindow, now)' = Mints(c, now + 1 - MintWindow, now + 1)
      BY <1>1 DEF Mints
    <3>7. \A t \in DOMAIN mintLog' : mintLog'[t].client = c => mintLog'[t].at < now'
      BY <1>1, <1>3 DEF MintLogOK, StoreTypeOK
    <3> QED
      BY <3>5, <3>6, <3>7 DEF NoneOpen
  <2> QED
    BY <1>1, <2>1, <2>2, <2>3, <2>4 DEF ClientBudget
<1> QED
  BY <1>2, <1>4 DEF BudgetInv

\* The limiter's counting alone, and what it leaves of the other clients.
LEMMA CountOfOthers ==
  ASSUME NEW c, CountRequest(c), NEW k, k # c
  PROVE  /\ k \in DOMAIN hits' <=> k \in DOMAIN hits
         /\ k \in DOMAIN hits => hits'[k] = hits[k]
BY DEF CountRequest

LEMMA CountOfClosed ==
  ASSUME NEW c, CountRequest(c), WindowClosed(c)
  PROVE  c \in DOMAIN hits' /\ hits'[c] = [count |-> 1, resetAt |-> now + MintWindow]
BY DEF CountRequest

LEMMA CountOfOpen ==
  ASSUME StoreTypeOK, NEW c, CountRequest(c), ~WindowClosed(c)
  PROVE  /\ c \in DOMAIN hits /\ c \in DOMAIN hits'
         /\ hits'[c].count = hits[c].count + 1 /\ hits'[c].resetAt = hits[c].resetAt
<1>1. c \in DOMAIN hits /\ hits[c] \in [count : 1..MintLimit, resetAt : Nat]
  BY DEF WindowClosed, StoreTypeOK
<1>2. c \in DOMAIN hits' /\ hits'[c] = [hits[c] EXCEPT !.count = @ + 1]
  BY <1>1 DEF CountRequest
<1> QED
  BY <1>1, <1>2

\* A window opened now holds at most the mint that opened it.
LEMMA OpenedNow ==
  ASSUME StoreTypeOK, MintLogOK, NEW c, NoneOpen(c), NEW o \in Nat, o = now,
         now' = now, hits'[c] = [count |-> 1, resetAt |-> o + MintWindow],
         Mints(c, o - MintWindow, o - 1)' = Mints(c, o - MintWindow, o - 1),
         Cardinality(Mints(c, o, o)') <= 1,
         \A t \in DOMAIN mintLog' : mintLog'[t].at \in Nat /\ mintLog'[t].at <= o
  PROVE  OpenedAt(c, o)'
<1> USE StoreAssumption
<1>1. o - MintWindow \in Int /\ o - 1 \in Int /\ o \in Int
  OBVIOUS
<1>2. Cardinality(Mints(c, o - MintWindow, o - 1)) <= Cardinality(Mints(c, o - MintWindow, o))
  <2>1. Mints(c, o - MintWindow, o - 1) \subseteq Mints(c, o - MintWindow, o)
    BY <1>1 DEF Mints, StoreTypeOK
  <2> QED
    BY <1>1, <2>1, MintsMonotone
<1>3. /\ Cardinality(Mints(c, o - MintWindow, o - 1)) \in Nat
      /\ Cardinality(Mints(c, o - MintWindow, o)) \in Nat
  BY <1>1, MintsFinite
<1>4. Cardinality(Mints(c, o - MintWindow, o - 1)) <= MintLimit
  BY <1>2, <1>3 DEF NoneOpen
<1>5. \A t \in DOMAIN mintLog' : mintLog'[t].client = c => mintLog'[t].at < o + MintWindow
  BY <1>1
<1>6. hits'[c].count = 1 /\ hits'[c].resetAt = o + MintWindow
  OBVIOUS
<1>7. Mints(c, o, now)' = Mints(c, o, o)'
  BY DEF Mints
<1> QED
  BY <1>1, <1>4, <1>5, <1>6, <1>7 DEF OpenedAt

LEMMA PostRefusedBudget ==
  ASSUME StoreInv, BudgetInv, NEW c \in Clients, PostRefused(c)
  PROVE  BudgetInv'
<1> USE StoreAssumption
<1>1. StoreTypeOK /\ MintLogOK /\ StoreTypeOK'
  BY PostRefusedInv DEF StoreInv, BudgetInv
<1>2. now' = now /\ mintLog' = mintLog /\ CountRequest(c)
  BY DEF PostRefused
<1>3. MintLogOK'
  BY <1>1, <1>2 DEF MintLogOK
<1>4. \A k, a, b : Mints(k, a, b)' = Mints(k, a, b)
  BY <1>2 DEF Mints
<1>5. ASSUME NEW k \in Clients, k # c \/ ~WindowClosed(c) PROVE ClientBudget(k)'
  <2>1. ClientBudget(k)
    BY DEF BudgetInv
  <2>2. /\ k \in DOMAIN hits' <=> k \in DOMAIN hits
        /\ k \in DOMAIN hits => /\ hits'[k].resetAt = hits[k].resetAt
                                /\ hits'[k].count >= hits[k].count
    <3>1. CASE k # c
      BY <1>1, <1>2, <3>1, CountOfOthers DEF StoreTypeOK
    <3>2. CASE k = c /\ ~WindowClosed(c)
      BY <1>1, <1>2, <3>2, CountOfOpen DEF StoreTypeOK
    <3> QED
      BY <1>5, <3>1, <3>2
  <2> QED
    BY <1>1, <1>2, <1>3, <1>4, <2>1, <2>2, BudgetKept
<1>6. ASSUME WindowClosed(c) PROVE ClientBudget(c)'
  <2>1. ClientBudget(c) /\ NoneOpen(c)
    BY <1>1, <1>6, ClosedMeansNoneOpen DEF BudgetInv
  <2>2. PICK o \in Nat : o = now
    BY <1>1 DEF StoreTypeOK
  <2>3. c \in DOMAIN hits' /\ hits'[c] = [count |-> 1, resetAt |-> o + MintWindow]
    BY <1>2, <1>6, <2>2, CountOfClosed
  <2>4. Mints(c, o, o) = {}
    BY <2>1, <2>2 DEF NoneOpen, Mints
  <2>5. Cardinality(Mints(c, o, o)') <= 1
    BY <1>4, <2>4, FS_EmptySet
  <2>6. \A t \in DOMAIN mintLog' : mintLog'[t].at \in Nat /\ mintLog'[t].at <= o
    BY <1>1, <1>2, <2>2 DEF MintLogOK, StoreTypeOK
  <2>7. OpenedAt(c, o)'
    BY <1>1, <1>2, <1>4, <2>1, <2>2, <2>3, <2>5, <2>6, OpenedNow
  <2>8. SpansHold(c)'
    BY <1>4, <2>1 DEF ClientBudget, SpansHold
  <2> QED
    BY <2>3, <2>7, <2>8 DEF ClientBudget
<1> QED
  BY <1>3, <1>5, <1>6 DEF BudgetInv

LEMMA PostTokenBudget ==
  ASSUME StoreInv, BudgetInv, NEW c \in Clients, NEW room \in Rooms, NEW ttl \in RequestedTtls,
         NEW previous, NEW t, PostToken(c, room, ttl, previous, t)
  PROVE  BudgetInv'
<1> USE StoreAssumption
<1>1. StoreTypeOK /\ MintLogOK /\ StoreTypeOK'
  BY PostTokenInv DEF StoreInv, BudgetInv
<1>2. /\ now' = now /\ CountRequest(c) /\ LimiterAllows(c) /\ t \notin issued
      /\ mintLog' = [u \in DOMAIN mintLog \cup {t} |->
                       IF u = t THEN [client |-> c, at |-> now] ELSE mintLog[u]]
  BY DEF PostToken
<1>3. /\ t \notin DOMAIN mintLog /\ DOMAIN mintLog' = DOMAIN mintLog \cup {t}
      /\ mintLog'[t].client = c /\ mintLog'[t].at = now
      /\ \A u \in DOMAIN mintLog : mintLog'[u] = mintLog[u]
  BY <1>1, <1>2 DEF StoreTypeOK
<1>4. MintLogOK'
  <2>1. IsFiniteSet(DOMAIN mintLog')
    BY <1>1, <1>3, FS_AddElement DEF MintLogOK
  <2>2. \A u \in DOMAIN mintLog' : mintLog'[u].at <= now'
    BY <1>1, <1>2, <1>3 DEF MintLogOK, StoreTypeOK
  <2> QED
    BY <2>1, <2>2 DEF MintLogOK
<1>5. \A k : \A a \in Int, b \in Int :
        Mints(k, a, b)' = IF k = c /\ now \in a..b THEN Mints(k, a, b) \cup {t}
                                                    ELSE Mints(k, a, b)
  BY <1>1, <1>2, MintsAfter
<1>6. \A k, a, b : t \notin Mints(k, a, b)
  BY <1>3 DEF Mints
<1>7. ASSUME NEW k \in Clients, k # c PROVE ClientBudget(k)'
  <2>1. ClientBudget(k)
    BY DEF BudgetInv
  <2>2. /\ k \in DOMAIN hits' <=> k \in DOMAIN hits
        /\ k \in DOMAIN hits => /\ hits'[k].resetAt = hits[k].resetAt
                                /\ hits'[k].count >= hits[k].count
    BY <1>1, <1>2, <1>7, CountOfOthers DEF StoreTypeOK
  <2>3. \A a \in Int, b \in Int : Mints(k, a, b)' = Mints(k, a, b)
    BY <1>5, <1>7
  <2>4. \A u \in DOMAIN mintLog' : mintLog'[u].client = k =>
          u \in DOMAIN mintLog /\ mintLog[u] = mintLog'[u]
    BY <1>3, <1>7
  <2> QED
    BY <1>1, <1>2, <1>4, <2>1, <2>2, <2>3, <2>4, BudgetKept
<1>8. SpansHold(c)'
  <2> SUFFICES ASSUME NEW s \in Nat
               PROVE  Cardinality(Mints(c, s, s + MintWindow - 1)') <= 2 * MintLimit
    BY DEF SpansHold
  <2>1. s \in Int /\ s + MintWindow - 1 \in Int
    OBVIOUS
  <2>2. ClientBudget(c)
    BY DEF BudgetInv
  <2>3. CASE now \in s..(s + MintWindow - 1)
    <3>1. Cardinality(Mints(c, s, s + MintWindow - 1)) < 2 * MintLimit
      BY <1>1, <1>2, <2>2, <2>3, RoomForOne
    <3>2. Mints(c, s, s + MintWindow - 1)' = Mints(c, s, s + MintWindow - 1) \cup {t}
      BY <1>5, <2>1, <2>3
    <3>3. /\ IsFiniteSet(Mints(c, s, s + MintWindow - 1))
          /\ Cardinality(Mints(c, s, s + MintWindow - 1)) \in Nat
      BY <1>1, <2>1, MintsFinite
    <3>4. Cardinality(Mints(c, s, s + MintWindow - 1) \cup {t})
            = Cardinality(Mints(c, s, s + MintWindow - 1)) + 1
      BY <1>6, <3>3, FS_AddElement
    <3>5. \A n \in Nat : n < 2 * MintLimit => n + 1 <= 2 * MintLimit
      OBVIOUS
    <3> QED
      BY <3>1, <3>2, <3>3, <3>4, <3>5, Zenon
  <2>4. CASE now \notin s..(s + MintWindow - 1)
    <3>1. Mints(c, s, s + MintWindow - 1)' = Mints(c, s, s + MintWindow - 1)
      BY <1>5, <2>1, <2>4
    <3> QED
      BY <2>2, <3>1 DEF ClientBudget, SpansHold
  <2> QED
    BY <2>3, <2>4
<1>9. ASSUME WindowClosed(c) PROVE ClientBudget(c)'
  <2>1. NoneOpen(c)
    BY <1>1, <1>9, ClosedMeansNoneOpen DEF BudgetInv
  <2>2. PICK o \in Nat : o = now
    BY <1>1 DEF StoreTypeOK
  <2>3. c \in DOMAIN hits' /\ hits'[c] = [count |-> 1, resetAt |-> o + MintWindow]
    BY <1>2, <1>9, <2>2, CountOfClosed
  <2>4. Mints(c, o, o) = {}
    BY <2>1, <2>2 DEF NoneOpen, Mints
  <2>5. Mints(c, o, o)' = {t}
    BY <1>5, <2>2, <2>4
  <2>6. Cardinality(Mints(c, o, o)') <= 1
    BY <2>5, FS_Singleton
  <2>7. Mints(c, o - MintWindow, o - 1)' = Mints(c, o - MintWindow, o - 1)
    BY <1>5, <2>2
  <2>8. \A u \in DOMAIN mintLog' : mintLog'[u].at \in Nat /\ mintLog'[u].at <= o
    BY <1>1, <1>2, <1>4, <2>2 DEF MintLogOK, StoreTypeOK
  <2>9. OpenedAt(c, o)'
    BY <1>1, <1>2, <2>1, <2>2, <2>3, <2>6, <2>7, <2>8, OpenedNow
  <2> QED
    BY <1>8, <2>3, <2>9 DEF ClientBudget
<1>10. ASSUME ~WindowClosed(c) PROVE ClientBudget(c)'
  <2>1. /\ c \in DOMAIN hits /\ c \in DOMAIN hits'
        /\ hits'[c].count = hits[c].count + 1 /\ hits'[c].resetAt = hits[c].resetAt
        /\ hits[c].count \in Nat
    BY <1>1, <1>2, <1>10, CountOfOpen DEF StoreTypeOK
  <2>2. PICK o \in Nat : OpenedAt(c, o)
    BY <2>1 DEF BudgetInv, ClientBudget
  <2>3. o \in Int /\ o - 1 \in Int /\ o - MintWindow \in Int /\ now \in Int /\ now \in o..now /\ now \notin (o - MintWindow)..(o - 1)
    BY <1>1, <2>2 DEF OpenedAt, StoreTypeOK
  <2>4. PICK n \in Nat : n = now
    BY <1>1 DEF StoreTypeOK
  <2>5. Mints(c, o, n)' = Mints(c, o, n) \cup {t}
    BY <1>5, <2>3, <2>4
  <2>6. Cardinality(Mints(c, o, n)') = Cardinality(Mints(c, o, n)) + 1
    BY <1>1, <1>6, <2>3, <2>4, <2>5, MintsFinite, FS_AddElement
  <2>7. Cardinality(Mints(c, o, n)) <= hits[c].count /\ Cardinality(Mints(c, o, n)) \in Nat
    BY <1>1, <2>2, <2>3, <2>4, MintsFinite DEF OpenedAt
  <2>8. Mints(c, o, now)' = Mints(c, o, n)'
    BY <1>2, <2>4 DEF Mints
  <2>9. Cardinality(Mints(c, o, now)') <= hits'[c].count
    BY <2>1, <2>6, <2>7, <2>8
  <2>10. Mints(c, o - MintWindow, o - 1)' = Mints(c, o - MintWindow, o - 1)
    BY <1>5, <2>3
  <2>11. /\ o \in 0..now' /\ hits'[c].resetAt = o + MintWindow
         /\ Cardinality(Mints(c, o - MintWindow, o - 1)) <= MintLimit
    BY <1>2, <2>1, <2>2 DEF OpenedAt
  <2>12. now < o + MintWindow
    <3>1. hits[c].resetAt = o + MintWindow /\ ~(now >= hits[c].resetAt)
      BY <1>10, <2>1, <2>2 DEF WindowClosed, OpenedAt
    <3> QED
      BY <2>3, <3>1
  <2>13. \A u \in DOMAIN mintLog' : mintLog'[u].client = c => mintLog'[u].at < o + MintWindow
    BY <1>3, <2>2, <2>12 DEF OpenedAt
  <2>14. OpenedAt(c, o)'
    BY <2>9, <2>10, <2>11, <2>13 DEF OpenedAt
  <2> QED
    BY <1>8, <2>1, <2>14 DEF ClientBudget
<1> QED
  BY <1>4, <1>7, <1>9, <1>10 DEF BudgetInv

\* A step that leaves the clock, the limiter and the log alone.
LEMMA BudgetUnchanged == BudgetInv /\ UNCHANGED <<now, hits, mintLog>> => BudgetInv'
<1> SUFFICES ASSUME BudgetInv, UNCHANGED <<now, hits, mintLog>> PROVE BudgetInv'
  OBVIOUS
<1>1. \A c, a, b : Mints(c, a, b)' = Mints(c, a, b)
  BY DEF Mints
<1>2. \A c : Mints(c, now - MintWindow, now)' = Mints(c, now - MintWindow, now)
  BY DEF Mints
<1>3. \A c, o : Mints(c, o, now)' = Mints(c, o, now)
  BY DEF Mints
<1>4. ASSUME NEW c \in Clients PROVE ClientBudget(c)'
  <2>1. ClientBudget(c)
    BY DEF BudgetInv
  <2>2. \A o \in Nat : OpenedAt(c, o) => OpenedAt(c, o)'
    BY <1>1, <1>3 DEF OpenedAt
  <2>3. NoneOpen(c) => NoneOpen(c)'
    BY <1>2 DEF NoneOpen
  <2>4. SpansHold(c)'
    BY <1>1, <2>1 DEF ClientBudget, SpansHold
  <2> QED
    BY <2>1, <2>2, <2>3, <2>4 DEF ClientBudget
<1> QED
  BY <1>4 DEF BudgetInv, MintLogOK

LEMMA PurgeBudget ==
  ASSUME StoreInv, BudgetInv, Purge
  PROVE  BudgetInv'
<1>1. /\ now' = now /\ mintLog' = mintLog
      /\ hits' = [c \in {k \in DOMAIN hits : now < hits[k].resetAt} |-> hits[c]]
  BY DEF Purge
<1>2. MintLogOK /\ MintLogOK' /\ StoreTypeOK
  BY <1>1 DEF BudgetInv, MintLogOK, StoreInv
<1>3. ASSUME NEW c \in Clients PROVE ClientBudget(c)'
  <2>1. ClientBudget(c)
    BY DEF BudgetInv
  <2>2. SpansHold(c)'
    BY <1>1, <2>1 DEF ClientBudget, SpansHold, Mints
  <2>3. ASSUME c \in DOMAIN hits' PROVE \E o \in Nat : OpenedAt(c, o)'
    <3>1. c \in DOMAIN hits /\ hits'[c] = hits[c]
      BY <1>1, <2>3
    <3>2. PICK o \in Nat : OpenedAt(c, o)
      BY <2>1, <3>1 DEF ClientBudget
    <3>3. OpenedAt(c, o)'
      BY <1>1, <3>1, <3>2 DEF OpenedAt, Mints
    <3> QED
      BY <3>3
  <2>4. ASSUME c \notin DOMAIN hits' PROVE NoneOpen(c)'
    <3>1. c \notin DOMAIN hits \/ ~(now < hits[c].resetAt)
      BY <1>1, <2>4
    <3>2. WindowClosed(c)
      BY <1>2, <3>1 DEF WindowClosed, StoreTypeOK
    <3>3. NoneOpen(c)
      BY <1>2, <2>1, <3>2, ClosedMeansNoneOpen
    <3> QED
      BY <1>1, <3>3 DEF NoneOpen, Mints
  <2> QED
    BY <2>2, <2>3, <2>4 DEF ClientBudget
<1> QED
  BY <1>2, <1>3 DEF BudgetInv

LEMMA RestartBudget ==
  ASSUME StoreInv, RestartStore
  PROVE  BudgetInv'
<1> USE StoreAssumption
<1>1. DOMAIN mintLog' = {} /\ DOMAIN hits' = {}
  BY DEF RestartStore, Empty
<1>2. MintLogOK'
  BY <1>1, FS_EmptySet DEF MintLogOK
<1>3. \A c, a, b : Cardinality(Mints(c, a, b)') = 0
  BY <1>1, FS_EmptySet DEF Mints
<1>4. ASSUME NEW c \in Clients PROVE ClientBudget(c)'
  BY <1>1, <1>3 DEF ClientBudget, SpansHold, NoneOpen
<1> QED
  BY <1>2, <1>4 DEF BudgetInv
=============================================================================
