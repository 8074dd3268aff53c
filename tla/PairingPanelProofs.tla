------------------------- MODULE PairingPanelProofs -------------------------
(***************************************************************************)
(* PairingPanel for any rooms, tokens, lifetimes and limits: types, the    *)
(* minting budget, and - as long as the form is not submitted by keyboard  *)
(* while a call runs - that tokens the panel dropped are dead and that     *)
(* panel and relay agree.                                                  *)
(*                                                                         *)
(* Neither of the last two is inductive.  Both rest on what each call in   *)
(* flight knows of the panel: the buttons exclude each other (Locks,       *)
(* Waits), so the pairing does not change between a request and its        *)
(* answer, and the relay's record of its token says what the panel says    *)
(* (Records).  BasicInv, which needs no such exclusion, comes first.       *)
(***************************************************************************)
EXTENDS PairingPanel, PairingTokensProofs

\* While a function is suspended, both buttons are off and the other one is not.
Locks ==
  /\ job # NoJob => calls["expire"] = Idle /\ ~canGenerate /\ ~canExpire
  /\ calls["expire"] # Idle => ~canGenerate /\ ~canExpire

\* Each suspended function waits for the call its phase says.
Waits ==
  /\ job = NoJob => calls["generate"] = Idle
  /\ job.phase = "drawing" => calls["generate"] = Idle
  /\ job.phase = "leaving" => calls["generate"].state \in {"deleted", "revoked", "failed"}
  /\ job.phase = "minting" => calls["generate"].state \in {"posted", "created", "failed"}
  /\ calls["expire"].state \in {"idle", "deleted", "revoked", "failed"}

\* What the relay has stored of a token is what its answer said.
RecordOf(t, room, expiresAt) ==
  /\ t \in issued
  /\ t \in DOMAIN tokens => tokens[t].room = room /\ tokens[t].expiresAt = expiresAt

Records ==
  /\ panel.token # NoToken => RecordOf(panel.token, panel.room, panel.expiresAt)
  /\ calls["generate"].state = "posted" =>
       /\ calls["generate"].token = panel.token
       /\ panel.token # NoToken => calls["generate"].room = panel.room
  /\ calls["generate"].state = "created" =>
       /\ RecordOf(calls["generate"].token, calls["generate"].room, calls["generate"].expiresAt)
       /\ ~Live(panel.token)
  /\ \A f \in Functions :
       /\ calls[f].state = "deleted" =>
            /\ panel.token # NoToken
            /\ calls[f].token = panel.token /\ calls[f].room = panel.room
       /\ calls[f].state = "revoked" => (calls[f].revoked => ~Live(panel.token))

\* The token that should be live: the one on its way, or the panel's, unless it was
\* just revoked.
ShouldLive(t) ==
  IF calls["generate"].state = "created"
  THEN t = calls["generate"].token /\ now < calls["generate"].expiresAt
  ELSE /\ \A f \in Functions : calls[f].state # "revoked"
       /\ t = panel.token /\ now < panel.expiresAt

Agrees ==
  ~disturbed =>
    /\ \A t \in Tokens : Live(t) <=> ShouldLive(t)
    /\ \A f \in Functions :
         calls[f].state = "revoked" => (calls[f].revoked \/ ~IsActive(panel))

-----------------------------------------------------------------------------
(* Types *)

LEMMA IdleIsNot ==
  /\ Idle \in Calls /\ [state |-> "failed"] \in Calls
  /\ Idle.state = "idle"
BY DEF Idle, Calls

LEMMA CallFields ==
  ASSUME calls \in [Functions -> Calls], NEW f \in Functions
  PROVE  /\ calls[f].state = "posted" =>
              /\ calls[f].room \in Rooms /\ calls[f].ttl \in RequestedTtls
              /\ calls[f].token \in Tokens \cup {NoToken}
         /\ calls[f].state = "deleted" => calls[f].room \in Rooms /\ calls[f].token \in Tokens
         /\ calls[f].state = "created" =>
              /\ calls[f].room \in Rooms /\ calls[f].token \in Tokens
              /\ calls[f].expiresAt \in Nat
         /\ calls[f].state = "revoked" => calls[f].revoked \in BOOLEAN
         /\ calls[f].state = "idle" <=> calls[f] = Idle
<1>1. calls[f] \in Calls
  OBVIOUS
<1> QED
  BY <1>1 DEF Calls, Idle

LEMMA JobFields ==
  ASSUME job \in Jobs
  PROVE  /\ job.phase = "none" <=> job = NoJob
         /\ job # NoJob => /\ job.phase \in {"leaving", "minting", "drawing"}
                           /\ job.room \in Rooms /\ job.ttl \in RequestedTtls
BY DEF Jobs, NoJob

LEMMA PanelFields ==
  ASSUME panel \in Pairings
  PROVE  /\ panel.token \in Tokens \cup {NoToken} /\ panel.expiresAt \in Nat
         /\ panel.token # NoToken <=> panel # NoPairing
         /\ panel.token # NoToken => panel.token \in Tokens /\ panel.room \in Rooms
BY StoreAssumption DEF Pairings, NoPairing

LEMMA Requests ==
  /\ \A room \in Rooms, ttl \in RequestedTtls, t \in Tokens \cup {NoToken} :
       PostFor(room, ttl, t) \in Calls /\ PostFor(room, ttl, t).state = "posted"
  /\ \A p \in Pairings :
       p.token # NoToken => DeleteOf(p) \in Calls /\ DeleteOf(p).state = "deleted"
BY StoreAssumption DEF PostFor, DeleteOf, Calls, Pairings, NoPairing

LEMMA CallSets ==
  ASSUME calls \in [Functions -> Calls], NEW f \in Functions, NEW r \in Calls, Call(f, r)
  PROVE  /\ calls' \in [Functions -> Calls] /\ calls'[f] = r
         /\ \A g \in Functions : g # f => calls'[g] = calls[g]
BY DEF Call

PanelTypeOK ==
  /\ panel \in Pairings /\ job \in Jobs
  /\ calls \in [Functions -> Calls]
  /\ {canGenerate, canExpire, timerOn, disturbed} \subseteq BOOLEAN
  /\ shown \in {"none", "active", "expired", "error"}
  /\ retired \subseteq issued
  /\ job.phase \in {"none", "drawing"} <=> calls["generate"] = Idle

LEMMA GenerateTypes ==
  ASSUME StoreInv, PanelTypeOK, NEW room \in Rooms, NEW ttl \in RequestedTtls, Generate(room, ttl)
  PROVE  PanelTypeOK'
<1>1. panel.token \in Tokens \cup {NoToken}
  BY PanelFields DEF PanelTypeOK
<1>2. panel.token # NoToken => DeleteOf(panel) \in Calls /\ DeleteOf(panel) # Idle
  BY Requests, IdleIsNot DEF PanelTypeOK
<1>3. PostFor(room, ttl, panel.token) \in Calls /\ PostFor(room, ttl, panel.token) # Idle
  BY <1>1, Requests, IdleIsNot
<1>4. /\ calls' \in [Functions -> Calls] /\ calls'["generate"] # Idle
      /\ job' \in Jobs /\ job'.phase \in {"leaving", "minting"}
  BY <1>2, <1>3, CallSets DEF Generate, PanelTypeOK, Functions, Jobs
<1>5. {canGenerate', canExpire'} \subseteq BOOLEAN
  BY DEF Generate, Busy
<1> QED
  BY <1>4, <1>5 DEF Generate, PanelTypeOK, storeVars

LEMMA GenerateFailsTypes ==
  ASSUME StoreInv, PanelTypeOK, GenerateFails, issued' = issued
  PROVE  /\ panel' \in Pairings /\ job' \in Jobs /\ job'.phase = "none"
         /\ {canGenerate', canExpire', timerOn'} \subseteq BOOLEAN
         /\ shown' \in {"none", "active", "expired", "error"}
         /\ retired' \subseteq issued'
<1>1. job' \in Jobs /\ job'.phase = "none"
  BY DEF GenerateFails, Jobs, NoJob
<1>2. {canGenerate', canExpire'} \subseteq BOOLEAN
  BY DEF GenerateFails, Free, IsActive
<1>3. timerOn' \in BOOLEAN /\ shown' \in {"none", "active", "expired", "error"}
  BY DEF GenerateFails, PanelTypeOK
<1> QED
  BY <1>1, <1>2, <1>3 DEF GenerateFails, PanelTypeOK

\* The panel never holds, and is never sent, a token that was not minted.
Known ==
  /\ panel.token # NoToken => panel.token \in issued
  /\ calls["generate"].state = "created" => calls["generate"].token \in issued

BasicInv == StoreInv /\ BudgetInv /\ PanelTypeOK /\ Known

LEMMA DropPairingTypes ==
  ASSUME StoreInv, PanelTypeOK, Known, DropPairing, issued' = issued
  PROVE  /\ panel' \in Pairings /\ panel'.token = NoToken
         /\ timerOn' = FALSE /\ shown' = "expired" /\ retired' \subseteq issued'
<1>1. panel' \in Pairings /\ panel'.token = NoToken
  BY DEF DropPairing, Pairings, NoPairing
<1>2. {panel.token} \cap Tokens \subseteq issued
  BY StoreAssumption DEF Known
<1> QED
  BY <1>1, <1>2 DEF DropPairing, PanelTypeOK

LEMMA LeftOldRoomTypes ==
  ASSUME BasicInv, LeftOldRoom
  PROVE  PanelTypeOK' /\ Known'
<1>1. issued' = issued /\ disturbed' = disturbed /\ "generate" \in Functions
  BY DEF LeftOldRoom, storeVars, Functions
<1>2. StoreInv /\ PanelTypeOK /\ Known
  BY DEF BasicInv
<1>3. job # NoJob
  BY <1>2, JobFields DEF LeftOldRoom, PanelTypeOK
<1>4. ASSUME GenerateFails, Call("generate", Idle) PROVE PanelTypeOK' /\ Known'
  <2>1. calls' \in [Functions -> Calls] /\ calls'["generate"] = Idle
    BY <1>1, <1>2, <1>4, IdleIsNot, CallSets DEF PanelTypeOK
  <2>2. Known'
    BY <1>1, <1>2, <1>4, <2>1, IdleIsNot DEF Known, GenerateFails
  <2> QED
    BY <1>1, <1>2, <1>4, <2>1, <2>2, GenerateFailsTypes DEF PanelTypeOK
<1>5. ASSUME DropPairing, canExpire' = FALSE, UNCHANGED canGenerate,
             job' = [job EXCEPT !.phase = "minting"],
             Call("generate", PostFor(job.room, job.ttl, NoToken))
      PROVE  PanelTypeOK' /\ Known'
  <2>1. job.room \in Rooms /\ job.ttl \in RequestedTtls
    BY <1>2, <1>3, JobFields DEF PanelTypeOK
  <2>2. job' \in Jobs /\ job'.phase = "minting"
    BY <1>2, <1>3, <1>5, JobFields DEF PanelTypeOK, Jobs, NoJob
  <2>3. /\ PostFor(job.room, job.ttl, NoToken) \in Calls
        /\ PostFor(job.room, job.ttl, NoToken).state = "posted"
    BY <2>1, Requests
  <2>4. calls' \in [Functions -> Calls] /\ calls'["generate"].state = "posted"
    BY <1>1, <1>2, <1>5, <2>3, CallSets DEF PanelTypeOK
  <2>5. Known'
    BY <1>1, <1>2, <1>5, <2>4, DropPairingTypes DEF Known
  <2> QED
    BY <1>1, <1>2, <1>5, <2>2, <2>4, <2>5, DropPairingTypes, IdleIsNot DEF PanelTypeOK
<1> QED
  BY <1>4, <1>5 DEF LeftOldRoom

LEMMA TokenArrivedTypes ==
  ASSUME BasicInv, TokenArrived
  PROVE  PanelTypeOK' /\ Known'
<1> DEFINE answer == calls["generate"]
           next == [token |-> answer.token, room |-> answer.room, expiresAt |-> answer.expiresAt]
<1>1. issued' = issued /\ "generate" \in Functions
  BY DEF TokenArrived, storeVars, Functions
<1>2. StoreInv /\ PanelTypeOK /\ Known
  BY DEF BasicInv
<1>3. answer.token \in Tokens /\ answer.token \in issued /\ next \in Pairings
  BY <1>1, <1>2, CallFields DEF TokenArrived, PanelTypeOK, Known, Pairings
<1>4. calls' \in [Functions -> Calls] /\ calls'["generate"] = Idle
  BY <1>1, <1>2, IdleIsNot, CallSets DEF TokenArrived, PanelTypeOK
<1>5. ASSUME GenerateFails, disturbed' = TRUE PROVE PanelTypeOK' /\ Known'
  <2>1. Known'
    BY <1>1, <1>2, <1>4, <1>5, IdleIsNot DEF Known, GenerateFails
  <2> QED
    BY <1>1, <1>2, <1>4, <1>5, <2>1, GenerateFailsTypes DEF PanelTypeOK
<1>6. ASSUME panel' = next, job' = [job EXCEPT !.phase = "drawing"],
             retired' = retired \cup ({panel.token} \cap Tokens),
             UNCHANGED <<canGenerate, canExpire, timerOn, shown, disturbed>>
      PROVE  PanelTypeOK' /\ Known'
  <2>1. job # NoJob
    BY <1>2, JobFields DEF TokenArrived, PanelTypeOK
  <2>2. job' \in Jobs /\ job'.phase = "drawing"
    BY <1>2, <1>6, <2>1, JobFields DEF PanelTypeOK, Jobs, NoJob
  <2>3. retired' \subseteq issued'
    BY <1>1, <1>2, <1>6, StoreAssumption DEF PanelTypeOK, Known
  <2>4. Known'
    BY <1>1, <1>3, <1>4, <1>6, IdleIsNot DEF Known
  <2>5. panel' \in Pairings
    BY <1>3, <1>6
  <2> QED
    BY <1>2, <1>4, <1>6, <2>2, <2>3, <2>4, <2>5 DEF PanelTypeOK
<1> QED
  BY <1>5, <1>6 DEF TokenArrived

LEMMA QrDrawnTypes ==
  ASSUME BasicInv, NEW drawn \in BOOLEAN, QrDrawn(drawn)
  PROVE  PanelTypeOK' /\ Known'
<1>1. job' \in Jobs /\ job'.phase = "none"
  BY DEF QrDrawn, Jobs, NoJob
<1>2. {canGenerate', canExpire'} \subseteq BOOLEAN
  BY DEF QrDrawn, Free, IsActive
<1>3. timerOn' \in BOOLEAN
  BY DEF QrDrawn
<1>4. shown' \in {"none", "active", "expired", "error"}
  BY DEF QrDrawn
<1>5. calls["generate"] = Idle
  BY DEF BasicInv, PanelTypeOK, QrDrawn
<1> QED
  BY <1>1, <1>2, <1>3, <1>4, <1>5 DEF QrDrawn, BasicInv, PanelTypeOK, Known, storeVars

LEMMA GenerateRejectedTypes ==
  ASSUME BasicInv, GenerateRejected
  PROVE  PanelTypeOK' /\ Known'
<1>1. issued' = issued /\ calls' = calls /\ disturbed' = disturbed /\ panel' = panel
  BY DEF GenerateRejected, storeVars, GenerateFails
<1>2. calls["generate"] = Idle
  BY DEF BasicInv, PanelTypeOK, GenerateRejected, NoJob
<1> QED
  BY <1>1, <1>2, GenerateFailsTypes DEF GenerateRejected, BasicInv, PanelTypeOK, Known

LEMMA GenerateCallFailedTypes ==
  ASSUME BasicInv, GenerateCallFailed
  PROVE  PanelTypeOK' /\ Known'
<1>1. /\ issued' = issued /\ disturbed' = disturbed /\ panel' = panel
      /\ "generate" \in Functions /\ Idle \in Calls /\ Idle.state = "idle"
  BY IdleIsNot DEF GenerateCallFailed, storeVars, GenerateFails, Functions
<1>2. calls' \in [Functions -> Calls] /\ calls'["generate"] = Idle
  BY <1>1, CallSets DEF GenerateCallFailed, BasicInv, PanelTypeOK
<1> QED
  BY <1>1, <1>2, GenerateFailsTypes DEF GenerateCallFailed, BasicInv, PanelTypeOK, Known

LEMMA ExpireTypes ==
  ASSUME BasicInv, Expire
  PROVE  PanelTypeOK' /\ Known'
<1>1. DeleteOf(panel) \in Calls
  BY Requests DEF Expire, BasicInv, PanelTypeOK
<1>2. calls' \in [Functions -> Calls] /\ calls'["generate"] = calls["generate"]
  BY <1>1, CallSets DEF Expire, BasicInv, PanelTypeOK, Functions
<1>3. {canGenerate', canExpire'} \subseteq BOOLEAN
  BY DEF Expire, Busy
<1> QED
  BY <1>2, <1>3 DEF Expire, BasicInv, PanelTypeOK, Known, storeVars

LEMMA ExpireAnsweredTypes ==
  ASSUME BasicInv, Expire_Answered
  PROVE  PanelTypeOK' /\ Known'
<1>1. /\ issued' = issued /\ disturbed' = disturbed /\ job' = job
      /\ StoreInv /\ PanelTypeOK /\ Known /\ Idle \in Calls
  BY IdleIsNot DEF Expire_Answered, storeVars, BasicInv
<1>2. calls' \in [Functions -> Calls] /\ calls'["generate"] = calls["generate"]
  BY <1>1, CallSets DEF Expire_Answered, PanelTypeOK, Functions
<1>3. {canGenerate', canExpire'} \subseteq BOOLEAN
  BY DEF Expire_Answered, Free, IsActive
<1>4. /\ panel' \in Pairings /\ timerOn' \in BOOLEAN
      /\ shown' \in {"none", "active", "expired", "error"} /\ retired' \subseteq issued
      /\ panel'.token # NoToken => panel'.token \in issued
  BY <1>1, DropPairingTypes DEF Expire_Answered, PanelTypeOK, Known
<1> QED
  BY <1>1, <1>2, <1>3, <1>4 DEF PanelTypeOK, Known

LEMMA CountdownTypes ==
  ASSUME BasicInv, Countdown
  PROVE  PanelTypeOK' /\ Known'
BY DEF BasicInv, PanelTypeOK, Known, Countdown, storeVars

\* What the relay answers with.
LEMMA Answers ==
  /\ \A room \in Rooms, t \in Tokens, e \in Nat :
       [state |-> "created", room |-> room, token |-> t, expiresAt |-> e] \in Calls
  /\ \A b \in BOOLEAN : [state |-> "revoked", revoked |-> b] \in Calls
BY DEF Calls

\* A step of the relay or the network: one call moves on, nothing else of the panel.
LEMMA CallMovesTypes ==
  ASSUME BasicInv, NEW f \in Functions, NEW r \in Calls, Call(f, r),
         calls[f].state # "idle", r.state # "idle",
         f = "generate" /\ r.state = "created" => r.token \in issued',
         issued \subseteq issued', disturbed' \in BOOLEAN,
         UNCHANGED <<panel, job, canGenerate, canExpire, timerOn, shown, retired>>
  PROVE  PanelTypeOK' /\ Known'
<1>1. /\ calls' \in [Functions -> Calls] /\ calls'[f] = r
      /\ \A g \in Functions : g # f => calls'[g] = calls[g]
  BY CallSets DEF BasicInv, PanelTypeOK
<1>2. calls'["generate"] = Idle <=> calls["generate"] = Idle
  BY <1>1, IdleIsNot DEF Functions
<1>3. Known'
  BY <1>1 DEF BasicInv, Known, Functions
<1> QED
  BY <1>1, <1>2, <1>3 DEF BasicInv, PanelTypeOK

LEMMA RelayPostTypes ==
  ASSUME BasicInv, Relay_Post
  PROVE  /\ PanelTypeOK' /\ Known'
         /\ \E room \in Rooms, ttl \in RequestedTtls : \E previous, t :
              PostToken(Desktop, room, ttl, previous, t)
<1> DEFINE r == calls["generate"]
           t == CHOOSE u \in Tokens : u \notin issued
           answer == [state |-> "created", room |-> r.room, token |-> t,
                      expiresAt |-> now + NormalizeTtl(r.ttl)]
<1>1. "generate" \in Functions /\ r.state = "posted"
  BY DEF Functions, Relay_Post
<1>2. r.room \in Rooms /\ r.ttl \in RequestedTtls
  BY <1>1, CallFields DEF BasicInv, PanelTypeOK
<1>3. PostToken(Desktop, r.room, r.ttl, r.token, t) /\ Call("generate", answer)
  BY DEF Relay_Post
<1>4. t \in Tokens /\ issued' = issued \cup {t}
  BY <1>3 DEF PostToken
<1>5. now + NormalizeTtl(r.ttl) \in Nat
  BY <1>2, NormalizeTtlNat DEF BasicInv, StoreInv, StoreTypeOK
<1>6. answer \in Calls /\ answer.state = "created" /\ answer.token = t
  BY <1>2, <1>4, <1>5, Answers
<1>7. disturbed' \in BOOLEAN
      /\ UNCHANGED <<panel, job, canGenerate, canExpire, timerOn, shown, retired>>
  BY DEF Relay_Post, panelVars, BasicInv, PanelTypeOK
<1>8. PanelTypeOK' /\ Known'
  <2> HIDE DEF answer, t
  <2> QED
    BY <1>1, <1>3, <1>4, <1>6, <1>7, CallMovesTypes
<1> QED
  BY <1>2, <1>3, <1>8

LEMMA RelayDeleteTypes ==
  ASSUME BasicInv, NEW f \in Functions, Relay_Delete(f)
  PROVE  PanelTypeOK' /\ Known'
<1> DEFINE answer == [state |-> "revoked", revoked |-> Revocable(calls[f].token, calls[f].room)]
<1>1. answer \in Calls /\ answer.state = "revoked" /\ calls[f].state = "deleted" /\ Call(f, answer)
  BY Answers DEF Revocable, Relay_Delete
<1>2. issued' = issued /\ disturbed' \in BOOLEAN
      /\ UNCHANGED <<panel, job, canGenerate, canExpire, timerOn, shown, retired>>
  BY DEF Relay_Delete, DeleteToken, panelVars, BasicInv, PanelTypeOK
<1> HIDE DEF answer
<1> QED
  BY <1>1, <1>2, CallMovesTypes

LEMMA LostTypes ==
  ASSUME BasicInv, NEW f \in Functions, RequestLost(f) \/ AnswerLost(f)
  PROVE  PanelTypeOK' /\ Known'
<1>1. /\ calls[f].state # "idle" /\ Call(f, [state |-> "failed"])
      /\ UNCHANGED storeVars /\ disturbed' \in BOOLEAN
      /\ UNCHANGED <<panel, job, canGenerate, canExpire, timerOn, shown, retired>>
  BY DEF RequestLost, AnswerLost, panelVars, BasicInv, PanelTypeOK
<1>2. [state |-> "failed"] \in Calls /\ [state |-> "failed"].state = "failed"
  BY IdleIsNot
<1> QED
  BY <1>1, <1>2, CallMovesTypes DEF storeVars

LEMMA PanelUnmovedTypes ==
  ASSUME BasicInv, UNCHANGED <<panel, job, calls, canGenerate, canExpire, timerOn, shown, retired>>,
         issued' = issued, disturbed' \in BOOLEAN
  PROVE  PanelTypeOK' /\ Known'
BY DEF BasicInv, PanelTypeOK, Known

-----------------------------------------------------------------------------
(* The store under the panel's steps *)

StoreMoves ==
  \/ UNCHANGED storeVars
  \/ \E c \in Clients, room \in Rooms, ttl \in RequestedTtls : \E previous, t :
       PostToken(c, room, ttl, previous, t)
  \/ \E t, room : DeleteToken(t, room)
  \/ Purge \/ RestartStore \/ Tick

LEMMA StoreStep ==
  ASSUME StoreInv, BudgetInv, StoreMoves
  PROVE  StoreInv' /\ BudgetInv'
<1>1. CASE UNCHANGED storeVars
  BY <1>1, StoreUnchanged, BudgetUnchanged DEF storeVars
<1>2. ASSUME NEW c \in Clients, NEW room \in Rooms, NEW ttl \in RequestedTtls, NEW previous, NEW t,
             PostToken(c, room, ttl, previous, t)
      PROVE  StoreInv' /\ BudgetInv'
  BY <1>2, PostTokenInv, PostTokenBudget
<1>3. ASSUME NEW t, NEW room, DeleteToken(t, room)
      PROVE  StoreInv' /\ BudgetInv'
  BY <1>3, DeleteTokenInv, BudgetUnchanged DEF DeleteToken
<1>4. CASE Purge
  BY <1>4, PurgeInv, PurgeBudget
<1>5. CASE RestartStore
  BY <1>5, RestartStoreInv, RestartBudget
<1>6. CASE Tick
  BY <1>6, TickInv, TickBudget
<1> QED
  BY <1>1, <1>2, <1>3, <1>4, <1>5, <1>6 DEF StoreMoves

LEMMA BasicInit == Init => BasicInv
<1> SUFFICES ASSUME Init PROVE BasicInv
  OBVIOUS
<1>1. StoreInv /\ BudgetInv
  BY StoreInitInv, BudgetInit DEF Init
<1>2. calls \in [Functions -> Calls] /\ calls["generate"] = Idle
  BY IdleIsNot DEF Init, Functions
<1>3. panel \in Pairings /\ job \in Jobs /\ panel.token = NoToken /\ job.phase = "none"
  BY DEF Init, Pairings, Jobs, NoPairing, NoJob
<1>4. PanelTypeOK /\ Known
  BY <1>2, <1>3, IdleIsNot DEF Init, PanelTypeOK, Known
<1> QED
  BY <1>1, <1>4 DEF BasicInv

LEMMA BasicNext == BasicInv /\ [Next]_vars => BasicInv'
<1> SUFFICES ASSUME BasicInv, [Next]_vars PROVE BasicInv'
  OBVIOUS
<1>0. StoreInv /\ BudgetInv
  BY DEF BasicInv
<1>1. ASSUME UNCHANGED storeVars, PanelTypeOK', Known' PROVE BasicInv'
  BY <1>0, <1>1, StoreStep DEF BasicInv, StoreMoves
<1>2. ASSUME NEW room \in Rooms, NEW ttl \in RequestedTtls, Generate(room, ttl) PROVE BasicInv'
  <2>1. PanelTypeOK'
    BY <1>2, GenerateTypes DEF BasicInv
  <2>2. UNCHANGED storeVars /\ panel' = panel /\ "generate" \in Functions
    BY <1>2 DEF Generate, Functions
  <2>3. panel.token # NoToken => DeleteOf(panel) \in Calls /\ DeleteOf(panel).state = "deleted"
    BY Requests DEF BasicInv, PanelTypeOK
  <2>4. PostFor(room, ttl, panel.token) \in Calls /\ PostFor(room, ttl, panel.token).state = "posted"
    BY PanelFields, Requests DEF BasicInv, PanelTypeOK
  <2>5. calls'["generate"].state # "created"
    BY <1>2, <2>2, <2>3, <2>4, CallSets DEF Generate, BasicInv, PanelTypeOK
  <2>6. Known'
    BY <2>2, <2>5 DEF BasicInv, Known, storeVars
  <2> QED
    BY <1>1, <2>1, <2>2, <2>6
<1>3. CASE GenerateRejected
  BY <1>1, <1>3, GenerateRejectedTypes DEF GenerateRejected
<1>4. CASE LeftOldRoom
  BY <1>1, <1>4, LeftOldRoomTypes DEF LeftOldRoom
<1>5. CASE TokenArrived
  BY <1>1, <1>5, TokenArrivedTypes DEF TokenArrived
<1>6. CASE GenerateCallFailed
  BY <1>1, <1>6, GenerateCallFailedTypes DEF GenerateCallFailed
<1>7. ASSUME NEW drawn \in BOOLEAN, QrDrawn(drawn) PROVE BasicInv'
  BY <1>1, <1>7, QrDrawnTypes DEF QrDrawn
<1>8. CASE Expire
  BY <1>1, <1>8, ExpireTypes DEF Expire
<1>9. CASE Expire_Answered
  BY <1>1, <1>9, ExpireAnsweredTypes DEF Expire_Answered
<1>10. CASE Countdown
  BY <1>1, <1>10, CountdownTypes DEF Countdown
<1>11. CASE Relay_Post
  <2>1. StoreMoves
    BY <1>11, RelayPostTypes, PanelAssumption DEF StoreMoves
  <2> QED
    BY <1>0, <1>11, <2>1, RelayPostTypes, StoreStep DEF BasicInv
<1>12. ASSUME NEW f \in Functions, Relay_Delete(f) PROVE BasicInv'
  <2>1. \E t, room : DeleteToken(t, room)
    BY <1>12 DEF Relay_Delete
  <2> QED
    BY <1>0, <1>12, <2>1, RelayDeleteTypes, StoreStep DEF BasicInv, StoreMoves
<1>13. ASSUME NEW f \in Functions, RequestLost(f) PROVE BasicInv'
  BY <1>1, <1>13, LostTypes DEF RequestLost
<1>14. ASSUME NEW f \in Functions, AnswerLost(f) PROVE BasicInv'
  BY <1>1, <1>14, LostTypes DEF AnswerLost
<1>15. CASE Restart
  <2>1. RestartStore /\ issued' = issued /\ disturbed' \in BOOLEAN
    BY <1>15 DEF Restart, RestartStore
  <2>2. PanelTypeOK' /\ Known'
    BY <1>15, <2>1, PanelUnmovedTypes DEF Restart
  <2> QED
    BY <1>0, <2>1, <2>2, StoreStep DEF BasicInv, StoreMoves
<1>16. CASE Timers
  <2>1. (Purge \/ Tick) /\ issued' = issued /\ disturbed' \in BOOLEAN
    BY <1>16 DEF Timers, Purge, Tick, panelVars, BasicInv, PanelTypeOK
  <2>2. PanelTypeOK' /\ Known'
    BY <1>16, <2>1, PanelUnmovedTypes DEF Timers, panelVars
  <2> QED
    BY <1>0, <2>1, <2>2, StoreStep DEF BasicInv, StoreMoves
<1>17. CASE UNCHANGED vars
  <2>1. UNCHANGED storeVars /\ issued' = issued /\ disturbed' \in BOOLEAN
    BY <1>17 DEF vars, panelVars, storeVars, BasicInv, PanelTypeOK
  <2>2. PanelTypeOK' /\ Known'
    BY <1>17, <2>1, PanelUnmovedTypes DEF vars, panelVars
  <2> QED
    BY <1>1, <2>1, <2>2
<1> QED
  BY <1>2, <1>3, <1>4, <1>5, <1>6, <1>7, <1>8, <1>9, <1>10, <1>11, <1>12, <1>13, <1>14,
     <1>15, <1>16, <1>17 DEF Next

LEMMA BasicAlways == Spec => []BasicInv
BY BasicInit, BasicNext, PTL DEF Spec

\* The panel's variables keep their types, and generatePhonePairing waits for the
\* call its phase says (desktop.js 344-474).
THEOREM PanelTyped == Spec => []TypeOK
<1>1. BasicInv => TypeOK
  BY DEF BasicInv, StoreInv, PanelTypeOK, TypeOK
<1> QED
  BY <1>1, BasicAlways, PTL

\* Whatever the panel and the network do, one client mints at most twice the
\* limit in any span as long as the limiter's window, and that for any limit,
\* window and lifetime (createRateLimiter and the purge, server.mjs 226-267).
THEOREM MintingIsBounded == Spec => []MintBudget
<1>1. BasicInv => MintBudget
  BY InvKeepsBudget DEF BasicInv
<1> QED
  BY <1>1, BasicAlways, PTL

-----------------------------------------------------------------------------
(* Without the keyboard shortcut the two functions exclude each other *)

PanelInv == BasicInv /\ Locks /\ Waits /\ Records /\ DroppedTokensAreDead /\ Agrees

\* A step keeps a minted token: dead it stays dead, and its record does not change.
KeepsToken(t) ==
  /\ t \in issued' /\ (Live(t)' => Live(t))
  /\ \A room, e : RecordOf(t, room, e) => RecordOf(t, room, e)'

LEMMA MintedTokenKept ==
  ASSUME StoreInv, StoreMoves, NEW t \in issued
  PROVE  KeepsToken(t)
<1> USE DEF RecordOf
<1>1. CASE UNCHANGED storeVars
  BY <1>1 DEF storeVars, Live, Expired, KeepsToken
<1>2. ASSUME NEW previous, NEW room, NEW u,
             \/ /\ u \notin issued /\ issued' = issued \cup {u} /\ now' = now
                /\ DOMAIN tokens' = DOMAIN tokens \cup {u}
                /\ \A v \in DOMAIN tokens : v # u => tokens'[v] = WithRevoked(previous, room)[v]
             \/ /\ issued' = issued /\ now' = now /\ tokens' = WithRevoked(previous, room)
      PROVE  KeepsToken(t)
  <2>1. /\ t \in issued' /\ (t \in DOMAIN tokens' <=> t \in DOMAIN tokens)
        /\ t \in DOMAIN tokens => tokens'[t] = WithRevoked(previous, room)[t]
    BY <1>2 DEF WithRevoked
  <2>2. t \in DOMAIN tokens => /\ tokens'[t].room = tokens[t].room
                               /\ tokens'[t].expiresAt = tokens[t].expiresAt
                               /\ ~tokens'[t].revoked => ~tokens[t].revoked
    BY <2>1 DEF WithRevoked, StoreInv, StoreTypeOK, TokenRecord
  <2>3. now' = now
    BY <1>2
  <2>4. Live(t)' => Live(t)
    BY <2>1, <2>2, <2>3 DEF Live, Expired
  <2> QED
    BY <2>1, <2>2, <2>4 DEF KeepsToken
<1>3. ASSUME NEW c, NEW room, NEW ttl, NEW previous, NEW u, PostToken(c, room, ttl, previous, u)
      PROVE  KeepsToken(t)
  <2>1. /\ u \notin issued /\ issued' = issued \cup {u} /\ now' = now
        /\ DOMAIN tokens' = DOMAIN tokens \cup {u}
        /\ \A v \in DOMAIN tokens : v # u => tokens'[v] = WithRevoked(previous, room)[v]
    BY <1>3 DEF PostToken, IssuePairingToken
  <2> QED
    BY <1>2, <2>1
<1>4. ASSUME NEW u, NEW room, DeleteToken(u, room)
      PROVE  KeepsToken(t)
  BY <1>2, <1>4 DEF DeleteToken
<1>5. CASE Purge
  BY <1>5 DEF Purge, Survivors, Live, Expired, KeepsToken
<1>6. CASE RestartStore
  BY <1>6 DEF RestartStore, Empty, Live, Expired, KeepsToken
<1>7. CASE Tick
  BY <1>7 DEF Tick, Live, Expired, KeepsToken, StoreInv, StoreTypeOK, TokenRecord
<1> QED
  BY <1>1, <1>3, <1>4, <1>5, <1>6, <1>7 DEF StoreMoves

LEMMA NoTokenIsDead ==
  ASSUME StoreInv PROVE ~Live(NoToken)
BY StoreAssumption DEF StoreInv, StoreTypeOK, Live

\* Steps that leave the panel's pairing and the calls alone.
LEMMA RecordsKept ==
  ASSUME BasicInv, StoreInv', StoreMoves, Records, UNCHANGED <<panel, calls>>
  PROVE  Records'
<1>1. /\ panel.token # NoToken => panel.token \in issued
      /\ calls["generate"].state = "created" => calls["generate"].token \in issued
      /\ StoreInv
  BY DEF BasicInv, Known
<1>2. \A t \in issued : KeepsToken(t)
  BY <1>1, MintedTokenKept
<1>3. ASSUME ~Live(panel.token) PROVE ~Live(panel.token)'
  <2>1. PICK p : p = panel.token
    OBVIOUS
  <2>2. ASSUME p \in issued PROVE ~Live(p)'
    BY <1>2, <1>3, <2>1, <2>2 DEF KeepsToken
  <2>3. ASSUME p \notin issued PROVE ~Live(p)'
    <3>1. p \notin Tokens
      BY <1>1, <2>1, <2>3, StoreAssumption
    <3> QED
      BY <3>1 DEF Live, StoreInv, StoreTypeOK
  <2> QED
    BY <2>1, <2>2, <2>3 DEF Live, Expired
<1>4. panel.token # NoToken => RecordOf(panel.token, panel.room, panel.expiresAt)'
  <2>1. PICK p : p = panel
    OBVIOUS
  <2>2. p.token # NoToken => RecordOf(p.token, p.room, p.expiresAt)'
    BY <1>1, <1>2, <2>1 DEF Records, KeepsToken
  <2> QED
    BY <2>1, <2>2 DEF RecordOf
<1>5. calls["generate"].state = "created" =>
        RecordOf(calls["generate"].token, calls["generate"].room, calls["generate"].expiresAt)'
  <2>1. PICK p : p = calls["generate"]
    OBVIOUS
  <2>2. p.state = "created" => RecordOf(p.token, p.room, p.expiresAt)'
    BY <1>1, <1>2, <2>1 DEF Records, KeepsToken
  <2> QED
    BY <2>1, <2>2 DEF RecordOf
<1> QED
  BY <1>3, <1>4, <1>5 DEF Records

LEMMA DroppedKept ==
  ASSUME BasicInv, StoreMoves, DroppedTokensAreDead
  PROVE  \A t \in retired : ~Live(t)'
<1>1. StoreInv /\ retired \subseteq issued
  BY DEF BasicInv, PanelTypeOK
<1> QED
  BY <1>1, MintedTokenKept DEF KeepsToken, DroppedTokensAreDead

LEMMA ExpiredPairingIsDead ==
  ASSUME BasicInv, Records, ~IsActive(panel)
  PROVE  ~Live(panel.token)
<1>1. CASE panel.token = NoToken
  BY <1>1, NoTokenIsDead DEF BasicInv
<1>2. CASE panel.token # NoToken
  <2>1. now \in Nat /\ panel.expiresAt \in Nat
    BY PanelFields DEF BasicInv, StoreInv, StoreTypeOK, PanelTypeOK
  <2> QED
    BY <1>2, <2>1 DEF Records, RecordOf, IsActive, Live, Expired
<1> QED
  BY <1>1, <1>2

\* Nothing of the store, the pairing and the calls changes.
LEMMA StillKept ==
  ASSUME PanelInv, BasicInv', UNCHANGED <<storeVars, panel, calls, retired, disturbed>>
  PROVE  Records' /\ DroppedTokensAreDead' /\ Agrees'
<1>1. Records'
  BY RecordsKept DEF PanelInv, BasicInv, StoreMoves
<1>2. DroppedTokensAreDead'
  BY DroppedKept DEF PanelInv, DroppedTokensAreDead, StoreMoves
<1>3. Agrees'
  BY DEF PanelInv, Agrees, ShouldLive, Live, Expired, IsActive, storeVars
<1> QED
  BY <1>1, <1>2, <1>3

LEMMA QrDrawnKeeps ==
  ASSUME PanelInv, BasicInv', NEW drawn \in BOOLEAN, QrDrawn(drawn)
  PROVE  PanelInv'
<1>1. calls' = calls /\ job' = NoJob /\ job # NoJob /\ calls["generate"] = Idle /\ calls["expire"] = Idle
  BY DEF QrDrawn, PanelInv, Locks, Waits, NoJob
<1>2. Locks' /\ Waits'
  BY <1>1, IdleIsNot DEF Locks, Waits, NoJob
<1> QED
  BY <1>2, StillKept DEF QrDrawn, PanelInv

LEMMA CountdownKeeps ==
  ASSUME PanelInv, BasicInv', Countdown
  PROVE  PanelInv'
<1>1. Locks' /\ Waits'
  BY DEF Locks, Waits, Countdown, PanelInv
<1> QED
  BY <1>1, StillKept DEF Countdown, PanelInv

LEMMA GenerateRejectedKeeps ==
  ASSUME KeyboardShortcut = FALSE, PanelInv, BasicInv', GenerateRejected
  PROVE  PanelInv'
<1>1. calls' = calls /\ job' = NoJob /\ job = NoJob /\ canGenerate
  BY DEF GenerateRejected, GenerateFails
<1>2. calls["generate"] = Idle /\ calls["expire"] = Idle
  BY <1>1 DEF PanelInv, Locks, Waits
<1>3. Locks' /\ Waits'
  BY <1>1, <1>2, IdleIsNot DEF Locks, Waits, NoJob
<1> QED
  BY <1>3, StillKept DEF GenerateRejected, GenerateFails, PanelInv

LEMMA GenerateKeeps ==
  ASSUME KeyboardShortcut = FALSE, PanelInv, BasicInv',
         NEW room \in Rooms, NEW ttl \in RequestedTtls, Generate(room, ttl)
  PROVE  PanelInv'
<1>1. /\ job = NoJob /\ canGenerate /\ ~canGenerate' /\ ~canExpire'
      /\ UNCHANGED <<storeVars, panel, retired, disturbed>>
  BY DEF Generate, Busy
<1>2. /\ calls["generate"] = Idle /\ calls["expire"] = Idle
      /\ calls \in [Functions -> Calls] /\ panel \in Pairings
  BY <1>1 DEF PanelInv, Locks, Waits, BasicInv, PanelTypeOK
<1>3. panel.token # NoToken => DeleteOf(panel) \in Calls
  BY <1>2, Requests
<1>4. PostFor(room, ttl, panel.token) \in Calls
  BY <1>2, PanelFields, Requests
<1>5. calls'["expire"] = Idle
  BY <1>2, <1>3, <1>4, CallSets DEF Generate, Functions
<1>6. \/ /\ job'.phase = "leaving" /\ panel.token # NoToken
         /\ calls'["generate"] = DeleteOf(panel)
      \/ /\ job'.phase = "minting" /\ calls'["generate"] = PostFor(room, ttl, panel.token)
         /\ panel.token # NoToken => panel.room = room
  BY <1>2, <1>3, <1>4, CallSets DEF Generate, Functions
<1>7. Locks' /\ Waits'
  BY <1>1, <1>5, <1>6, IdleIsNot DEF Locks, Waits, NoJob, DeleteOf, PostFor
<1>8. Records'
  <2>1. panel.token # NoToken => RecordOf(panel.token, panel.room, panel.expiresAt)
    BY DEF PanelInv, Records
  <2>2. (panel.token # NoToken => RecordOf(panel.token, panel.room, panel.expiresAt))'
    BY <1>1, <2>1 DEF RecordOf, storeVars
  <2> QED
    BY <1>1, <1>5, <1>6, <2>2, IdleIsNot DEF Records, DeleteOf, PostFor, Functions
<1>9. DroppedTokensAreDead'
  BY <1>1 DEF PanelInv, DroppedTokensAreDead, Live, Expired, storeVars
<1>10. Agrees'
  <2>1. /\ calls["generate"].state # "created" /\ calls["generate"].state # "revoked"
        /\ calls["expire"].state # "revoked"
        /\ calls'["generate"].state # "created" /\ calls'["generate"].state # "revoked"
        /\ calls'["expire"].state # "revoked"
    BY <1>2, <1>5, <1>6, IdleIsNot DEF DeleteOf, PostFor
  <2>2. \A t \in Tokens : Live(t)' <=> Live(t)
    BY <1>1 DEF Live, Expired, storeVars
  <2>3. \A t \in Tokens : ShouldLive(t)' <=> ShouldLive(t)
    BY <1>1, <2>1 DEF ShouldLive, Functions, storeVars
  <2> QED
    BY <1>1, <2>1, <2>2, <2>3 DEF PanelInv, Agrees, Functions
<1> QED
  BY <1>7, <1>8, <1>9, <1>10 DEF PanelInv

\* generatePhonePairing gives up: its call is over, the pairing stays.
LEMMA GivenUpKeeps ==
  ASSUME PanelInv, BasicInv', job # NoJob, GenerateFails, Call("generate", Idle),
         UNCHANGED storeVars, disturbed => disturbed',
         ~disturbed' => calls["generate"].state \notin {"created", "revoked"}
  PROVE  PanelInv'
<1>1. /\ job' = NoJob /\ UNCHANGED <<panel, retired>>
  BY DEF GenerateFails
<1>2. calls' \in [Functions -> Calls] /\ calls'["generate"] = Idle /\ calls'["expire"] = Idle
  BY IdleIsNot, CallSets DEF PanelInv, Locks, BasicInv, PanelTypeOK, Functions
<1>3. Locks' /\ Waits'
  BY <1>1, <1>2, IdleIsNot DEF Locks, Waits, NoJob
<1>4. Records'
  <2>1. (panel.token # NoToken => RecordOf(panel.token, panel.room, panel.expiresAt))'
    BY <1>1 DEF PanelInv, Records, RecordOf, storeVars
  <2> QED
    BY <1>2, <2>1, IdleIsNot DEF Records, Functions
<1>5. DroppedTokensAreDead'
  BY <1>1 DEF PanelInv, DroppedTokensAreDead, Live, Expired, storeVars
<1>6. ASSUME ~disturbed' PROVE Agrees'
  <2>1. ~disturbed /\ calls["generate"].state \notin {"created", "revoked"}
    BY <1>6
  <2>2. calls["expire"].state # "revoked"
    BY IdleIsNot DEF PanelInv, Locks
  <2>3. \A t \in Tokens : Live(t)' <=> Live(t)
    BY DEF Live, Expired, storeVars
  <2>4. \A t \in Tokens : ShouldLive(t)' <=> ShouldLive(t)
    BY <1>1, <1>2, <2>1, <2>2, IdleIsNot DEF ShouldLive, Functions, storeVars
  <2> QED
    BY <1>2, <2>1, <2>3, <2>4, IdleIsNot DEF PanelInv, Agrees, Functions
<1> QED
  BY <1>3, <1>4, <1>5, <1>6 DEF PanelInv, Agrees

LEMMA GenerateCallFailedKeeps ==
  ASSUME PanelInv, BasicInv', GenerateCallFailed
  PROVE  PanelInv'
BY GivenUpKeeps DEF GenerateCallFailed

\* The pairing is dropped after a deletion that was confirmed, or that found it expired.
LEMMA DropKeeps ==
  ASSUME PanelInv, BasicInv', NEW f \in Functions, calls[f].state = "revoked",
         calls[f].revoked \/ ~IsActive(panel), DropPairing, UNCHANGED <<storeVars, disturbed>>,
         calls'["generate"].state \in {"idle", "posted"}, calls'["expire"] = Idle,
         calls'["generate"].state = "posted" => calls'["generate"].token = NoToken,
         Locks', Waits'
  PROVE  PanelInv'
<1>1. panel' = NoPairing /\ panel'.token = NoToken
  BY DEF DropPairing, NoPairing
<1>2. ~Live(panel.token)
  BY ExpiredPairingIsDead DEF PanelInv, Records
<1>3. DroppedTokensAreDead'
  BY <1>2 DEF PanelInv, DroppedTokensAreDead, DropPairing, Live, Expired, storeVars
<1>4. Records'
  BY <1>1, IdleIsNot DEF Records, Functions
<1>5. Agrees'
  <2>1. SUFFICES ASSUME ~disturbed PROVE \A t \in Tokens : ~Live(t) /\ ~ShouldLive(t)'
    BY IdleIsNot DEF Agrees, Functions, Live, Expired, storeVars
  <2>2. \A t \in Tokens : ~ShouldLive(t)'
    BY <1>1, StoreAssumption DEF ShouldLive
  <2>3. calls["generate"].state # "created"
    BY IdleIsNot DEF PanelInv, Locks, Waits, Functions
  <2>4. \A t \in Tokens : ~ShouldLive(t)
    BY <2>3 DEF ShouldLive
  <2> QED
    BY <2>1, <2>2, <2>4 DEF PanelInv, Agrees
<1> QED
  BY <1>3, <1>4, <1>5 DEF PanelInv

LEMMA LeftOldRoomKeeps ==
  ASSUME PanelInv, BasicInv', LeftOldRoom
  PROVE  PanelInv'
<1>1. /\ job # NoJob /\ calls["generate"].state = "revoked" /\ "generate" \in Functions
      /\ UNCHANGED <<storeVars, disturbed>> /\ calls \in [Functions -> Calls]
  BY DEF LeftOldRoom, NoJob, Functions, PanelInv, BasicInv, PanelTypeOK
<1>2. ASSUME ~calls["generate"].revoked /\ IsActive(panel), GenerateFails, Call("generate", Idle)
      PROVE  PanelInv'
  <2>1. disturbed
    BY <1>1, <1>2 DEF PanelInv, Agrees
  <2> QED
    BY <1>1, <1>2, <2>1, GivenUpKeeps
<1>3. ASSUME ~(~calls["generate"].revoked /\ IsActive(panel)), DropPairing,
             canExpire' = FALSE, UNCHANGED canGenerate,
             job' = [job EXCEPT !.phase = "minting"],
             Call("generate", PostFor(job.room, job.ttl, NoToken))
      PROVE  PanelInv'
  <2>1. job.room \in Rooms /\ job.ttl \in RequestedTtls /\ job'.phase = "minting"
    BY <1>1, <1>3, JobFields DEF PanelInv, BasicInv, PanelTypeOK, Jobs, NoJob
  <2>2. PostFor(job.room, job.ttl, NoToken) \in Calls
    BY <2>1, Requests
  <2>3. calls'["generate"] = PostFor(job.room, job.ttl, NoToken) /\ calls'["expire"] = Idle
    BY <1>1, <1>3, <2>2, CallSets DEF PanelInv, Locks, Functions
  <2>4. calls'["generate"].state = "posted" /\ calls'["generate"].token = NoToken
    BY <2>3 DEF PostFor
  <2>5. Locks' /\ Waits'
    BY <1>1, <1>3, <2>1, <2>3, <2>4, IdleIsNot DEF PanelInv, Locks, Waits, NoJob
  <2> QED
    BY <1>1, <1>3, <2>3, <2>4, <2>5, DropKeeps
<1> QED
  BY <1>2, <1>3 DEF LeftOldRoom

LEMMA ExpireAnsweredKeeps ==
  ASSUME PanelInv, BasicInv', Expire_Answered
  PROVE  PanelInv'
<1>1. /\ job = NoJob /\ job' = job /\ calls["generate"] = Idle /\ calls["expire"] # Idle
      /\ UNCHANGED <<storeVars, disturbed>> /\ "expire" \in Functions
      /\ calls["expire"].state \in {"revoked", "failed"}
  BY IdleIsNot DEF Expire_Answered, PanelInv, Locks, Waits, Functions
<1>2. calls' \in [Functions -> Calls] /\ calls'["expire"] = Idle /\ calls'["generate"] = Idle
  BY <1>1, IdleIsNot, CallSets DEF Expire_Answered, PanelInv, BasicInv, PanelTypeOK, Functions
<1>3. Locks' /\ Waits'
  BY <1>1, <1>2, IdleIsNot DEF Locks, Waits, NoJob
<1>4. ASSUME \/ calls["expire"].state = "failed"
             \/ ~calls["expire"].revoked /\ IsActive(panel),
             UNCHANGED <<panel, timerOn, shown, retired>>
      PROVE  PanelInv'
  <2>1. ~disturbed => calls["expire"].state # "revoked"
    BY <1>1, <1>4 DEF PanelInv, Agrees
  <2>2. Records'
    <3>1. (panel.token # NoToken => RecordOf(panel.token, panel.room, panel.expiresAt))'
      BY <1>1, <1>4 DEF PanelInv, Records, RecordOf, storeVars
    <3> QED
      BY <1>2, <3>1, IdleIsNot DEF Records, Functions
  <2>3. DroppedTokensAreDead'
    BY <1>1, <1>4 DEF PanelInv, DroppedTokensAreDead, Live, Expired, storeVars
  <2>4. ASSUME ~disturbed PROVE Agrees'
    <3>1. \A t \in Tokens : Live(t)' <=> Live(t)
      BY <1>1 DEF Live, Expired, storeVars
    <3>2. \A t \in Tokens : ShouldLive(t)' <=> ShouldLive(t)
      BY <1>1, <1>2, <1>4, <2>1, <2>4, IdleIsNot DEF ShouldLive, Functions, storeVars
    <3> QED
      BY <1>2, <2>4, <3>1, <3>2, IdleIsNot DEF PanelInv, Agrees, Functions
  <2> QED
    BY <1>1, <1>3, <2>2, <2>3, <2>4 DEF PanelInv, Agrees
<1>5. ASSUME ~(\/ calls["expire"].state = "failed"
               \/ ~calls["expire"].revoked /\ IsActive(panel)),
             DropPairing
      PROVE  PanelInv'
  BY <1>1, <1>2, <1>3, <1>5, IdleIsNot, DropKeeps
<1> QED
  BY <1>4, <1>5 DEF Expire_Answered

LEMMA TokenArrivedKeeps ==
  ASSUME PanelInv, BasicInv', TokenArrived
  PROVE  PanelInv'
<1> DEFINE answer == calls["generate"]
           next == [token |-> answer.token, room |-> answer.room, expiresAt |-> answer.expiresAt]
<1>1. /\ job # NoJob /\ calls["generate"].state = "created" /\ UNCHANGED storeVars
      /\ calls["expire"] = Idle /\ calls \in [Functions -> Calls]
      /\ answer.token \in Tokens
  BY CallFields DEF TokenArrived, NoJob, PanelInv, Locks, BasicInv, PanelTypeOK, Functions
<1>2. calls'["generate"] = Idle /\ calls'["expire"] = Idle
  BY <1>1, IdleIsNot, CallSets DEF TokenArrived, Functions
<1>3. ASSUME GenerateFails, disturbed' = TRUE PROVE PanelInv'
  BY <1>1, <1>3, GivenUpKeeps DEF TokenArrived
<1>4. ASSUME IsActive(next), panel' = next, job' = [job EXCEPT !.phase = "drawing"],
             retired' = retired \cup ({panel.token} \cap Tokens),
             UNCHANGED <<canGenerate, canExpire, disturbed>>
      PROVE  PanelInv'
  <2>1. job'.phase = "drawing" /\ job' # NoJob
    BY <1>1, <1>4, JobFields DEF PanelInv, BasicInv, PanelTypeOK, Jobs, NoJob
  <2>2. Locks' /\ Waits'
    BY <1>1, <1>2, <1>4, <2>1, IdleIsNot DEF PanelInv, Locks, Waits, NoJob
  <2>3. RecordOf(answer.token, answer.room, answer.expiresAt) /\ ~Live(panel.token)
    BY <1>1 DEF PanelInv, Records
  <2>4. panel'.token = answer.token /\ panel'.room = answer.room /\ panel'.expiresAt = answer.expiresAt
    BY <1>4
  <2>5. Records'
    BY <1>1, <1>2, <2>3, <2>4, IdleIsNot DEF Records, RecordOf, Functions, storeVars
  <2>6. DroppedTokensAreDead'
    BY <1>1, <1>4, <2>3 DEF PanelInv, DroppedTokensAreDead, Live, Expired, storeVars
  <2>7. ASSUME ~disturbed PROVE Agrees'
    <3>1. \A t \in Tokens : Live(t)' <=> Live(t)
      BY <1>1 DEF Live, Expired, storeVars
    <3>2. \A t \in Tokens : ShouldLive(t) <=> t = answer.token /\ now < answer.expiresAt
      BY <1>1 DEF ShouldLive
    <3>3. \A t \in Tokens : ShouldLive(t)' <=> t = answer.token /\ now < answer.expiresAt
      BY <1>1, <1>2, <2>4, IdleIsNot DEF ShouldLive, Functions, storeVars
    <3>4. \A t \in Tokens : Live(t) <=> ShouldLive(t)
      BY <2>7 DEF PanelInv, Agrees
    <3> QED
      BY <1>2, <3>1, <3>2, <3>3, <3>4, IdleIsNot DEF Agrees, Functions
  <2> QED
    BY <1>4, <2>2, <2>5, <2>6, <2>7 DEF PanelInv, Agrees
<1> QED
  BY <1>3, <1>4 DEF TokenArrived

\* One call moves on at the relay or in the network: the pairing and the locks stay.
LEMMA LocksKept ==
  ASSUME PanelInv, NEW f \in Functions, NEW r \in Calls, Call(f, r),
         calls[f].state # "idle", r.state # "idle",
         f = "generate" /\ job.phase = "leaving" => r.state \in {"deleted", "revoked", "failed"},
         f = "generate" /\ job.phase = "minting" => r.state \in {"posted", "created", "failed"},
         f = "expire" => r.state \in {"deleted", "revoked", "failed"},
         UNCHANGED <<job, canGenerate, canExpire>>
  PROVE  /\ Locks' /\ Waits' /\ calls'[f] = r
         /\ \A g \in Functions : g # f => calls[g] = Idle /\ calls'[g] = Idle
<1>1. calls \in [Functions -> Calls] /\ job \in Jobs
  BY DEF PanelInv, BasicInv, PanelTypeOK
<1>2. /\ calls'[f] = r
      /\ \A g \in Functions : g # f => calls'[g] = calls[g]
  BY <1>1, CallSets
<1>3. calls[f] # Idle
  BY IdleIsNot
<1>4. CASE f = "generate"
  <2>1. job # NoJob /\ job.phase \in {"leaving", "minting"}
    BY <1>1, <1>3, <1>4, JobFields DEF PanelInv, Waits
  <2>2. calls["expire"] = Idle /\ calls'["expire"] = Idle
    BY <1>2, <1>4, <2>1 DEF PanelInv, Locks, Functions
  <2> QED
    BY <1>2, <1>4, <2>1, <2>2, IdleIsNot DEF PanelInv, Locks, Waits, Functions
<1>5. CASE f = "expire"
  <2>1. job = NoJob /\ calls["generate"] = Idle /\ calls'["generate"] = Idle
    BY <1>2, <1>3, <1>5 DEF PanelInv, Locks, Waits, Functions
  <2> QED
    BY <1>2, <1>3, <1>5, <2>1, IdleIsNot DEF PanelInv, Locks, Waits, Functions, NoJob
<1> QED
  BY <1>4, <1>5 DEF Functions

LEMMA ExpireKeeps ==
  ASSUME PanelInv, BasicInv', Expire
  PROVE  PanelInv'
<1>1. /\ job = NoJob /\ job' = job /\ calls["expire"] = Idle /\ calls["generate"] = Idle
      /\ ~canGenerate' /\ ~canExpire' /\ panel.token # NoToken
      /\ UNCHANGED <<storeVars, panel, retired, disturbed>>
      /\ calls \in [Functions -> Calls] /\ panel \in Pairings
  BY DEF Expire, Busy, PanelInv, Locks, Waits, BasicInv, PanelTypeOK
<1>2. calls'["generate"] = Idle /\ calls'["expire"] = DeleteOf(panel)
  BY <1>1, Requests, CallSets DEF Expire, Functions
<1>3. Locks' /\ Waits'
  BY <1>1, <1>2, IdleIsNot DEF Locks, Waits, NoJob, DeleteOf
<1>4. Records'
  <2>1. (panel.token # NoToken => RecordOf(panel.token, panel.room, panel.expiresAt))'
    BY <1>1 DEF PanelInv, Records, RecordOf, storeVars
  <2> QED
    BY <1>1, <1>2, <2>1, IdleIsNot DEF Records, Functions, DeleteOf
<1>5. DroppedTokensAreDead'
  BY <1>1 DEF PanelInv, DroppedTokensAreDead, Live, Expired, storeVars
<1>6. Agrees'
  <2>1. /\ calls'["generate"].state = "idle" /\ calls'["expire"].state = "deleted"
        /\ calls["generate"].state = "idle" /\ calls["expire"].state = "idle"
    BY <1>1, <1>2, IdleIsNot DEF DeleteOf
  <2>2. \A t \in Tokens : Live(t)' <=> Live(t)
    BY <1>1 DEF Live, Expired, storeVars
  <2>3. \A t \in Tokens : ShouldLive(t)' <=> ShouldLive(t)
    BY <1>1, <2>1 DEF ShouldLive, Functions, storeVars
  <2> QED
    BY <1>1, <2>1, <2>2, <2>3 DEF PanelInv, Agrees, Functions
<1> QED
  BY <1>3, <1>4, <1>5, <1>6 DEF PanelInv

LEMMA LostKeeps ==
  ASSUME PanelInv, BasicInv', NEW f \in Functions, RequestLost(f) \/ AnswerLost(f)
  PROVE  PanelInv'
<1> DEFINE r == [state |-> "failed"]
<1>1. /\ calls[f].state \in {"posted", "deleted", "created", "revoked"} /\ Call(f, r)
      /\ UNCHANGED <<storeVars, panel, job, canGenerate, canExpire, retired>>
      /\ ~disturbed' => ~disturbed /\ calls[f].state \in {"posted", "deleted"}
      /\ r \in Calls /\ r.state = "failed"
  BY IdleIsNot DEF RequestLost, AnswerLost, panelVars
<1> HIDE DEF r
<1>2. /\ Locks' /\ Waits' /\ calls'[f] = r
      /\ \A g \in Functions : g # f => calls[g] = Idle /\ calls'[g] = Idle
  BY <1>1, LocksKept
<1>3. /\ calls'["generate"].state \in {"idle", "failed"}
      /\ \A g \in Functions : calls'[g].state \in {"idle", "failed"}
  BY <1>1, <1>2, IdleIsNot DEF Functions
<1>4. Records'
  <2>1. (panel.token # NoToken => RecordOf(panel.token, panel.room, panel.expiresAt))'
    BY <1>1 DEF PanelInv, Records, RecordOf, storeVars
  <2> QED
    BY <1>3, <2>1 DEF Records
<1>5. DroppedTokensAreDead'
  BY <1>1 DEF PanelInv, DroppedTokensAreDead, Live, Expired, storeVars
<1>6. ASSUME ~disturbed' PROVE Agrees'
  <2>1. /\ calls["generate"].state # "created" /\ \A g \in Functions : calls[g].state # "revoked"
    BY <1>1, <1>2, <1>6, IdleIsNot DEF Functions
  <2>2. \A t \in Tokens : Live(t)' <=> Live(t)
    BY <1>1 DEF Live, Expired, storeVars
  <2>3. \A t \in Tokens : ShouldLive(t)' <=> ShouldLive(t)
    BY <1>1, <1>3, <2>1 DEF ShouldLive, storeVars
  <2> QED
    BY <1>1, <1>3, <1>6, <2>1, <2>2, <2>3 DEF PanelInv, Agrees
<1> QED
  BY <1>2, <1>4, <1>5, <1>6 DEF PanelInv, Agrees

LEMMA LifetimePositive ==
  ASSUME NEW ttl \in RequestedTtls
  PROVE  NormalizeTtl(ttl) \in Nat /\ NormalizeTtl(ttl) > 0
<1>1. ttl \in Nat /\ MinTtl \in Nat /\ MinTtl > 0 /\ MaxTtl \in Nat /\ MaxTtl >= MinTtl
  BY StoreAssumption
<1> QED
  BY <1>1 DEF NormalizeTtl

LEMMA MintKeeps ==
  ASSUME PanelInv, BasicInv', NEW room \in Rooms, NEW ttl \in RequestedTtls, NEW previous,
         NEW t, NEW e, e = now + NormalizeTtl(ttl),
         calls["generate"].state = "posted", room = calls["generate"].room,
         previous = calls["generate"].token, PostToken(Desktop, room, ttl, previous, t),
         Call("generate", [state |-> "created", room |-> room, token |-> t, expiresAt |-> e]),
         UNCHANGED <<panel, job, canGenerate, canExpire, retired, disturbed>>
  PROVE  PanelInv'
<1> DEFINE answer == [state |-> "created", room |-> room, token |-> t, expiresAt |-> e]
<1>1. "generate" \in Functions /\ "expire" \in Functions
  BY DEF Functions
<1>2. /\ previous = panel.token /\ (panel.token # NoToken => room = panel.room)
      /\ StoreInv
  BY <1>1 DEF PanelInv, BasicInv, Records
<1>3. /\ t \in Tokens /\ t \notin issued /\ issued' = issued \cup {t} /\ now' = now
      /\ tokens' = [u \in DOMAIN tokens \cup {t} |->
                      IF u = t THEN [room |-> room, revoked |-> FALSE, expiresAt |-> e]
                               ELSE WithRevoked(previous, room)[u]]
  BY DEF PostToken, IssuePairingToken
<1>4. e \in Nat /\ now < e
  BY <1>2, LifetimePositive DEF StoreInv, StoreTypeOK
<1>5. /\ answer \in Calls /\ answer.state = "created" /\ answer.token = t
      /\ answer.room = room /\ answer.expiresAt = e
  BY <1>3, <1>4, Answers
<1>6. job # NoJob /\ job.phase = "minting"
  <2>1. job.phase \in {"leaving", "minting", "drawing", "none"} /\ (job.phase = "none" => job = NoJob)
    BY JobFields DEF PanelInv, BasicInv, PanelTypeOK
  <2> QED
    BY <2>1, IdleIsNot DEF PanelInv, Waits
<1>7. /\ Locks' /\ Waits' /\ calls'["generate"] = answer
      /\ calls["expire"] = Idle /\ calls'["expire"] = Idle
  <2> HIDE DEF answer
  <2>1. Call("generate", answer)
    BY DEF answer
  <2> QED
    BY <1>1, <1>5, <1>6, <2>1, LocksKept
<1>8. StoreMoves
  BY PanelAssumption DEF StoreMoves
<1>9. ASSUME NEW p, p = panel.token PROVE ~Live(p)'
  <2>1. p # t /\ (p # NoToken => p \in issued)
    BY <1>3, <1>9, StoreAssumption DEF PanelInv, BasicInv, Known
  <2>2. ASSUME p \in DOMAIN tokens PROVE tokens'[p].revoked
    <3>1. p # NoToken
      BY <1>2, <2>2, StoreAssumption DEF StoreInv, StoreTypeOK
    <3>2. tokens[p].room = room
      BY <1>2, <1>9, <2>2, <3>1 DEF PanelInv, Records, RecordOf
    <3>3. tokens'[p] = [tokens[p] EXCEPT !.revoked = TRUE]
      BY <1>2, <1>3, <1>9, <2>1, <2>2, <3>2 DEF WithRevoked, Revocable
    <3> QED
      BY <1>2, <2>2, <3>3 DEF StoreInv, StoreTypeOK, TokenRecord
  <2>3. p \in DOMAIN tokens' => p \in DOMAIN tokens
    BY <1>3, <2>1
  <2> QED
    BY <2>2, <2>3 DEF Live
<1>10. /\ t \in issued' /\ t \in DOMAIN tokens'
       /\ tokens'[t] = [room |-> room, revoked |-> FALSE, expiresAt |-> e]
  BY <1>3
<1>11. RecordOf(t, room, e)' /\ Live(t)'
  BY <1>3, <1>4, <1>10 DEF RecordOf, Live, Expired, StoreInv, StoreTypeOK, BasicInv
<1>12. Records'
  <2>1. panel.token # NoToken => RecordOf(panel.token, panel.room, panel.expiresAt)'
    <3>1. PICK p : p = panel
      OBVIOUS
    <3>2. ASSUME p.token # NoToken PROVE RecordOf(p.token, p.room, p.expiresAt)'
      <4>1. p.token \in issued /\ RecordOf(p.token, p.room, p.expiresAt)
        BY <3>1, <3>2 DEF PanelInv, Records, RecordOf
      <4> QED
        BY <1>2, <1>8, <4>1, MintedTokenKept DEF KeepsToken
    <3> QED
      BY <3>1, <3>2 DEF RecordOf
  <2>2. PICK p : p = panel.token
    OBVIOUS
  <2>3. ~Live(p)'
    BY <1>9, <2>2
  <2>4. ~Live(panel.token)'
    BY <2>2, <2>3 DEF Live, Expired
  <2>5. /\ calls'["generate"].state = "created" /\ calls'["generate"].token = t
        /\ calls'["generate"].room = room /\ calls'["generate"].expiresAt = e
    BY <1>5, <1>7
  <2>6. RecordOf(calls["generate"].token, calls["generate"].room, calls["generate"].expiresAt)'
    BY <1>11, <2>5 DEF RecordOf
  <2>7. calls'["expire"].state = "idle"
    BY <1>7, IdleIsNot
  <2> HIDE DEF answer
  <2> QED
    BY <2>1, <2>4, <2>5, <2>6, <2>7 DEF Records, Functions
<1>13. DroppedTokensAreDead'
  BY <1>8, DroppedKept DEF PanelInv, DroppedTokensAreDead
<1>14. ASSUME ~disturbed PROVE Agrees'
  <2>1. calls'["generate"].state = "created" /\ calls'["generate"].token = t
        /\ calls'["generate"].expiresAt = e /\ calls'["expire"].state = "idle"
    BY <1>5, <1>7, IdleIsNot
  <2>2. \A u \in Tokens : ShouldLive(u)' <=> u = t
    BY <1>3, <1>4, <2>1 DEF ShouldLive
  <2>3. ASSUME NEW u \in Tokens, u # t PROVE ~Live(u)'
    <3>1. CASE u = panel.token
      BY <1>9, <3>1
    <3>2. CASE u # panel.token
      <4>1. ~Live(u)
        BY <1>14, <3>2 DEF PanelInv, Agrees, ShouldLive
      <4>2. u \in DOMAIN tokens' => u \in DOMAIN tokens /\ tokens'[u] = WithRevoked(previous, room)[u]
        BY <1>3, <2>3
      <4>3. u \in DOMAIN tokens =>
              /\ WithRevoked(previous, room)[u].expiresAt = tokens[u].expiresAt
              /\ ~WithRevoked(previous, room)[u].revoked => ~tokens[u].revoked
        BY <1>2 DEF WithRevoked, StoreInv, StoreTypeOK, TokenRecord
      <4>4. now' = now
        BY <1>3
      <4> QED
        BY <4>1, <4>2, <4>3, <4>4 DEF Live, Expired
    <3> QED
      BY <3>1, <3>2
  <2> QED
    BY <1>3, <1>11, <2>1, <2>2, <2>3 DEF Agrees, Functions
<1> QED
  BY <1>7, <1>12, <1>13, <1>14 DEF PanelInv, Agrees

LEMMA RelayPostKeeps ==
  ASSUME PanelInv, BasicInv', Relay_Post
  PROVE  PanelInv'
<1> DEFINE t == CHOOSE u \in Tokens : u \notin issued
           r == calls["generate"]
<1>1. r.state = "posted" /\ "generate" \in Functions
  BY DEF Relay_Post, Functions
<1>2. r.room \in Rooms /\ r.ttl \in RequestedTtls
  BY <1>1, CallFields DEF PanelInv, BasicInv, PanelTypeOK
<1>3. /\ PostToken(Desktop, r.room, r.ttl, r.token, t)
      /\ Call("generate", [state |-> "created", room |-> r.room, token |-> t,
                           expiresAt |-> now + NormalizeTtl(r.ttl)])
      /\ UNCHANGED <<panel, job, canGenerate, canExpire, retired, disturbed>>
  BY DEF Relay_Post, panelVars
<1> HIDE DEF t
<1> QED
  BY <1>1, <1>2, <1>3, MintKeeps

LEMMA RelayDeleteKeeps ==
  ASSUME PanelInv, BasicInv', NEW f \in Functions, Relay_Delete(f)
  PROVE  PanelInv'
<1> DEFINE answer == [state |-> "revoked", revoked |-> Revocable(calls[f].token, calls[f].room)]
<1>1. /\ answer \in Calls /\ answer.state = "revoked"
      /\ (answer.revoked <=> Revocable(calls[f].token, calls[f].room))
      /\ calls[f].state = "deleted" /\ Call(f, answer) /\ DeleteToken(calls[f].token, calls[f].room)
      /\ UNCHANGED <<panel, job, canGenerate, canExpire, retired, disturbed>>
  BY Answers DEF Revocable, Relay_Delete, panelVars
<1> HIDE DEF answer
<1>2. /\ Locks' /\ Waits' /\ calls'[f] = answer
      /\ \A g \in Functions : g # f => calls[g] = Idle /\ calls'[g] = Idle
  <2>1. f = "generate" => job.phase # "minting"
    BY <1>1 DEF PanelInv, Waits
  <2> QED
    BY <1>1, <2>1, LocksKept
<1>3. PICK p : p = panel
  OBVIOUS
<1>4. /\ calls[f].token = p.token /\ calls[f].room = p.room /\ p.token # NoToken
      /\ RecordOf(p.token, p.room, p.expiresAt) /\ StoreInv
  BY <1>1, <1>3 DEF PanelInv, Records, BasicInv
<1>5. StoreMoves /\ now' = now /\ tokens' = WithRevoked(p.token, p.room)
  BY <1>1, <1>4 DEF StoreMoves, DeleteToken
<1>6. DOMAIN tokens' = DOMAIN tokens
  BY <1>5 DEF WithRevoked
<1>7. /\ answer.revoked <=> p.token \in DOMAIN tokens
      /\ ~Live(p.token)'
  <2>1. Revocable(p.token, p.room) <=> p.token \in DOMAIN tokens
    BY <1>4 DEF Revocable, RecordOf
  <2>2. ASSUME p.token \in DOMAIN tokens PROVE tokens'[p.token].revoked
    BY <1>4, <1>5, <2>1, <2>2 DEF WithRevoked, StoreInv, StoreTypeOK, TokenRecord
  <2> QED
    BY <1>1, <1>4, <1>6, <2>1, <2>2 DEF Live
<1>8. /\ calls'[f].state = "revoked" /\ calls'["generate"].state # "created"
      /\ calls'["generate"].state # "posted"
      /\ \A g \in Functions : calls'[g].state # "deleted"
      /\ \A g \in Functions : calls'[g].state = "revoked" => g = f
  BY <1>1, <1>2, IdleIsNot DEF Functions
<1>9. Records'
  <2>1. RecordOf(p.token, p.room, p.expiresAt)'
    BY <1>4, <1>5, MintedTokenKept DEF KeepsToken, RecordOf
  <2>2. (panel.token # NoToken => RecordOf(panel.token, panel.room, panel.expiresAt))'
    BY <1>1, <1>3, <2>1 DEF RecordOf
  <2>3. ~Live(panel.token)'
    BY <1>1, <1>3, <1>7 DEF Live, Expired
  <2> QED
    BY <1>8, <2>2, <2>3 DEF Records
<1>10. DroppedTokensAreDead'
  BY <1>1, <1>5, DroppedKept DEF PanelInv, DroppedTokensAreDead
<1>11. ASSUME ~disturbed PROVE Agrees'
  <2>1. \A u \in Tokens : ~ShouldLive(u)'
    BY <1>8 DEF ShouldLive
  <2>2. \A g \in Functions : calls[g].state # "revoked"
    BY <1>1, <1>2, IdleIsNot
  <2>3. calls["generate"].state # "created"
    BY <1>1, <1>2, IdleIsNot DEF Functions
  <2>4. \A u \in Tokens : Live(u) <=> u = p.token /\ now < p.expiresAt
    BY <1>3, <1>11, <2>2, <2>3 DEF PanelInv, Agrees, ShouldLive
  <2>5. ASSUME NEW u \in Tokens PROVE ~Live(u)'
    <3>1. CASE u = p.token
      BY <1>7, <3>1
    <3>2. CASE u # p.token
      <4>1. u \in DOMAIN tokens => tokens'[u] = tokens[u]
        BY <1>5, <3>2 DEF WithRevoked
      <4> QED
        BY <1>5, <1>6, <2>4, <3>2, <4>1 DEF Live, Expired
    <3> QED
      BY <3>1, <3>2
  <2>6. ASSUME ~answer.revoked PROVE ~IsActive(panel)'
    <3>1. p.token \notin DOMAIN tokens
      BY <1>7, <2>6
    <3>2. p.token \in Tokens
      BY <1>3, <1>4, PanelFields DEF PanelInv, BasicInv, PanelTypeOK
    <3>3. ~(now < p.expiresAt)
      BY <2>4, <3>1, <3>2 DEF Live
    <3> QED
      BY <1>1, <1>3, <1>5, <3>3 DEF IsActive
  <2> QED
    BY <1>2, <1>8, <2>1, <2>5, <2>6 DEF Agrees
<1> QED
  BY <1>1, <1>2, <1>9, <1>10, <1>11 DEF PanelInv, Agrees

LEMMA RestartKeeps ==
  ASSUME PanelInv, BasicInv', Restart
  PROVE  PanelInv'
<1>1. StoreMoves /\ UNCHANGED <<panel, job, calls, canGenerate, canExpire, retired>> /\ disturbed'
  BY DEF Restart, StoreMoves
<1>2. Records'
  BY <1>1, RecordsKept DEF PanelInv, BasicInv
<1>3. DroppedTokensAreDead'
  BY <1>1, DroppedKept DEF PanelInv, DroppedTokensAreDead
<1> QED
  BY <1>1, <1>2, <1>3 DEF PanelInv, Locks, Waits, Agrees

LEMMA TimersKeep ==
  ASSUME PanelInv, BasicInv', Timers
  PROVE  PanelInv'
<1>1. /\ StoreMoves /\ (Purge \/ Tick)
      /\ UNCHANGED <<panel, job, calls, canGenerate, canExpire, retired, disturbed>>
  BY DEF Timers, StoreMoves, panelVars
<1>2. Records'
  BY <1>1, RecordsKept DEF PanelInv, BasicInv
<1>3. DroppedTokensAreDead'
  BY <1>1, DroppedKept DEF PanelInv, DroppedTokensAreDead
<1>4. Locks' /\ Waits'
  BY <1>1 DEF PanelInv, Locks, Waits
<1>5. ASSUME ~disturbed PROVE Agrees'
  <2>1. StoreTypeOK /\ StoreTypeOK' /\ panel \in Pairings /\ calls \in [Functions -> Calls]
    BY DEF PanelInv, BasicInv, StoreInv, PanelTypeOK
  <2>2. now \in Nat /\ now' \in Nat /\ now <= now'
    BY <1>1, <2>1 DEF StoreTypeOK, Purge, Tick
  <2>3. ASSUME NEW t \in Tokens PROVE Live(t)' <=> Live(t) /\ now' < tokens[t].expiresAt
    <3>1. CASE Purge
      BY <2>1, <3>1 DEF Purge, Survivors, Live, Expired, StoreTypeOK, TokenRecord
    <3>2. CASE Tick
      BY <2>1, <3>2 DEF Tick, Live, Expired, StoreTypeOK, TokenRecord
    <3> QED
      BY <1>1, <3>1, <3>2
  <2>4. \A t \in Tokens : Live(t) <=> ShouldLive(t)
    BY <1>5 DEF PanelInv, Agrees
  <2>5. ASSUME NEW t \in Tokens PROVE Live(t)' <=> ShouldLive(t)'
    <3>1. CASE calls["generate"].state = "created"
      <4>1. calls["generate"].expiresAt \in Nat
        BY <2>1, <3>1, CallFields DEF Functions
      <4>2. t = calls["generate"].token /\ Live(t) => tokens[t].expiresAt = calls["generate"].expiresAt
        BY <3>1 DEF PanelInv, Records, RecordOf, Live
      <4> QED
        BY <1>1, <2>2, <2>3, <2>4, <3>1, <4>1, <4>2 DEF ShouldLive
    <3>2. CASE calls["generate"].state # "created"
      <4>1. panel.expiresAt \in Nat
        BY <2>1, PanelFields
      <4>2. t = panel.token /\ Live(t) => tokens[t].expiresAt = panel.expiresAt
        BY StoreAssumption DEF PanelInv, Records, RecordOf, Live
      <4> QED
        BY <1>1, <2>2, <2>3, <2>4, <3>2, <4>1, <4>2 DEF ShouldLive
    <3> QED
      BY <3>1, <3>2
  <2>6. ~IsActive(panel) => ~IsActive(panel)'
    <3>1. panel.expiresAt \in Nat
      BY <2>1, PanelFields
    <3> QED
      BY <1>1, <2>2, <3>1 DEF IsActive
  <2> QED
    BY <1>1, <1>5, <2>5, <2>6 DEF PanelInv, Agrees
<1> QED
  BY <1>1, <1>2, <1>3, <1>4, <1>5 DEF PanelInv, Agrees

LEMMA PanelInit == Init => PanelInv
<1> SUFFICES ASSUME Init PROVE PanelInv
  OBVIOUS
<1>1. BasicInv
  BY BasicInit
<1>2. /\ \A f \in Functions : calls[f] = Idle
      /\ calls["generate"] = Idle /\ calls["expire"] = Idle /\ job = NoJob /\ panel.token = NoToken
      /\ DOMAIN tokens = {} /\ retired = {}
  BY DEF Init, StoreInit, Empty, NoPairing, Functions
<1>3. Locks /\ Waits
  BY <1>2, IdleIsNot DEF Locks, Waits, NoJob
<1>4. Records /\ DroppedTokensAreDead
  BY <1>2, IdleIsNot DEF Records, DroppedTokensAreDead
<1>5. Agrees
  BY <1>2, IdleIsNot, StoreAssumption DEF Agrees, ShouldLive, Live
<1> QED
  BY <1>1, <1>3, <1>4, <1>5 DEF PanelInv

LEMMA PanelNext ==
  ASSUME KeyboardShortcut = FALSE, PanelInv, [Next]_vars
  PROVE  PanelInv'
<1>0. BasicInv'
  BY BasicNext DEF PanelInv
<1>1. ASSUME NEW room \in Rooms, NEW ttl \in RequestedTtls, Generate(room, ttl) PROVE PanelInv'
  BY <1>0, <1>1, GenerateKeeps
<1>2. CASE GenerateRejected
  BY <1>0, <1>2, GenerateRejectedKeeps
<1>3. CASE LeftOldRoom
  BY <1>0, <1>3, LeftOldRoomKeeps
<1>4. CASE TokenArrived
  BY <1>0, <1>4, TokenArrivedKeeps
<1>5. CASE GenerateCallFailed
  BY <1>0, <1>5, GenerateCallFailedKeeps
<1>6. ASSUME NEW drawn \in BOOLEAN, QrDrawn(drawn) PROVE PanelInv'
  BY <1>0, <1>6, QrDrawnKeeps
<1>7. CASE Expire
  BY <1>0, <1>7, ExpireKeeps
<1>8. CASE Expire_Answered
  BY <1>0, <1>8, ExpireAnsweredKeeps
<1>9. CASE Countdown
  BY <1>0, <1>9, CountdownKeeps
<1>10. CASE Relay_Post
  BY <1>0, <1>10, RelayPostKeeps
<1>11. ASSUME NEW f \in Functions, Relay_Delete(f) PROVE PanelInv'
  BY <1>0, <1>11, RelayDeleteKeeps
<1>12. ASSUME NEW f \in Functions, RequestLost(f) \/ AnswerLost(f) PROVE PanelInv'
  BY <1>0, <1>12, LostKeeps
<1>13. CASE Restart
  BY <1>0, <1>13, RestartKeeps
<1>14. CASE Timers
  BY <1>0, <1>14, TimersKeep
<1>15. CASE UNCHANGED vars
  <2>1. UNCHANGED <<storeVars, panel, calls, retired, disturbed>>
    BY <1>15 DEF vars, panelVars
  <2>2. Locks' /\ Waits'
    BY <1>15 DEF vars, panelVars, PanelInv, Locks, Waits
  <2> QED
    BY <1>0, <2>1, <2>2, StillKept DEF PanelInv
<1> QED
  BY <1>1, <1>2, <1>3, <1>4, <1>5, <1>6, <1>7, <1>8, <1>9, <1>10, <1>11, <1>12, <1>13,
     <1>14, <1>15 DEF Next

LEMMA PanelAlways ==
  ASSUME KeyboardShortcut = FALSE
  PROVE  Spec => []PanelInv
<1>1. PanelInv /\ [Next]_vars => PanelInv'
  BY PanelNext
<1> QED
  BY <1>1, PanelInit, PTL DEF Spec

\* As long as the form is not submitted from the keyboard while a call runs, a
\* token the panel has replaced, left or expired is dead at the relay, whatever
\* requests and answers are lost and whenever the relay restarts
\* (desktop.js 344-474, issuePairingToken and revokePairingToken of server.mjs).
THEOREM DroppedStayDead ==
  ASSUME KeyboardShortcut = FALSE
  PROVE  Spec => []DroppedTokensAreDead
<1>1. PanelInv => DroppedTokensAreDead
  BY DEF PanelInv
<1> QED
  BY <1>1, PanelAlways, PTL

\* Under the same condition a panel at rest that was told of everything shows
\* exactly the token that is live at the relay, and nothing when none is.
THEOREM PanelAgrees ==
  ASSUME KeyboardShortcut = FALSE
  PROVE  Spec => []RelayAgreesWithPanel
<1>1. PanelInv => RelayAgreesWithPanel
  <2> SUFFICES ASSUME PanelInv, ~disturbed, job = NoJob, calls["expire"] = Idle
               PROVE  {t \in Tokens : Live(t)} = IF IsActive(panel) THEN {panel.token} ELSE {}
    BY DEF RelayAgreesWithPanel
  <2>1. calls["generate"] = Idle /\ \A f \in Functions : calls[f].state = "idle"
    BY IdleIsNot DEF PanelInv, Waits, Functions
  <2>2. \A t \in Tokens : Live(t) <=> t = panel.token /\ now < panel.expiresAt
    BY <2>1, IdleIsNot DEF PanelInv, Agrees, ShouldLive
  <2>3. panel.token \in Tokens \cup {NoToken}
    BY PanelFields DEF PanelInv, BasicInv, PanelTypeOK
  <2> QED
    BY <2>2, <2>3, StoreAssumption DEF IsActive
<1> QED
  BY <1>1, PanelAlways, PTL
=============================================================================
