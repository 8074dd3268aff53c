---------------------------- MODULE PairingPanel ----------------------------
(***************************************************************************)
(* "Pair a tracker" in Minamo Studio (desktop/desktop.js) and the relay it *)
(* talks to: the panel mints, rotates and expires pairing tokens with      *)
(* fetch calls that may be lost on the way there or on the way back, while *)
(* a timer, two buttons and a keyboard shortcut act on the same state.     *)
(*                                                                         *)
(* generatePhonePairing suspends up to three times (DELETE for a room that *)
(* was left, POST, drawing the QR); `job` says where, and carries what the *)
(* function read from the form before its first await.  expirePhonePairing *)
(* suspends once; while it does, its call is not idle.                     *)
(***************************************************************************)
EXTENDS PairingTokens

CONSTANTS
  Desktop,           \* the panel's address, one of Clients
  KeyboardShortcut   \* is Ctrl+Enter pressed in the form while a call runs?

ASSUME PanelAssumption == Desktop \in Clients /\ KeyboardShortcut \in BOOLEAN

VARIABLES
  panel,        \* phonePairing.{token, room, expiresAt}
  job,          \* the suspended generatePhonePairing, if any
  calls,        \* the fetch of each of the two functions
  canGenerate,  \* ~btnGeneratePairing.disabled
  canExpire,    \* ~btnExpirePairing.disabled
  timerOn,      \* phonePairing.timer # null
  shown,        \* pairingQrShell.dataset.state
  retired,      \* history: tokens shown once and since replaced or expired here
  disturbed     \* history: a call took effect and the panel was not told in time

panelVars == <<panel, job, canGenerate, canExpire, timerOn, shown, retired, disturbed>>
vars == <<storeVars, panelVars, calls>>

Functions == {"generate", "expire"}

NoPairing == [token |-> NoToken, room |-> NoRoom, expiresAt |-> 0]
NoJob     == [phase |-> "none"]
Idle      == [state |-> "idle"]

Pairings == [token : Tokens, room : Rooms, expiresAt : Nat] \cup {NoPairing}
Jobs == [phase : {"leaving", "minting", "drawing"}, room : Rooms, ttl : RequestedTtls]
          \cup {NoJob}
Calls ==
  {Idle, [state |-> "failed"]}
  \cup [state : {"posted"}, room : Rooms, ttl : RequestedTtls, token : Tokens \cup {NoToken}]
  \cup [state : {"deleted"}, room : Rooms, token : Tokens]
  \cup [state : {"created"}, room : Rooms, token : Tokens, expiresAt : Nat]
  \cup [state : {"revoked"}, revoked : BOOLEAN]

\* The store's and the panel's variables have their types, and the panel's
\* function waits for exactly the call its phase says.
TypeOK ==
  /\ StoreTypeOK
  /\ panel \in Pairings /\ job \in Jobs
  /\ calls \in [Functions -> Calls]
  /\ {canGenerate, canExpire, timerOn, disturbed} \subseteq BOOLEAN
  /\ shown \in {"none", "active", "expired", "error"}
  /\ retired \subseteq issued
  /\ job.phase \in {"none", "drawing"} <=> calls["generate"] = Idle

Init ==
  /\ StoreInit
  /\ panel = NoPairing /\ job = NoJob
  /\ calls = [f \in Functions |-> Idle]
  /\ canGenerate = TRUE /\ canExpire = FALSE /\ timerOn = FALSE
  /\ shown = "none" /\ retired = {} /\ disturbed = FALSE

-----------------------------------------------------------------------------

IsActive(p) == p.token # NoToken /\ now < p.expiresAt

\* setPairingBusy(true) and setPairingBusy(false)
Busy == canGenerate' = FALSE /\ canExpire' = FALSE
Free(p) == canGenerate' = TRUE /\ canExpire' = IsActive(p)

\* clearPairingSecrets, with renderInactivePairing("expired", ...)
DropPairing ==
  /\ panel' = NoPairing /\ timerOn' = FALSE /\ shown' = "expired"
  /\ retired' = retired \cup ({panel.token} \cap Tokens)

Call(f, request) == calls' = [calls EXCEPT ![f] = request]

PostFor(room, ttl, previous) ==
  [state |-> "posted", room |-> room, ttl |-> ttl, token |-> previous]
DeleteOf(p) == [state |-> "deleted", room |-> p.room, token |-> p.token]

\* The form is submitted.  A token of the same room is handed over as the
\* previous one; a token of another room is deleted first.
Generate(room, ttl) ==
  /\ job = NoJob
  /\ canGenerate \/ KeyboardShortcut
  /\ Busy
  /\ IF panel.token # NoToken /\ panel.room # room
     THEN /\ Call("generate", DeleteOf(panel))
          /\ job' = [phase |-> "leaving", room |-> room, ttl |-> ttl]
     ELSE /\ Call("generate", PostFor(room, ttl, panel.token))
          /\ job' = [phase |-> "minting", room |-> room, ttl |-> ttl]
  /\ UNCHANGED <<storeVars, panel, timerOn, shown, retired, disturbed>>

\* The catch and finally blocks of generatePhonePairing.
GenerateFails ==
  /\ job' = NoJob
  /\ Free(panel)
  /\ IF IsActive(panel) THEN UNCHANGED <<timerOn, shown>>
                        ELSE timerOn' = FALSE /\ shown' = "error"
  /\ UNCHANGED <<panel, retired>>

\* Mutation of LeftOldRoom: an unconfirmed deletion drops the token as well.
LeftOldRoomRegardless ==
  /\ job.phase = "leaving" /\ calls["generate"].state \in {"revoked", "failed"}
  /\ DropPairing
  /\ Busy
  /\ job' = [job EXCEPT !.phase = "minting"]
  /\ Call("generate", PostFor(job.room, job.ttl, NoToken))
  /\ UNCHANGED <<storeVars, disturbed>>

\* The DELETE for the room that was left is answered.
LeftOldRoom ==
  /\ job.phase = "leaving" /\ calls["generate"].state = "revoked"
  /\ IF ~calls["generate"].revoked /\ IsActive(panel)
     THEN GenerateFails /\ Call("generate", Idle)
     ELSE /\ DropPairing
          /\ canExpire' = FALSE /\ UNCHANGED canGenerate
          /\ job' = [job EXCEPT !.phase = "minting"]
          /\ Call("generate", PostFor(job.room, job.ttl, NoToken))
  /\ UNCHANGED <<storeVars, disturbed>>

\* The POST is answered with a token: it becomes the panel's, unless it has
\* expired on the way.
TokenArrived ==
  /\ job.phase = "minting" /\ calls["generate"].state = "created"
  /\ Call("generate", Idle)
  /\ LET answer == calls["generate"]
         next   == [token |-> answer.token, room |-> answer.room,
                    expiresAt |-> answer.expiresAt]
     IN  IF IsActive(next)
         THEN /\ panel' = next
              /\ job' = [job EXCEPT !.phase = "drawing"]
              /\ retired' = retired \cup ({panel.token} \cap Tokens)
              /\ UNCHANGED <<canGenerate, canExpire, timerOn, shown, disturbed>>
         ELSE GenerateFails /\ disturbed' = TRUE
  /\ UNCHANGED storeVars

\* The QR is drawn, or cannot be: either way the timer starts, and its first
\* countdown withdraws a pairing that has expired meanwhile.
QrDrawn(drawn) ==
  /\ job.phase = "drawing"
  /\ job' = NoJob
  /\ LET late == panel.token # NoToken /\ ~IsActive(panel)
     IN  /\ timerOn' = ~late
         /\ shown' = IF late THEN "expired" ELSE IF drawn THEN "active" ELSE "error"
  /\ Free(panel)
  /\ UNCHANGED <<storeVars, panel, calls, retired, disturbed>>

\* The form does not parse, and nothing is sent.
GenerateRejected ==
  /\ job = NoJob
  /\ canGenerate \/ KeyboardShortcut
  /\ GenerateFails
  /\ UNCHANGED <<storeVars, calls, disturbed>>

\* A call of generatePhonePairing was lost, or was refused.
GenerateCallFailed ==
  /\ job # NoJob /\ calls["generate"].state = "failed"
  /\ GenerateFails
  /\ Call("generate", Idle)
  /\ UNCHANGED <<storeVars, disturbed>>

\* The Expire now button.
Expire ==
  /\ canExpire /\ panel.token # NoToken
  /\ calls["expire"] = Idle      \* bound: one expiry in flight
  /\ Busy
  /\ Call("expire", DeleteOf(panel))
  /\ UNCHANGED <<storeVars, panel, job, timerOn, shown, retired, disturbed>>

\* The DELETE of expirePhonePairing is answered: whatever pairing the panel
\* holds by now is dropped.
Expire_Answered ==
  /\ calls["expire"].state \in {"revoked", "failed"}
  /\ Call("expire", Idle)
  /\ IF \/ calls["expire"].state = "failed"
        \/ ~calls["expire"].revoked /\ IsActive(panel)
     THEN Free(panel) /\ UNCHANGED <<panel, timerOn, shown, retired>>
     ELSE DropPairing /\ Free(NoPairing)
  /\ UNCHANGED <<storeVars, job, disturbed>>

\* Mutation of Countdown: nothing is withdrawn while a function runs.
CountdownWhenIdle ==
  /\ timerOn /\ panel.token # NoToken /\ ~IsActive(panel)
  /\ timerOn' = FALSE
  /\ shown' = IF job = NoJob THEN "expired" ELSE shown
  /\ canExpire' = FALSE
  /\ UNCHANGED <<storeVars, panel, calls, job, canGenerate, retired, disturbed>>

\* updatePairingCountdown on the panel's timer finds the token expired.
Countdown ==
  /\ timerOn /\ panel.token # NoToken /\ ~IsActive(panel)
  /\ timerOn' = FALSE /\ shown' = "expired" /\ canExpire' = FALSE
  /\ UNCHANGED <<storeVars, panel, calls, job, canGenerate, retired, disturbed>>

-----------------------------------------------------------------------------
(* The relay and the network between *)

\* Tokens are opaque and never drawn twice, so any fresh one will do.
Relay_Post ==
  /\ calls["generate"].state = "posted"
  /\ issued # Tokens
  /\ LET r == calls["generate"]
         t == CHOOSE u \in Tokens : u \notin issued
     IN  /\ PostToken(Desktop, r.room, r.ttl, r.token, t)
         /\ Call("generate", [state |-> "created", room |-> r.room, token |-> t,
                              expiresAt |-> now + NormalizeTtl(r.ttl)])
  /\ UNCHANGED panelVars

Relay_Delete(f) ==
  /\ calls[f].state = "deleted"
  /\ DeleteToken(calls[f].token, calls[f].room)
  /\ Call(f, [state |-> "revoked", revoked |-> Revocable(calls[f].token, calls[f].room)])
  /\ UNCHANGED panelVars

\* The request does not arrive, or the relay refuses it (429, 403).
RequestLost(f) ==
  /\ calls[f].state \in {"posted", "deleted"}
  /\ Call(f, [state |-> "failed"])
  /\ UNCHANGED <<storeVars, panelVars>>

\* The relay did what was asked, and its answer does not arrive.
AnswerLost(f) ==
  /\ calls[f].state \in {"created", "revoked"}
  /\ Call(f, [state |-> "failed"])
  /\ disturbed' = TRUE
  /\ UNCHANGED <<storeVars, panel, job, canGenerate, canExpire, timerOn, shown, retired>>

Restart ==
  /\ RestartStore
  /\ disturbed' = TRUE
  /\ UNCHANGED <<panel, job, calls, canGenerate, canExpire, timerOn, shown, retired>>

Timers == (Purge \/ Tick) /\ UNCHANGED <<panelVars, calls>>

Next ==
  \/ \E room \in Rooms, ttl \in RequestedTtls : Generate(room, ttl)
  \/ GenerateRejected \/ LeftOldRoom \/ TokenArrived \/ GenerateCallFailed
  \/ \E drawn \in BOOLEAN : QrDrawn(drawn)
  \/ Expire \/ Expire_Answered \/ Countdown
  \/ Relay_Post
  \/ \E f \in Functions : Relay_Delete(f) \/ RequestLost(f) \/ AnswerLost(f)
  \/ Restart \/ Timers

\* The two timers fire.  Nothing else need happen: the user may leave the panel
\* alone, and a fetch here has no timeout and may stay unanswered.
Fairness ==
  /\ WF_vars(Purge /\ UNCHANGED <<panelVars, calls>>)
  /\ WF_vars(Countdown)

Spec == Init /\ [][Next]_vars /\ Fairness

-----------------------------------------------------------------------------

\* A token this panel has shown and then replaced, left or expired is dead at
\* the relay: nobody who scanned the old QR can still join ("atomically
\* invalidate the previous token", "Expire now to reject future joins",
\* docs/product/phone-tracker.md 50).
DroppedTokensAreDead == \A t \in retired : ~Live(t)

\* While no answer was lost or late and the relay was not restarted, a panel at
\* rest and the relay agree: the token counted down is the one live token, and
\* a panel without an active pairing has left no live token behind.
RelayAgreesWithPanel ==
  ~disturbed /\ job = NoJob /\ calls["expire"] = Idle
    => {t \in Tokens : Live(t)} = IF IsActive(panel) THEN {panel.token} ELSE {}

\* A QR shown as active whose token has expired is withdrawn: no path through
\* the panel's functions stops the timer that does it.
ExpiredQrIsWithdrawn ==
  (shown = "active" /\ ~IsActive(panel)) ~> (shown # "active" \/ IsActive(panel))
=============================================================================
