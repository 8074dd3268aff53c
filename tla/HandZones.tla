----------------------------- MODULE HandZones -----------------------------
(***************************************************************************)
(* Which zone of the percussion kit a hand plays: HandTargetStabilizer     *)
(* (shared/stabilizers.js) limits how fast fingers may curl and holds the  *)
(* hands through short losses; the gesture it ends with                    *)
(* (shared/hand-gestures.js), judged by the kit's strike style             *)
(* (shared/percussion.js), lights the zone the hand is over                *)
(* (shared/drum-kit.js).                                                   *)
(*                                                                         *)
(* The five fingers of a hand curl together here, in steps of half of      *)
(* maxCurlDelta; the spread of the fingers and the wrist are left out.     *)
(***************************************************************************)
EXTENDS Integers

CONSTANTS
  Handedness,      \* "Left" and "Right"; a frame has one hand of each at most
  RawCurls,        \* how far the hands curl
  MaxCurl,         \* a closed hand
  MaxCurlDelta,    \* maxCurlDelta
  Extended,        \* a finger curled this far at most is extended
  Curled,          \* a finger curled this far at least is curled
  Grip,            \* the curls of a stick grip
  Hold,            \* holdMs
  FrameTimes       \* time between two frames

ASSUME HandAssumption ==
  /\ MaxCurl \in Nat /\ MaxCurlDelta \in Nat \ {0} /\ Hold \in Nat
  /\ RawCurls \subseteq 0 .. MaxCurl /\ Grip \subseteq 0 .. MaxCurl
  /\ FrameTimes \subseteq Nat \ {0}
  \* shared/percussion.js:6-8: an open palm and a stick grip exclude each other
  /\ Extended < Curled /\ \A c \in Grip : Extended < c

Styles == {"stick", "hand", "mixed"}

\* Frames after which the curl of a hand that keeps still is known.
Settle == (MaxCurl + MaxCurlDelta - 1) \div MaxCurlDelta

VARIABLES
  style,      \* the strike style of the kit
  previous,   \* the stabilizer's last target of each hand: [curl, over]
  unseen,     \* time since a hand was seen; Hold + 1: longer, or never
  targets,    \* state.handTargets
  lit,        \* the hands whose zone is active
  raw, still, \* history: how each hand was seen last, and in how many frames so
  absent      \* history: time since a hand was seen, to Hold + 1

handVars == <<style, previous, unseen, targets, lit, raw, still, absent>>

Targets == UNION {[hs -> [curl : 0 .. MaxCurl, over : BOOLEAN]] : hs \in SUBSET Handedness}
Seen == UNION {[hs -> [curl : RawCurls, over : BOOLEAN]] : hs \in SUBSET Handedness}
NoHands == [h \in {} |-> 0]

HandInit ==
  /\ style \in Styles
  /\ previous = NoHands /\ unseen = Hold + 1 /\ targets = NoHands /\ lit = {}
  /\ raw = NoHands /\ still = [h \in Handedness |-> 0] /\ absent = Hold + 1
-----------------------------------------------------------------------------
\* limitDelta: at most one step from where the hand was.
LimitDelta(value, was) ==
  IF value > was + MaxCurlDelta THEN was + MaxCurlDelta
  ELSE IF value < was - MaxCurlDelta THEN was - MaxCurlDelta ELSE value

StabilizeHandTarget(h, target) ==
  IF h \in DOMAIN previous
  THEN [target EXCEPT !.curl = LimitDelta(target.curl, previous[h].curl)] ELSE target

\* classifyHandGesture, of a hand whose fingers curl together.
OpenPalm(curl) == curl <= Extended
Fist(curl)     == curl >= Curled
DrumGrip(curl) == curl \in Grip

\* STRIKE_STYLES: what counts as striking.
StrikeMatches(curl) ==
  \/ style \in {"stick", "mixed"} /\ DrumGrip(curl)
  \/ style \in {"hand", "mixed"} /\ (OpenPalm(curl) \/ Fist(curl))

\* deriveDrumOverlayState.
Lit(ts) == {h \in DOMAIN ts : ts[h].over /\ StrikeMatches(ts[h].curl)}

\* Mutant: holding counts as seeing.
HoldHandsAgain(age) ==
  IF age <= Hold /\ previous # NoHands
  THEN previous' = previous /\ unseen' = 0
  ELSE previous' = NoHands /\ unseen' = Hold + 1

\* HandTargetStabilizer.update without a hand: hold what was there, for a while.
HoldHands(age) ==
  IF age <= Hold
  THEN previous' = previous /\ unseen' = age
  ELSE previous' = NoHands /\ unseen' = Hold + 1

\* HandTargetStabilizer.update: a hand that is missing beside another is forgotten.
Update(seen, age) ==
  IF seen = NoHands THEN HoldHands(age)
  ELSE previous' = [h \in DOMAIN seen |-> StabilizeHandTarget(h, seen[h])] /\ unseen' = 0

Aged(age, dt) == IF age + dt > Hold THEN Hold + 1 ELSE age + dt

\* One frame of the tracking loop.
HandFrame(seen, dt) ==
  /\ Update(seen, Aged(unseen, dt))
  /\ targets' = previous'
  /\ lit' = Lit(targets')
  /\ raw' = [h \in DOMAIN raw \cup DOMAIN seen |-> IF h \in DOMAIN seen THEN seen[h] ELSE raw[h]]
  /\ still' = [h \in Handedness |->
                 IF h \notin DOMAIN seen THEN still[h]
                 ELSE IF h \in DOMAIN raw /\ raw[h] = seen[h]
                 THEN IF still[h] = Settle THEN Settle ELSE still[h] + 1
                 ELSE 1]
  /\ absent' = IF seen = NoHands THEN Aged(absent, dt) ELSE 0
  /\ UNCHANGED style

HandNext == \E seen \in Seen, dt \in FrameTimes : HandFrame(seen, dt)

HandSpec == HandInit /\ [][HandNext]_handVars
-----------------------------------------------------------------------------
\* A hand that keeps still is followed: once it was seen still in Settle frames,
\* whatever happened between them, its curl is the real one and its zone is lit
\* exactly when the kit counts that technique as a strike; and no hand is shown or
\* lights a zone when none was seen for longer than the hold.  A long way of
\* clamped steps and held frames lies between a hand and its zone.
StillHandIsFollowed ==
  /\ absent = 0 =>
       \A h \in DOMAIN targets : still[h] = Settle =>
         /\ targets[h] = raw[h]
         /\ h \in lit <=> raw[h].over /\ StrikeMatches(raw[h].curl)
  /\ absent > Hold => targets = NoHands /\ lit = {}
  /\ lit \subseteq DOMAIN targets
=============================================================================
