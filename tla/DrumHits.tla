------------------------------ MODULE DrumHits ------------------------------
(***************************************************************************)
(* Drum strokes seen by a camera and the benchmark that grades them        *)
(* (src/core/drum.ts): DrumHitDetector, the kick inferred from the sound,  *)
(* and scoreDrumBenchmarkEvents.                                           *)
(*                                                                         *)
(* One stick over one zone at a time (two sticks share the zones' state,   *)
(* see the README's findings), its tip at a height (+Y is down), a pedal,  *)
(* and frames at an irregular distance in time.  The take is what was      *)
(* played; the benchmark compares it with what was detected.               *)
(***************************************************************************)
EXTENDS Integers, FiniteSets, FiniteSetsExt, SequencesExt

CONSTANTS
  DrumZones,     \* ids of the zones the stick plays
  Kick,          \* the pedal's zone
  Rim, Skin,     \* tip heights: where a zone begins and where it is struck
  HitSpeed,      \* DRUM_MIN_HIT_SPEED_MPS, which is nearly the downstroke's
  Lift,          \* DRUM_REARM_MIN_LIFT_M
  Cooldown,      \* cooldownMs
  Tolerance,     \* toleranceMs
  MinSeparation, \* minimumSeparationMs
  KickWindow,    \* windowMs of inferKickPedalHit
  Intervals,     \* time between two frames
  MaxTake        \* bound: length of the take

ASSUME DrumAssumption ==
  /\ Kick \notin DrumZones /\ Intervals \subseteq Nat \ {0}
  /\ {Rim, Skin, HitSpeed, Lift, Cooldown} \subseteq Nat
  /\ {Tolerance, MinSeparation, KickWindow, MaxTake} \subseteq Nat
  /\ 0 < Rim /\ Rim <= Skin
  \* A stroke does not spend a cooldown inside the zone: a slower or deeper one is
  \* reported again every cooldown (docs/benchmarks/multi-camera-fusion.md:163).
  /\ Skin - Rim < Cooldown * HitSpeed

VARIABLES
  tip,         \* the stick: [zone, y, falling, hit]
  frameTime,   \* time of the last frame
  zoneState,   \* per zone struck so far: [lastHit, lastY, armed]
  detections,  \* hits reported: [zone, time]
  played       \* history: strokes played, in order: [zone, time, low]

drumVars == <<tip, frameTime, zoneState, detections, played>>

DrumInit ==
  /\ tip \in {[zone |-> z, y |-> 0, falling |-> FALSE, hit |-> FALSE] : z \in DrumZones}
  /\ frameTime = 0 /\ zoneState = <<>> /\ detections = {} /\ played = <<>>
-----------------------------------------------------------------------------
\* DrumHitDetector.detect, on one sample of the stick.

\* +Y is down: a lifted tip has a smaller y than where the hit fired.  Every zone
\* the tip has cleared is armed, wherever the stick is.
Rearmed(y) ==
  [z \in DOMAIN zoneState |->
     [zoneState[z] EXCEPT !.armed = @ \/ y <= zoneState[z].lastY - Lift]]

Ready(states, zone, now) ==
  zone \in DOMAIN states
    => states[zone].armed \/ now - states[zone].lastHit >= Cooldown

\* A downstroke fast enough.
Fast(y, dt) == y - tip.y >= HitSpeed * dt

Fires(states, zone, y, dt) ==
  y >= Rim /\ Fast(y, dt) /\ Ready(states, zone, frameTime + dt)

Struck(states, zone, y, now) ==
  [z \in DOMAIN states \cup {zone} |->
     IF z = zone THEN [lastHit |-> now, lastY |-> y, armed |-> FALSE] ELSE states[z]]

\* A stroke that starts too near the last hit of its zone to arm it.
Low(zone, now) ==
  zone \in DOMAIN zoneState /\ ~zoneState[zone].armed /\ now - zoneState[zone].lastHit < Cooldown

\* A frame: the tip goes up, rests, or falls; a fast fall ends on the skin.
Frame(zone, y, dt) ==
  LET now == frameTime + dt
      states == Rearmed(y)
      fires == Fires(states, zone, y, dt)
      hit == fires \/ tip.hit          \* within this stroke
  IN  /\ now <= MaxTake
      /\ zone # tip.zone => tip.y = 0 /\ y = 0      \* the stick travels lifted
      /\ tip.falling => Fast(y, dt)
      /\ frameTime' = now
      /\ tip' = [zone |-> zone, y |-> y, falling |-> Fast(y, dt) /\ y < Skin,
                 hit |-> hit /\ Fast(y, dt) /\ y < Skin]
      /\ zoneState' = IF fires THEN Struck(states, zone, y, now) ELSE states
      /\ detections' = IF fires THEN detections \cup {[zone |-> zone, time |-> now]} ELSE detections
      /\ played' = IF y = Skin /\ Fast(y, dt)
                   THEN Append(played, [zone |-> zone, time |-> now,
                                         low |-> ~hit /\ Low(zone, now)])
                   ELSE played

\* inferKickPedalHit: the strongest low onset near the time asked about.
KickHit(onsets, now) ==
  LET near == {o \in onsets : now - o.time <= KickWindow /\ o.time - now <= KickWindow}
  IN  {[zone |-> Kick, time |-> o.time] :
         o \in {o \in near : \A other \in near : other.strength <= o.strength}}

\* The pedal is pressed on the beat; its sound is heard within the tolerance, and
\* apart from the sound of any other press.
Press(late) ==
  LET heard == [time |-> frameTime + late, strength |-> 1]
  IN  /\ \A d \in detections : d.zone = Kick => heard.time - d.time > KickWindow
      /\ detections' = detections \cup KickHit({heard}, frameTime)
      /\ played' = Append(played, [zone |-> Kick, time |-> frameTime, low |-> FALSE])
      /\ UNCHANGED <<tip, frameTime, zoneState>>

DrumNext ==
  \/ \E zone \in DrumZones, y \in 0 .. Skin, dt \in Intervals : Frame(zone, y, dt)
  \/ \E late \in 0 .. 1 : Press(late)
-----------------------------------------------------------------------------
\* scoreDrumBenchmarkEvents: the take graded.

TimeApart(a, b) == IF a < b THEN b - a ELSE a - b

\* closestWithin: the nearest candidate within the tolerance, the earliest of equals.
ClosestWithin(candidates, time) ==
  LET near == {d \in candidates : TimeApart(d.time, time) <= Tolerance}
  IN  {d \in near : \A other \in near :
         \/ TimeApart(d.time, time) < TimeApart(other.time, time)
         \/ TimeApart(d.time, time) = TimeApart(other.time, time) /\ d.time <= other.time}

\* One expected hit takes a detection out of those that remain, or stays pending.
Take(score, expected, candidates) ==
  LET found == ClosestWithin(candidates, expected.time)
  IN  IF found = {} THEN [score EXCEPT !.pending = Append(@, expected)]
      ELSE LET d == CHOOSE d \in found : TRUE
           IN  [score EXCEPT !.unmatched = @ \ {d},
                             !.matches = @ \cup {[expected |-> expected, detected |-> d]}]

InZone(candidates, zone) == {d \in candidates : d.zone = zone}
Ungraded == [unmatched |-> detections, matches |-> {}, pending |-> <<>>]

\* Mutant: a single pass, by time alone.
GradeByTime == FoldLeft(LAMBDA s, e : Take(s, e, s.unmatched), Ungraded, played)

\* First the expected hits reserve detections of their own zone, then what is left
\* is matched by time alone.
Grade ==
  LET sameZone == FoldLeft(LAMBDA s, e : Take(s, e, InZone(s.unmatched, e.zone)), Ungraded, played)
  IN  FoldLeft(LAMBDA s, e : Take(s, e, s.unmatched),
               [sameZone EXCEPT !.pending = <<>>], sameZone.pending)

\* Detections that follow each other in one zone within the minimum separation
\* and are not both matched; of two at one time either may come first.
FalseDoubles(grade) ==
  {pair \in detections \X detections :
     /\ pair[1].time < pair[2].time /\ pair[1].zone = pair[2].zone
     /\ ~ \E between \in detections : pair[1].time < between.time /\ between.time < pair[2].time
     /\ pair[2].time - pair[1].time < MinSeparation
     /\ ~ {pair[1], pair[2]} \subseteq {m.detected : m \in grade.matches}}
-----------------------------------------------------------------------------
\* A take played by one stick and a pedal is graded as it was played: every
\* detection is matched, in its own zone, none is called a false double, and the
\* only strokes without a detection are those that started too low to arm the zone
\* again.  Asked between strokes; two limbs on one beat and strokes closer than the
\* tolerance included (drum.ts:423-431, docs/benchmarks/drum-benchmark-metrics.md:51).
TakeIsGradedAsPlayed ==
  LET grade == Grade
      lows == {i \in DOMAIN played : played[i].low}
  IN  ~tip.falling =>
      /\ grade.unmatched = {}
      /\ \A m \in grade.matches : m.expected.zone = m.detected.zone
      /\ FalseDoubles(grade) = {}
      /\ Len(grade.pending) = Cardinality(lows)
=============================================================================
