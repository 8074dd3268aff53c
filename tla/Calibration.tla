---------------------------- MODULE Calibration ----------------------------
(***************************************************************************)
(* The guided calibrations of the tracker page (tracker/tracker.js,        *)
(* shared/runtime.js): a face pass, a gaze pass and a hand pass may run at  *)
(* once, each a clock of its own with labels the user follows, while the   *)
(* camera is stopped, mirrored and started again, and the profile they end  *)
(* in is edited, imported, reset and reloaded.                             *)
(*                                                                         *)
(* One channel of the face, the horizontal axis of the gaze with the four  *)
(* channels it is sent in, one finger and one turn of the loop per unit of *)
(* time.  The channel that is edited by hand is the face's; those of the   *)
(* eyes are changed by a guided pass and a captured neutral pose.  Values  *)
(* are in thousandths; filters over time are left out.                     *)
(***************************************************************************)
EXTENDS Integers, Sequences, FiniteSets, SequencesExt, FiniteSetsExt

CONSTANTS
  StepTurns,      \* how long a step of a pass takes
  NeutralShare,   \* the share of neutral samples under the offset, in percent (95)
  RestFaces,      \* the face's channel at rest
  PeakFace,       \* the channel at its peak
  LookBias, LookReach,    \* the gaze straight ahead, and how far it goes to a side
  OpenCurl, FistCurl,  \* the finger of an open hand and of a fist
  MaxPasses,      \* bound: passes started
  MaxLost,        \* bound: pictures in which a pass finds no sample
  MaxEdits,       \* bound: edits of the profile and of the page's settings
  Touches, Mice,  \* the pointers: fingers and pens, and mice
  NoPass          \* null

ASSUME CalibrationAssumption ==
  /\ StepTurns \in Nat \ {0} /\ NeutralShare \in 1 .. 100
  /\ RestFaces \subseteq 0 .. 1000 /\ PeakFace \in 0 .. 1000
  /\ LookReach \in 200 .. 800 /\ LookBias \in 0 .. 1000 - LookReach
  /\ OpenCurl \in 0 .. 1000 /\ FistCurl \in 0 .. 1000
  /\ Touches \cap Mice = {} /\ NoPass \notin Touches \cup Mice

Abs(x) == IF x < 0 THEN -x ELSE x

VARIABLES
  tracker,   \* [running, hands, mirror]
  profile,   \* [channels, center, scale, open, fist], see DefaultProfile
  stored,    \* the copies in localStorage
  passes,    \* the sessions under way, see NewPass
  pointer,   \* meterPointer: [dragging, id, timer, selected], the last of the channel
  spent,     \* passes started, edits made, pictures lost
  fits       \* history: the passes followed to their end whose result still stands, each
             \* with the weights its neutral hold has seen

calibVars == <<tracker, profile, stored, passes, pointer, spent, fits>>

Passes == {"guided", "gaze", "hand"}
\* What a pass asks for, step by step (of the six range steps one, in which the face is at
\* its peak and the eyes look around; the two looks to a side; without the hand's range
\* steps, whose samples serve the spread).
Steps == [guided |-> <<"neutral", "peak">>, gaze |-> <<"center", "left", "right">>,
          hand |-> <<"open", "fist">>]
Total(p) == Len(Steps[p]) * StepTurns

LookChannels == {"outLeft", "inRight", "inLeft", "outRight"}
Channels == LookChannels \cup {"face"}

PlainChannel == [offset |-> 0, gain |-> 1000, deadzone |-> 0, muted |-> FALSE]
DefaultProfile == [channels |-> [c \in Channels |-> PlainChannel],
                   center |-> 0, scale |-> 1000, open |-> 0, fist |-> 1000]

NewPass(p) == [elapsed |-> -1, label |-> Steps[p][1], followed |-> TRUE,
               samples |-> [s \in Range(Steps[p]) |-> <<>>]]
GuidedPass == NewPass("guided")
GazePass   == NewPass("gaze")
HandPass   == NewPass("hand")

NoPointer == [dragging |-> FALSE, id |-> NoPass, timer |-> FALSE, selected |-> FALSE]
NoFits == [p \in Passes |-> {}]

CalibInit ==
  /\ tracker \in [running : {FALSE}, hands : BOOLEAN, mirror : BOOLEAN]
  /\ profile = DefaultProfile /\ stored = DefaultProfile
  /\ passes = [p \in Passes |-> NoPass] /\ spent = [passes |-> 0, edits |-> 0, lost |-> 0]
  /\ pointer = NoPointer /\ fits = NoFits
-----------------------------------------------------------------------------
\* What the samples of a pass come to.

Clamp(x, low, high) == IF x < low THEN low ELSE IF x > high THEN high ELSE x

\* percentile: interpolated between the two values around it.
Percentile(values, share) ==
  LET sorted == SortSeq(values, LAMBDA x, y : x < y)
      pos == (Len(values) - 1) * share
      low == sorted[pos \div 100 + 1]
      high == IF pos % 100 = 0 THEN low ELSE sorted[pos \div 100 + 2]
  IN  low + ((high - low) * (pos % 100)) \div 100

Average(values) == FoldLeft(LAMBDA a, b : a + b, 0, values) \div Len(values)

\* A value over the offset, times the gain.
Over(value, offset, gain) == (Clamp(value - offset, 0, 1000) * gain) \div 1000

\* Mutant: the dead zone ends where the neutral face does.
BuildChannelOnEdge(old, neutral, range) ==
  LET offset == Percentile(neutral, NeutralShare)
      peak == Percentile([i \in DOMAIN range |-> Over(range[i], offset, 1000)], 95)
      gain == IF peak > 50 THEN Clamp(1000000 \div peak, 500, 2000) ELSE old.gain
      residual == Max({Over(x, offset, gain) : x \in Range(neutral)})
  IN  [offset |-> offset, gain |-> gain, muted |-> old.muted,
       deadzone |-> Clamp(Max({old.deadzone, residual}), 0, 200)]

\* buildCalibrationProfileFromSamples, a channel of it.
BuildChannel(old, neutral, range) ==
  LET offset == Percentile(neutral, NeutralShare)
      peak == Percentile([i \in DOMAIN range |-> Over(range[i], offset, 1000)], 95)
      gain == IF peak > 50 THEN Clamp(1000000 \div peak, 500, 2000) ELSE old.gain
      residual == Max({Over(x, offset, gain) : x \in Range(neutral)})
  IN  [offset |-> offset, gain |-> gain, muted |-> old.muted,
       deadzone |-> Clamp(Max({old.deadzone, residual + 1}), 0, 200)]

\* A new profile from samples of all channels, without the gaze of the old one.
BuildCalibrationProfile(old, samples) ==
  LET Values(step, c) == [i \in DOMAIN samples[step] |-> samples[step][i][c]]
  IN  [DefaultProfile EXCEPT
         !.channels = [c \in Channels |->
           BuildChannel(old.channels[c], Values("neutral", c), Values("peak", c))],
         !.open = old.open, !.fist = old.fist]

\* calibrationScale: the median ratio of how far was asked and how far was looked.
CalibrationScale(looks, center) ==
  LET far == SelectSeq(looks, LAMBDA x : Abs(x - center) >= 50)
      ratios == [i \in DOMAIN far |-> 800000 \div Abs(far[i] - center)]
  IN  IF far = <<>> THEN 1000 ELSE Clamp(Percentile(ratios, 50), 250, 4000)

BuildGazeProfile(old, samples) ==
  LET center == Average(samples["center"])
  IN  [old EXCEPT !.center = center,
         !.scale = CalibrationScale(samples["left"] \o samples["right"], center)]

\* A finger that hardly moved is not calibrated.
NormalizeHandProfile(p) ==
  LET open == Clamp(p.open, 0, 1000)
      fist == Clamp(p.fist, 0, 1000)
      kept == fist - open >= 120
  IN  [p EXCEPT !.open = IF kept THEN open ELSE 0, !.fist = IF kept THEN fist ELSE 1000]

BuildHandProfile(old, samples) ==
  NormalizeHandProfile([old EXCEPT !.open = Percentile(samples["open"], 25),
                                   !.fist = Percentile(samples["fist"], 75)])

\* What a profile is made into before it is used or stored.
ValidateGaze(p) ==
  [p EXCEPT !.center = Clamp(@, -1000, 1000), !.scale = Clamp(@, 250, 4000)]

ValidateChannel(c) ==
  [c EXCEPT !.gain = Clamp(@, 0, 2000), !.offset = Clamp(@, 0, 1000), !.deadzone = Clamp(@, 0, 200)]
ValidateProfile(p) ==
  [ValidateGaze(p) EXCEPT !.channels = [c \in Channels |-> ValidateChannel(@[c])]]

\* applyCalibrationProfile, on the weights of a frame
ApplyProfile(weights) ==
  [c \in Channels |->
     LET p == profile.channels[c]
         withGain == Over(weights[c], p.offset, p.gain)
     IN  IF p.muted \/ withGain < p.deadzone THEN 0 ELSE Clamp(withGain, 0, 1000)]

\* estimateIrisGaze
EstimateGaze(x) ==
  Clamp((((IF tracker.mirror THEN -x ELSE x) - profile.center) * profile.scale) \div 1000, -1000, 1000)

\* applyGazeToWeights, on the eyes' two channels to each side
ApplyGaze(weights, x) ==
  [c \in Channels |-> CASE c \in {"outLeft", "inRight"} -> Max({x, 0})
                       [] c \in {"inLeft", "outRight"} -> Max({-x, 0})
                       [] OTHER -> weights[c]]

\* blendshapeGaze, which reads them back, as the viewer's gazeX does
BlendshapeGaze(w) == Clamp((w["outLeft"] + w["inRight"] - w["inLeft"] - w["outRight"]) \div 2, -1000, 1000)

\* The raw weights of a picture, and the gaze that the frame made of it shows.
RawWeights(face, look) == ApplyGaze([c \in Channels |-> face], EstimateGaze(look))
SentGaze(look) == BlendshapeGaze(ApplyProfile(RawWeights(0, look)))

\* applyHandCalibrationProfile, on a finger
ApplyHandProfile(curl) ==
  Clamp(((curl - profile.open) * 1000) \div Max({120, profile.fist - profile.open}), 0, 1000)
-----------------------------------------------------------------------------
\* What a user who follows the labels shows.

Looks == [center |-> LookBias, left |-> LookBias - LookReach, right |-> LookBias + LookReach]
Shown(label) ==
  CASE label = "neutral" -> RestFaces
    [] label = "peak" -> {PeakFace}
    [] label = "open" -> {OpenCurl} [] label = "fist" -> {FistCurl}
    [] OTHER -> {IF tracker.mirror THEN -Looks[label] ELSE Looks[label]}

\* Where the eyes look: where the gaze pass asks for, else ahead in a neutral hold and to
\* the right when the guided pass wants them to look around.
Look ==
  Looks[CASE passes["gaze"] # NoPass -> passes["gaze"].label
          [] passes["gaze"] = NoPass /\ passes["guided"].label = "neutral" -> "center"
          [] OTHER -> "right"]

\* calibrationGuideProgress
StepAt(p, elapsed) == Steps[p][elapsed \div StepTurns + 1]

\* A turn of a pass, with a sample x if the picture has one: the step is the clock's,
\* what is shown is what the label of the turn before asked for.
Collect(p, pass, seen, x) ==
  LET elapsed == pass.elapsed + 1
      step == StepAt(p, elapsed)
  IN  IF elapsed >= Total(p) THEN [pass EXCEPT !.elapsed = elapsed]
      ELSE [pass EXCEPT !.elapsed = elapsed, !.label = step, !.followed = @ /\ seen,
              !.samples[step] = IF seen THEN Append(@, x) ELSE @]

CollectGuided(pass, seen, face) == Collect("guided", pass, seen, RawWeights(face, Look))
CollectGaze(pass, seen, look)   == Collect("gaze", pass, seen, look)
CollectHand(pass, seen, curl)   == Collect("hand", pass, seen, curl)

Save(next) ==
  LET kept == ValidateProfile(next)
  IN  profile' = kept /\ stored' = kept

FitsAfter(p, was, pass) ==
  LET mine == IF ~pass.followed THEN {} ELSE IF p = "guided" THEN Range(pass.samples["neutral"]) ELSE {0}
  IN  IF p = "guided" THEN [was EXCEPT !.guided = mine, !.gaze = {}] ELSE [was EXCEPT ![p] = mine]

\* A pass whose time is over is saved if it has what it needs.
Finish(p, s, complete, result) ==
  LET pass == s.passes[p]
      ended == [s EXCEPT !.passes[p] = NoPass]
  IN  IF pass = NoPass THEN s
      ELSE IF pass.elapsed < Total(p) THEN s
      ELSE IF ~complete THEN ended
      ELSE [ended EXCEPT !.profile = result, !.fits = FitsAfter(p, @, pass)]

FinishGuidedCalibration(s) ==
  LET samples == s.passes["guided"].samples
  IN  Finish("guided", s, samples["neutral"] # <<>> /\ samples["peak"] # <<>>,
             BuildCalibrationProfile(s.profile, samples))

FinishGazeCalibration(s) ==
  LET samples == s.passes["gaze"].samples
  IN  Finish("gaze", s, \A step \in DOMAIN samples : samples[step] # <<>>,
             BuildGazeProfile(s.profile, samples))

FinishHandCalibration(s) ==
  LET samples == s.passes["hand"].samples
  IN  Finish("hand", s, samples["open"] # <<>> /\ samples["fist"] # <<>>,
             BuildHandProfile(s.profile, samples))

\* What a turn of the loop does to each pass.
TurnGuided(seen, face) == CollectGuided(passes["guided"], seen, face)
TurnGaze(seen) == CollectGaze(passes["gaze"], seen, CHOOSE x \in Shown(passes["gaze"].label) : TRUE)
TurnHand(seen) == CollectHand(passes["hand"], seen, CHOOSE x \in Shown(passes["hand"].label) : TRUE)

OpenPasses == {p \in Passes : passes[p] # NoPass}
Faces(seen) == IF "guided" \in seen THEN Shown(passes["guided"].label) ELSE {0}

\* One turn of the loop: a picture in which some of the passes under way find a sample.
\* With a face in it the gaze pass ends before the guided one, else after it.
Turn(seen, face) ==
  LET turned == [p \in Passes |->
                   CASE p \notin OpenPasses -> NoPass
                     [] p \in OpenPasses /\ p = "guided" -> TurnGuided(p \in seen, face)
                     [] p \in OpenPasses /\ p = "gaze" -> TurnGaze(p \in seen)
                     [] p \in OpenPasses /\ p = "hand" -> TurnHand(p \in seen)]
      start == [passes |-> turned, profile |-> profile, fits |-> fits]
      end == FinishHandCalibration(IF seen \cap {"guided", "gaze"} # {}
                                   THEN FinishGuidedCalibration(FinishGazeCalibration(start))
                                   ELSE FinishGazeCalibration(FinishGuidedCalibration(start)))
  IN  /\ tracker.running /\ OpenPasses # {}
      /\ "hand" \in seen => tracker.hands
      /\ {"guided", "gaze"} \subseteq OpenPasses => ("gaze" \in seen => "guided" \in seen)
      /\ passes' = end.passes /\ fits' = end.fits /\ Save(end.profile)
      /\ seen # OpenPasses => spent.lost < MaxLost
      /\ spent' = [spent EXCEPT !.lost = IF seen = OpenPasses THEN @ ELSE @ + 1]
      /\ UNCHANGED <<tracker, pointer>>
-----------------------------------------------------------------------------
StartPass(p, pass) ==
  /\ tracker.running /\ passes[p] = NoPass /\ spent.passes < MaxPasses
  /\ passes' = [passes EXCEPT ![p] = pass]
  /\ spent' = [spent EXCEPT !.passes = @ + 1]
  /\ UNCHANGED <<tracker, profile, stored, pointer, fits>>

StartGuidedCalibration == StartPass("guided", GuidedPass)
StartGazeCalibration   == StartPass("gaze", GazePass)
StartHandCalibration   == tracker.hands /\ StartPass("hand", HandPass)

CancelGuidedCalibration(open) == [open EXCEPT !.guided = NoPass]
CancelGazeCalibration(open)   == [open EXCEPT !.gaze = NoPass]
CancelHandCalibration(open)   == [open EXCEPT !.hand = NoPass]
CancelPasses ==
  passes' = CancelHandCalibration(CancelGazeCalibration(CancelGuidedCalibration(passes)))

StartTracking ==
  /\ ~tracker.running /\ tracker' = [tracker EXCEPT !.running = TRUE]
  /\ UNCHANGED <<profile, stored, passes, pointer, spent, fits>>

StopTracking ==
  /\ tracker.running /\ tracker' = [tracker EXCEPT !.running = FALSE]
  /\ CancelPasses /\ UNCHANGED <<profile, stored, pointer, spent, fits>>

Edit ==
  /\ spent.edits < MaxEdits
  /\ spent' = [spent EXCEPT !.edits = @ + 1]

\* chkMirror: a gaze pass under way goes on with samples of both sides.
TickMirror ==
  /\ Edit /\ tracker' = [tracker EXCEPT !.mirror = ~@]
  /\ passes' = [p \in Passes |-> IF p = "gaze" /\ passes[p] # NoPass
                                 THEN [passes[p] EXCEPT !.followed = FALSE] ELSE passes[p]]
  /\ fits' = [fits EXCEPT !.gaze = {}]
  /\ UNCHANGED <<profile, stored, pointer>>

\* chkHands
TickHandTracking ==
  /\ Edit /\ tracker' = [tracker EXCEPT !.hands = ~@]
  /\ UNCHANGED <<profile, stored, passes, pointer, fits>>

EditProfile(next) ==
  /\ Edit /\ Save(next)
  /\ fits' = [fits EXCEPT !.guided = {}]
  /\ UNCHANGED <<tracker, passes, pointer>>

MoveGain       == EditProfile([profile EXCEPT !.channels["face"].gain = 1500])
SetDeadzone    == EditProfile([profile EXCEPT !.channels["face"].deadzone = 100])
CaptureNeutral ==
  \E x \in RestFaces :
    LET raw == RawWeights(x, Looks["center"])
    IN  EditProfile([profile EXCEPT !.channels = [c \in Channels |-> [@[c] EXCEPT !.offset = raw[c]]]])

\* bound: who touches the meters loses no picture.
Touch ==
  /\ spent.edits < MaxEdits /\ spent.lost = 0
  /\ spent' = [spent EXCEPT !.edits = @ + 1, !.lost = MaxLost]

\* toggleSelectedChannelMute
ToggleMute(selected) ==
  /\ Save(IF selected THEN [profile EXCEPT !.channels["face"].muted = ~@] ELSE profile)
  /\ UNCHANGED <<tracker, passes, fits>>

\* selectMeterChannel, by the height of the pointer over the meters
SelectMeterChannel(gesture, mine) == [gesture EXCEPT !.selected = mine]

\* The context menu of the meters.
ContextMenu(mine) ==
  /\ Touch /\ pointer' = SelectMeterChannel(pointer, mine) /\ ToggleMute(mine)

\* applyMeterGain: the channel under the pointer, if it is on the bar, is pulled.
ApplyMeterGain(mine, onBar) ==
  /\ Save(IF onBar /\ mine THEN [profile EXCEPT !.channels["face"].gain = 1500] ELSE profile)
  /\ fits' = IF onBar /\ mine THEN [fits EXCEPT !.guided = {}] ELSE fits
  /\ UNCHANGED <<tracker, passes>>

\* startMeterInteraction: the pointer that came last has the meters; a touch starts the
\* long press anew, a mouse leaves the one of a touch alone.
PointerDown(p, mine, onBar) ==
  /\ Touch
  /\ pointer' = SelectMeterChannel(
       [pointer EXCEPT !.dragging = TRUE, !.id = p, !.timer = @ \/ p \in Touches], mine)
  /\ ApplyMeterGain(mine, onBar)

\* moveMeterInteraction, more than 8 pixels from where it began or not
PointerMove(p, mine, onBar, far) ==
  /\ pointer.dragging /\ pointer.id = p
  /\ LET moved == [pointer EXCEPT !.timer = @ /\ ~far]
     IN  pointer' = IF onBar THEN SelectMeterChannel(moved, mine) ELSE moved
  /\ ApplyMeterGain(mine, onBar)
  /\ UNCHANGED spent

\* endMeterInteraction
PointerUp(p) ==
  /\ pointer.id \in {p, NoPass}
  /\ pointer' = [pointer EXCEPT !.timer = FALSE, !.dragging = FALSE, !.id = NoPass]
  /\ UNCHANGED <<tracker, profile, stored, passes, spent, fits>>

\* 550 ms after the touch: the channel that is selected by now is muted or unmuted, and
\* the pointer pulls no more.
LongPress ==
  /\ pointer.timer
  /\ pointer' = [pointer EXCEPT !.timer = FALSE, !.dragging = FALSE]
  /\ ToggleMute(pointer.selected)
  /\ UNCHANGED spent

\* fileProfile: the hand's profile is a file of its own.
ImportProfile(file) ==
  /\ Edit /\ Save([file EXCEPT !.open = profile.open, !.fist = profile.fist])
  /\ fits' = [fits EXCEPT !.guided = {}, !.gaze = {}]
  /\ UNCHANGED <<tracker, passes, pointer>>

\* btnResetSettings
ResetAll ==
  /\ Edit /\ Save(DefaultProfile) /\ CancelPasses
  /\ tracker' = [tracker EXCEPT !.hands = FALSE, !.mirror = TRUE]
  /\ fits' = NoFits /\ UNCHANGED pointer

\* The page is loaded again.
ReloadPage ==
  /\ Edit /\ tracker' = [tracker EXCEPT !.running = FALSE]
  /\ profile' = stored /\ CancelPasses /\ pointer' = NoPointer /\ UNCHANGED <<stored, fits>>

CalibNext ==
  \/ StartGuidedCalibration \/ StartGazeCalibration \/ StartHandCalibration
  \/ \E seen \in SUBSET OpenPasses : \E face \in Faces(seen) : Turn(seen, face)
  \/ StartTracking \/ StopTracking \/ TickMirror \/ TickHandTracking
  \/ MoveGain \/ SetDeadzone \/ CaptureNeutral \/ LongPress
  \/ \E mine \in BOOLEAN : ContextMenu(mine)
  \/ \E p \in Touches \cup Mice, mine, onBar \in BOOLEAN :
       PointerDown(p, mine, onBar) \/ \E far \in BOOLEAN : PointerMove(p, mine, onBar, far)
  \/ \E p \in Touches \cup Mice : PointerUp(p)
  \/ ImportProfile([DefaultProfile EXCEPT !.channels["face"].offset = 100,
                                          !.channels["face"].gain = 9000, !.center = 100])
  \/ ResetAll \/ ReloadPage
-----------------------------------------------------------------------------
\* A pass that was followed fits whoever followed it, though every label is followed one
\* turn late and the first samples of a step belong to the one before, until something
\* replaces its result.  What was seen in the neutral hold reads nothing in any channel,
\* unless it lies beyond 0.2, the widest dead zone; the peak reads full, unless the gain
\* it takes is over 2, or nothing if the channel is muted.  A look to the side is
\* estimated as far as it was asked for, and is sent as far while the eyes' channels have
\* the profile they began with: a guided pass or a captured neutral pose gives them an
\* offset and a gain, which distort a calibrated gaze in every frame, and of such frames
\* nothing is claimed.  An open hand reads open and a fist closed.  Stopping, reloading,
\* and touching the meters without pulling this channel change nothing of it
\* (docs/BACKLOG.md:264,310: calibrated neutral, gaze after calibration).
CalibrationFits ==
  /\ \A w \in fits.guided :
       /\ \A c \in Channels :
            Over(w[c], profile.channels[c].offset, profile.channels[c].gain) < 200 => ApplyProfile(w)[c] = 0
       /\ LET peak == ApplyProfile([w EXCEPT !["face"] = PeakFace])["face"]
          IN  IF profile.channels["face"].muted THEN peak = 0
              ELSE profile.channels["face"].gain < 2000 => peak >= 990
  /\ fits.gaze # {} =>
       \A look \in {"center", "left", "right"} :
         LET side == [center |-> 0, left |-> -800, right |-> 800][look]
             asked == IF tracker.mirror THEN -side ELSE side
         IN  /\ Abs(EstimateGaze(Looks[look]) - asked) <= 10
             /\ (\A c \in LookChannels : profile.channels[c] = PlainChannel) =>
                  Abs(SentGaze(Looks[look]) - asked) <= 10
  /\ fits.hand # {} => ApplyHandProfile(OpenCurl) = 0 /\ ApplyHandProfile(FistCurl) = 1000
  /\ profile = stored
=============================================================================
