---------------------------- MODULE TrackerLoop ----------------------------
(***************************************************************************)
(* The tracker's animation-frame loop (tracker/tracker.js, loop), what it  *)
(* thinks of each picture (shared/runtime.js, DroppedFrameDetector and     *)
(* computeQualityScore), the frames it sends and the two motion recordings *)
(* that are kept of them (shared/recording.js, shared/kgm-recording.js).   *)
(*                                                                         *)
(* A unit of time is the distance of two pictures at the wanted rate.  Of  *)
(* the quality only the warnings are kept, of its causes the light, the    *)
(* rate and the dropped frames: the score is for display and the lips.     *)
(* The devices behind Start and Stop are in TrackerMedia.                  *)
(***************************************************************************)
EXTENDS Integers, Sequences, FiniteSets, SequencesExt

CONSTANTS
  MaxTime,        \* bound: ticks of the clock
  FadeTicks,      \* a lost face goes on being sent for so long (fadeMs)
  Cap,            \* 36 000 entries of a recording
  MaxDt,          \* 0xffff: the longest gap a KGM record can hold
  SeqModulus,     \* 2^16, the seq of a KGM1 frame
  DropWindow,     \* how long a missed picture is held against the quality (2 500 ms)
  DropLimit,      \* so many may be missed (3)
  StatsEvery,     \* how often the rate is worked out (500 ms)
  LowRate,        \* the rate that is too low, in percent of the wanted one
  HandsEnabled,   \* state.handsEnabled
  Pictures,       \* what a picture may show: [face, light]
  Never           \* null

ASSUME LoopAssumption ==
  /\ MaxTime \in Nat /\ FadeTicks \in Nat \ {0} /\ Cap \in Nat \ {0, 1}
  /\ MaxDt \in Nat \ {0} /\ SeqModulus \in Nat \ {0}
  /\ DropWindow \in Nat /\ DropLimit \in Nat /\ StatsEvery \in Nat \ {0} /\ LowRate \in Nat
  /\ HandsEnabled \in BOOLEAN /\ Pictures \subseteq [face : BOOLEAN, light : {"bright", "dark", "unreadable"}]
  /\ Never \notin Nat

VARIABLES
  clock,      \* performance.now()
  picture,    \* video.currentTime
  loop,       \* [running, callbacks, last]: callbacks are animation frames asked for
  nextSeq,    \* state.seq
  lostAt,     \* trackingLossSmoother.lostAt
  drops,      \* dropDetector: [last, samples], the samples as [t, missed]
  stats,      \* [at, frames, slow]: lastStats, frames, and whether lastFps is too low
  recording,  \* [enabled, lines, frames]: the JSONL lines and the KGM frames
  turns,      \* history: the pictures looked at since the camera was last asked for
  taken       \* history: what was sent since recording was last switched on, while it was on

loopVars == <<clock, picture, loop, nextSeq, lostAt, drops, stats, recording, turns, taken>>

LowLight == "low light"
DroppedFrames == "dropped frames"
Warnings == {LowLight, DroppedFrames, "hands: low light"}

Frames == [t : Nat, seq : Nat]
Lines == [t : Nat, seq : Nat, warnings : Seq(Warnings)]
Metadata == [t |-> 0, seq |-> -1]     \* the line createRecordingMetadata writes
NoDrops == [last |-> Never, samples |-> <<>>]

LoopType ==
  /\ clock \in Nat /\ picture \in Nat
  /\ loop \in [running : BOOLEAN, callbacks : 0 .. 2, last : Nat \cup {Never}]
  /\ nextSeq \in Nat /\ lostAt \in Nat \cup {Never}
  /\ drops \in [last : Nat \cup {Never}, samples : Seq([t : Nat, missed : Nat])]
  /\ stats \in [at : Nat, frames : Nat, slow : BOOLEAN]
  /\ recording \in [enabled : BOOLEAN, lines : Seq(Lines \cup {Metadata}), frames : Seq(Frames)]
  /\ turns \in Seq(Nat) /\ taken \in Seq([t : Nat, seq : Nat, warnings : SUBSET Warnings])

LoopInit ==
  /\ clock = 0 /\ picture = 0
  /\ loop = [running |-> FALSE, callbacks |-> 0, last |-> Never]
  /\ nextSeq = 0 /\ lostAt = Never
  /\ drops = NoDrops /\ stats = [at |-> 0, frames |-> 0, slow |-> FALSE]
  /\ recording = [enabled |-> FALSE, lines |-> <<>>, frames |-> <<>>]
  /\ turns = <<>> /\ taken = <<>>
-----------------------------------------------------------------------------
\* The sum of the first n numbers of a sequence.
TotalOf(numbers, n) ==
  LET total[i \in 0 .. n] == IF i = 0 THEN 0 ELSE total[i - 1] + numbers[i] IN total[n]

\* prune: the samples before the first that is not too old go.
Prune(samples, cutoff) ==
  SubSeq(samples, Min({i \in DOMAIN samples : samples[i].t >= cutoff}), Len(samples))

\* DroppedFrameDetector, sample: a gap of more than 1.65 times what was expected has
\* missed pictures; samples older than the window go.
Sample(d, now) ==
  IF d.last = Never THEN [d EXCEPT !.last = now]
  ELSE LET gap == now - d.last
           all == Append(d.samples, [t |-> now, missed |-> IF gap > 1 THEN gap - 1 ELSE 0])
       IN  [last |-> now, samples |-> Prune(all, now - DropWindow)]

RollingDropped(d) == TotalOf([i \in DOMAIN d.samples |-> d.samples[i].missed], Len(d.samples))

\* sampleLuma: a picture that the canvas does not give back is taken for a bright one.
Dark(p) == p.light = "dark"

\* computeQualityScore, its warnings.  state.lastFps is the rate of the last statistics,
\* or the wanted one if no picture came in their time.
QualityWarnings(dark, slow, dropped) ==
  (IF dark THEN <<LowLight>> ELSE <<>>)
    \o (IF slow \/ dropped > DropLimit THEN <<DroppedFrames>> ELSE <<>>)

\* mergeWarningsInto: each warning once, in the order they were first given.
AppendUnique(out, warning) == IF warning \in Range(out) THEN out ELSE Append(out, warning)

MergeWarnings(primary, secondary) ==
  LET all == primary \o secondary
      out[i \in 0 .. Len(all)] == IF i = 0 THEN <<>> ELSE AppendUnique(out[i - 1], all[i])
  IN  out[Len(all)]

\* What the loop tells of a picture; with the hands on, the hand model is warned too.
PictureWarnings(d, dark) ==
  LET quality == QualityWarnings(dark, stats.slow, RollingDropped(d))
  IN  MergeWarnings(IF HandsEnabled /\ dark THEN <<"hands: low light">> ELSE <<>>, quality)

\* updateStats, at the end of every turn of the loop, with a picture or without.
StatsDue == clock - stats.at >= StatsEvery
UpdateStats(frames) ==
  stats' = IF StatsDue
           THEN [at |-> clock, frames |-> 0,
                 slow |-> frames > 0 /\ frames * 100 < LowRate * (clock - stats.at)]
           ELSE [stats EXCEPT !.frames = frames]
-----------------------------------------------------------------------------
\* A list that is cut at its old end.
Push(list, x) ==
  LET all == Append(list, x) IN IF Len(all) > Cap THEN Tail(all) ELSE all

\* Mutant: only the lines are cut.
RecordFrameUncut(r, line) ==
  IF ~r.enabled THEN r
  ELSE [r EXCEPT !.lines = Push(@, line), !.frames = Append(@, [t |-> line.t, seq |-> line.seq])]

\* createMotionRecord writes the warnings of the picture into the line; the KGM file has none.
RecordFrame(r, line) ==
  IF ~r.enabled THEN r
  ELSE [r EXCEPT !.lines = Push(@, line), !.frames = Push(@, [t |-> line.t, seq |-> line.seq])]

\* chkRecord: switching on starts afresh, switching off keeps what there is.
TickRecord ==
  /\ recording' = IF recording.enabled THEN [recording EXCEPT !.enabled = FALSE]
                  ELSE [enabled |-> TRUE, lines |-> <<Metadata>>, frames |-> <<>>]
  /\ taken' = IF recording.enabled THEN taken ELSE <<>>
  /\ UNCHANGED <<clock, picture, loop, nextSeq, lostAt, drops, stats, turns>>

\* btnDownloadJsonl, parseMotionJsonl: the lines that are no metadata.
JsonlFrames(r) ==
  LET read[i \in 0 .. Len(r.lines)] ==
        IF i = 0 THEN <<>>
        ELSE IF r.lines[i] = Metadata THEN read[i - 1] ELSE Append(read[i - 1], r.lines[i])
  IN  read[Len(r.lines)]

\* encodeKgmRecording: the time since the record before, in 16 bits.
Dts(frames) ==
  [i \in DOMAIN frames |->
     IF i = 1 THEN 0
     ELSE LET gap == frames[i].t - frames[i - 1].t IN IF gap > MaxDt THEN MaxDt ELSE gap]

\* btnDownloadRecording
KgmFile(r) == [dts |-> Dts(r.frames),
               seqs |-> [i \in DOMAIN r.frames |-> r.frames[i].seq % SeqModulus]]

\* parseKgmRecording: times add up from zero.
KgmFrames(r) ==
  LET file == KgmFile(r) IN
  [i \in DOMAIN file.dts |-> [t |-> TotalOf(file.dts, i), seq |-> file.seqs[i]]]
-----------------------------------------------------------------------------
\* startCamera makes a new detector; the statistics go on.
StartCamera == drops' = NoDrops /\ turns' = <<>>

\* btnStart, once the devices are there: an animation frame is asked for, though the one
\* asked for before Stop may still be to come.
Start ==
  /\ ~loop.running /\ loop.callbacks < 2
  /\ loop' = [loop EXCEPT !.running = TRUE, !.callbacks = @ + 1]
  /\ StartCamera
  /\ UNCHANGED <<clock, picture, nextSeq, lostAt, stats, recording, taken>>

\* restartCameraIfRunning: another camera, resolution or rate, while the loop goes on.
RestartCamera ==
  /\ loop.running /\ turns # <<>> /\ StartCamera
  /\ UNCHANGED <<clock, picture, loop, nextSeq, lostAt, stats, recording, taken>>

\* btnStop: the animation frame asked for stays asked for.
Stop ==
  /\ loop.running
  /\ loop' = [loop EXCEPT !.running = FALSE]
  /\ UNCHANGED <<clock, picture, nextSeq, lostAt, drops, stats, recording, turns, taken>>

\* The loop after Stop.
LoopEnds ==
  /\ loop.callbacks > 0 /\ ~loop.running
  /\ loop' = [loop EXCEPT !.callbacks = @ - 1]
  /\ UNCHANGED <<clock, picture, nextSeq, lostAt, drops, stats, recording, turns, taken>>

\* A lost face goes on being sent while it fades (TrackingLossSmoother).
StillSent(lost) == clock - lost < FadeTicks

\* The pictures that did not come before those of the last window.
MissedLately(seen, now) ==
  {u \in 0 .. now : \E i \in 2 .. Len(seen) :
     seen[i - 1] < u /\ u < seen[i] /\ seen[i] >= now - DropWindow}

\* What ought to be told of a picture, from the pictures themselves.
Deserved(seen, dark) ==
  (IF HandsEnabled /\ dark THEN {"hands: low light"} ELSE {})
    \cup (IF dark THEN {LowLight} ELSE {})
    \cup (IF stats.slow \/ Cardinality(MissedLately(seen, clock)) > DropLimit
          THEN {DroppedFrames} ELSE {})

\* A frame is numbered, sent and recorded.
SendFrame(warnings, deserved) ==
  LET line == [t |-> clock, seq |-> nextSeq, warnings |-> warnings]
  IN  /\ nextSeq' = nextSeq + 1
      /\ recording' = RecordFrame(recording, line)
      /\ taken' = IF recording.enabled THEN Append(taken, [line EXCEPT !.warnings = deserved]) ELSE taken

\* The loop with a new picture.
LoopTurns(p) ==
  LET lost == IF lostAt = Never THEN clock ELSE lostAt
      d == Sample(drops, clock)
      seen == Append(turns, clock)
  IN  /\ loop.callbacks > 0 /\ loop.running /\ picture # loop.last
      /\ loop' = [loop EXCEPT !.last = picture]
      /\ lostAt' = IF p.face THEN Never ELSE lost
      /\ drops' = d /\ turns' = seen /\ UpdateStats(stats.frames + 1)
      /\ IF p.face \/ StillSent(lost)
         THEN SendFrame(PictureWarnings(d, Dark(p)), Deserved(seen, Dark(p)))
         ELSE UNCHANGED <<nextSeq, recording, taken>>
      /\ UNCHANGED <<clock, picture>>

\* With the old picture it only works out the rate.
LoopIdles ==
  /\ loop.callbacks > 0 /\ loop.running /\ picture = loop.last
  /\ UpdateStats(stats.frames)
  /\ UNCHANGED <<clock, picture, loop, nextSeq, lostAt, drops, recording, turns, taken>>

\* resetFilters: key r, another filter setting, a situation, a saved calibration.
ResetFilters ==
  /\ lostAt # Never /\ lostAt' = Never
  /\ UNCHANGED <<clock, picture, loop, nextSeq, drops, stats, recording, turns, taken>>

\* The camera delivers a picture, or none, while time goes by.
Tick ==
  /\ clock < MaxTime
  /\ clock' = clock + 1
  /\ picture' \in {picture, clock + 1}
  /\ UNCHANGED <<loop, nextSeq, lostAt, drops, stats, recording, turns, taken>>

LoopNext ==
  \/ Start \/ RestartCamera \/ Stop \/ LoopEnds \/ LoopIdles \/ ResetFilters \/ Tick \/ TickRecord
  \/ \E p \in Pictures : LoopTurns(p)

LoopSpec == LoopInit /\ [][LoopNext]_loopVars
-----------------------------------------------------------------------------
\* Both recordings hold the last frames that were sent while recording was on, each once
\* and in order, whatever was stopped, restarted or cut in between; a line of the JSONL
\* recording tells of its own picture, each warning once: dropped frames if more than
\* DropLimit pictures are missing before those of the last window of this camera, or the
\* rate was low; read back, the KGM file keeps the distances in time as long as no gap
\* exceeds its 16 bits, and never plays longer than the original (recordFrame,
\* DroppedFrameDetector, mergeWarningsInto, encodeKgmRecording, parseKgmRecording).
RecordingIsWhatWasSent ==
  LET size == IF Len(taken) > Cap THEN Cap ELSE Len(taken)
      kept == SubSeq(taken, Len(taken) - size + 1, Len(taken))
      lines == JsonlFrames(recording)
      kgm == KgmFrames(recording)
  IN  /\ Len(lines) = size /\ Len(kgm) = size
      /\ \A i \in 1 .. size :
           /\ lines[i].t = kept[i].t /\ lines[i].seq = kept[i].seq
           /\ Range(lines[i].warnings) = kept[i].warnings
           /\ Len(lines[i].warnings) = Cardinality(kept[i].warnings)
           /\ kgm[i].seq = kept[i].seq % SeqModulus
           /\ kgm[i].t <= kept[i].t - kept[1].t
           /\ (\A j \in 2 .. i : kept[j].t - kept[j - 1].t <= MaxDt)
                => kgm[i].t = kept[i].t - kept[1].t
           /\ i > 1 => kept[i - 1].t < kept[i].t
=============================================================================
