----------------------------- MODULE ReplayPage -----------------------------
(***************************************************************************)
(* The replay page (replay/replay.js): a recording is read, played with    *)
(* its own timing into a BroadcastChannel, paused, reset and replaced, and *)
(* the part between two marks is exported as a VRM animation               *)
(* (shared/vrma-export.js).  Frames are known by their place in the        *)
(* recording; of an animation, only its times and frames are kept.         *)
(***************************************************************************)
EXTENDS Integers, Sequences, FiniteSets, FiniteSetsExt, SequencesExt

CONSTANTS
  Recordings,    \* parsed files: [records, errors], each record with its time t and
                 \* whether it has a face, as they stand in the file
  Hundredth,     \* what the trim marks are rounded to: 10 ms
  Shortest,      \* the least the end mark is set to: 1/30 s
  TrimMarks,     \* the marks a user may type, [start, end]
  MaxFiles,      \* bound: files chosen
  MaxPlays,      \* bound: times Play is pressed
  EndOfTime      \* bound of the clock

ASSUME ReplayAssumption ==
  /\ \A r \in Recordings :
       r.records \in Seq([t : Nat, face : BOOLEAN]) /\ r.errors \in BOOLEAN
  /\ Hundredth \in Nat \ {0} /\ Shortest \in Nat /\ 2 * Shortest >= Hundredth
  /\ TrimMarks \subseteq [start : Nat, end : Nat]
  /\ MaxFiles \in Nat /\ MaxPlays \in Nat /\ EndOfTime \in Nat

VARIABLES
  frames,     \* the records of the recording, in order of time
  errors,     \* validationErrors is not empty
  cursor,     \* frames published
  playing,
  timer,      \* a tick is scheduled
  startedAt,
  trim,       \* the marks, in the time of the recording; typed since the file was read?
  buttons,    \* those of Play, Pause, Reset and Export that are enabled
  channel,    \* publishChannel is open
  reading,    \* files being read
  time, files, plays,   \* the clock and the bounds' counters
  sent,       \* history: frames published since the last reset, [frame, at]
  resumed,    \* history: when the last Play began, and with which frame
  swapped,    \* history: the recording was replaced while playing
  clip        \* history: what the step just made exported

replayVars == <<frames, errors, trim, cursor, playing, timer, startedAt, buttons, channel,
                reading, time, files, plays, sent, resumed, swapped,
                clip>>

NoClip == [made |-> "nothing"]

ReplayInit ==
  /\ frames = <<>> /\ errors = FALSE /\ cursor = 0
  /\ playing = FALSE /\ timer = FALSE /\ startedAt = 0
  /\ trim = [start |-> 0, end |-> 0, typed |-> FALSE]
  /\ buttons = {} /\ channel = FALSE /\ reading = {} /\ clip = NoClip
  /\ time = 0 /\ files = 0 /\ plays = 0
  /\ sent = <<>> /\ resumed = [at |-> 0, frame |-> 1] /\ swapped = FALSE

\* The places of some records by their times, those of one time as they stand.
InOrder(records, places) ==
  LET Before(i) == {j \in places : \/ records[j].t < records[i].t
                                  \/ (records[j].t = records[i].t /\ j <= i)}
  IN  [n \in 1 .. Cardinality(places) |-> CHOOSE i \in places : Cardinality(Before(i)) = n]

CanReplay(fs, bad) == fs # <<>> /\ ~bad
\* t - baseT of a frame; baseT is the first frame's time.
Offset(i) == IF i \in DOMAIN frames THEN frames[i].t - frames[1].t ELSE 0
-----------------------------------------------------------------------------
\* pause: also how a playback ends.
PauseNow ==
  /\ playing' = FALSE /\ timer' = FALSE /\ channel' = FALSE
  /\ buttons' = (buttons \ {"play", "pause"})
                  \cup (IF CanReplay(frames, errors) THEN {"play"} ELSE {})

\* tick: every frame that is due by then goes out, in one turn.
TickAt(begun) ==
  LET due == {i \in DOMAIN frames : i > cursor /\ Offset(i) <= time - begun}
      upTo == CHOOSE n \in cursor .. Len(frames) :
                /\ \A i \in cursor + 1 .. n : i \in due
                /\ n + 1 \notin due
  IN  /\ cursor' = upTo
      /\ sent' = sent \o [i \in 1 .. upTo - cursor |-> [frame |-> cursor + i, at |-> time]]
      /\ IF upTo >= Len(frames)
         THEN PauseNow
         ELSE /\ playing' = TRUE /\ timer' = TRUE
              /\ channel' = (channel \/ upTo > cursor)
              /\ buttons' = (buttons \ {"play"}) \cup {"pause"}

\* Mutant: Play goes on from where the clock was.
StartedAgain == IF cursor = 0 THEN time ELSE startedAt

\* startedAt when Play is pressed: as if the frame at the cursor were due now.
Started == time - Offset(cursor + 1)

Play ==
  /\ "play" \in buttons /\ plays < MaxPlays
  /\ frames # <<>> /\ ~playing
  /\ startedAt' = Started
  /\ TickAt(startedAt')
  /\ plays' = plays + 1
  /\ resumed' = [at |-> time, frame |-> cursor + 1]
  /\ swapped' = FALSE
  /\ UNCHANGED <<frames, errors, trim, reading, time, files>>

PlaybackTick ==
  /\ timer
  /\ TickAt(startedAt)
  /\ UNCHANGED <<frames, errors, trim, startedAt, reading, time, files, plays, resumed,
                 swapped>>

Pause ==
  /\ "pause" \in buttons
  /\ PauseNow
  /\ UNCHANGED <<frames, errors, trim, cursor, startedAt, reading, time, files, plays, sent,
                 resumed, swapped>>

Reset ==
  /\ "reset" \in buttons
  /\ PauseNow
  /\ cursor' = 0 /\ sent' = <<>> /\ swapped' = FALSE
  /\ UNCHANGED <<frames, errors, trim, startedAt, reading, time, files, plays, resumed>>

\* fileReplay's change handler, up to its await.
ChooseFile(recording) ==
  /\ files < MaxFiles
  /\ files' = files + 1
  /\ reading' = reading \cup {[id |-> files + 1, recording |-> recording]}
  /\ playing' = FALSE /\ timer' = FALSE /\ channel' = FALSE
  /\ UNCHANGED <<frames, errors, trim, cursor, startedAt, buttons, time, plays, sent, resumed,
                 swapped>>

\* max(duration, 1/30).toFixed(2)
DefaultEnd(duration) ==
  ((Max({duration, Shortest}) + Hundredth \div 2) \div Hundredth) * Hundredth

\* frames.sort of fileReplay
Sorted(records) ==
  LET order == InOrder(records, DOMAIN records)
  IN  [n \in 1 .. Len(records) |-> records[order[n]]]

\* The rest of it: whatever was pressed meanwhile, the recording is replaced.
FileRead(file) ==
  /\ reading' = reading \ {file}
  /\ frames' = Sorted(file.recording.records)
  /\ errors' = file.recording.errors
  /\ cursor' = 0
  /\ trim' = [start |-> 0, end |-> DefaultEnd(IF frames' = <<>> THEN 0
                                               ELSE Last(frames').t - frames'[1].t),
               typed |-> FALSE]
  /\ buttons' = IF CanReplay(frames', errors') THEN {"play", "reset", "export"} ELSE {}
  /\ sent' = <<>> /\ swapped' = playing
  /\ UNCHANGED <<playing, timer, startedAt, channel, time, files, plays, resumed>>

\* The fields of the trim marks.
TypeMarks(marks) ==
  /\ trim' = [start |-> marks.start, end |-> marks.end, typed |-> TRUE]
  /\ UNCHANGED <<frames, errors, cursor, playing, timer, startedAt, buttons, channel,
                 reading, time, files, plays, sent, resumed, swapped>>

\* trimMotionFrames: the marks count from the first frame that has a face.
Faces == {i \in DOMAIN frames : frames[i].face}
InTrim ==
  LET base == frames[Min(Faces)].t
  IN  {i \in Faces : base + trim.start <= frames[i].t /\ frames[i].t <= base + trim.end}

\* exportVrmaFromFrames: every key of the animation, with its time from the first one's.
Animation ==
  LET keys == InOrder(frames, InTrim)
  IN  [n \in DOMAIN keys |-> [frame |-> keys[n], at |-> frames[keys[n]].t - frames[keys[1]].t]]

Exported ==
  IF Faces = {} \/ trim.end <= trim.start \/ InTrim = {} THEN [made |-> "error"]
  ELSE [made |-> "file", keys |-> Animation]

ExportVrma ==
  /\ "export" \in buttons /\ CanReplay(frames, errors)
  /\ clip' = Exported
  /\ UNCHANGED <<frames, errors, trim, cursor, playing, timer, startedAt, buttons, channel,
                 reading, time, files, plays, sent, resumed, swapped>>

Wait ==
  /\ time < EndOfTime
  /\ time' = time + 1
  /\ UNCHANGED <<frames, errors, trim, cursor, playing, timer, startedAt, buttons, channel,
                 reading, files, plays, sent, resumed, swapped>>
-----------------------------------------------------------------------------
ReplayNext ==
  \/ ExportVrma
  \/ /\ \/ Play \/ PlaybackTick \/ Pause \/ Reset \/ Wait
        \/ \E recording \in Recordings : ChooseFile(recording)
        \/ \E file \in reading : FileRead(file)
        \/ \E marks \in TrimMarks : TypeMarks(marks)
     /\ clip' = NoClip

ReplaySpec == ReplayInit /\ [][ReplayNext]_replayVars

\* An animation is the marked part of the recording, as the page counts its time: the
\* frames with a face that playback shows between the marks, in order, spaced as they are
\* played, the first one at 0; and with marks nobody typed the whole recording is there,
\* but for what its length was rounded by.  The recording has to begin with a face:
\* trimMotionFrames counts from the first one.
ClipIsMarkedPart ==
  LET marked == {i \in Faces : trim.start <= Offset(i) /\ Offset(i) <= trim.end}
  IN  /\ clip.made = "file" =>
           /\ {clip.keys[n].frame : n \in DOMAIN clip.keys} = marked
           /\ \A n, m \in DOMAIN clip.keys :
                /\ n < m => clip.keys[n].frame < clip.keys[m].frame
                /\ clip.keys[m].at - clip.keys[n].at
                     = Offset(clip.keys[m].frame) - Offset(clip.keys[n].frame)
           /\ clip.keys[1].at = 0
      /\ clip.made = "error" => marked = {} \/ trim.end <= trim.start
      /\ ~trim.typed =>
           /\ clip.made = "file"
           /\ \A i \in Faces : Offset(i) <= Offset(Len(frames)) - Hundredth => i \in marked

\* A playback shows the recording: from a reset on, across any pauses and late
\* ticks, every frame goes out once and in order, the ones up to the cursor and no
\* others, and never sooner after Play was pressed than the recording has it.  A
\* recording with errors is not played, and a channel or a timer is only there
\* while playing.  The exception is a file that was read to its end while another
\* one was being played (the change handler does not look at playing again).  What is
\* exported is what playback shows between the marks.
RecordingIsReplayed ==
  /\ [i \in DOMAIN sent |-> sent[i].frame] = [i \in 1 .. cursor |-> i]
  /\ timer = playing /\ (channel => playing)
  /\ ~swapped => /\ playing => ~errors
                 /\ \A i \in DOMAIN sent :
                      sent[i].at >= resumed.at /\ i >= resumed.frame
                        => sent[i].at - resumed.at >= Offset(i) - Offset(resumed.frame)
  /\ (clip # NoClip /\ frames[1].face) => ClipIsMarkedPart
=============================================================================
