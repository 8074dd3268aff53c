------------------------------ MODULE Datasets ------------------------------
(***************************************************************************)
(* What leaves the pages as data and comes back as data:                   *)
(*  - the samples the tracker page captures (tracker/tracker.js,           *)
(*    shared/dataset.js) and the drum annotations made of them             *)
(*    (shared/dataset-contract.js, shared/drum-dataset.js);                *)
(*  - a JSONL recording, read line by line on the replay page              *)
(*    (shared/recording.js) and as a whole in the viewer                   *)
(*    (shared/runtime.js).                                                 *)
(*                                                                         *)
(* A record is its fields as far as a reader tells them apart.  Time is in *)
(* half intervals of the automatic capture.                                *)
(***************************************************************************)
EXTENDS Integers, Sequences, FiniteSets, SequencesExt, FiniteSetsExt

CONSTANTS
  MaxRecords,     \* 12,000 samples are kept
  AutoEvery,      \* 500 ms
  MaxCaptures,    \* bound: samples captured
  LastInstant,    \* bound on the clock
  MaxLines,       \* bound: lines of a recording
  MaxMotionFrames,  \* MAX_MOTION_JSONL_FRAMES
  Coordinates,    \* coordinates of a label, in hundredths of the picture
  BoxPadding,     \* DRUM_STICK_BOX_PADDING
  Invalid         \* what throws

ASSUME DatasetsAssumption ==
  /\ MaxRecords \in Nat \ {0} /\ AutoEvery \in Nat \ {0} /\ MaxMotionFrames \in Nat \ {0}
  /\ Coordinates \subseteq Int /\ BoxPadding \in Nat
  /\ Invalid \notin {"whole", "none"}
  /\ Invalid \notin [face : {"whole"}, pose : {"whole", "none"}, at : Nat]

VARIABLES
  capture,     \* [enabled, records, seq, last] of datasetCapture
  instant,     \* performance.now
  captured,    \* history: how many samples were captured, and how many since the last clear
  annotation,  \* the drum annotation made of a sample and reviewed labels
  recording    \* the lines of a recording and what both readers make of them

dataVars == <<capture, instant, captured, annotation, recording>>

Long == -AutoEvery    \* -Infinity: long enough ago
NoAnnotation == [kind |-> "none"]
DataInit ==
  /\ capture = [enabled |-> FALSE, records |-> <<>>, seq |-> 0, last |-> Long]
  /\ instant = 0 /\ captured = [all |-> 0, kept |-> 0]
  /\ annotation = NoAnnotation /\ recording = [lines |-> <<>>, read |-> FALSE]
-----------------------------------------------------------------------------
\* Capturing (tracker.js)

\* createDatasetRecord: what is not a number becomes 0, media fields are dropped.
CreateDatasetRecord(seq, by, weight) ==
  [schema |-> "sample", createdAt |-> instant, seq |-> seq, by |-> by,
   license |-> "0BSD", localOnly |-> TRUE, rawMedia |-> FALSE,
   weight |-> IF weight = Invalid THEN 0 ELSE weight]

\* validateDatasetRecord
ValidateDatasetRecord(record) ==
  /\ record.schema = "sample" /\ record.seq >= 0 /\ record.license # ""
  /\ record.localOnly /\ ~record.rawMedia

\* Mutant: a sample has the number of its place.
CaptureSampleByPlace(by, weight) ==
  LET record == CreateDatasetRecord(Len(capture.records), by, weight)
      records == Append(capture.records, record)
  IN  [capture EXCEPT !.seq = @ + 1, !.last = IF by = "auto" THEN instant ELSE @,
         !.records = IF Len(records) > MaxRecords THEN Tail(records) ELSE records]

\* captureDatasetSample, past its early returns; the number is spent if the record is refused.
CaptureSample(by, weight) ==
  LET record == CreateDatasetRecord(capture.seq, by, weight)
      records == IF ValidateDatasetRecord(record) THEN Append(capture.records, record)
                 ELSE capture.records
  IN  [capture EXCEPT !.seq = @ + 1, !.last = IF by = "auto" THEN instant ELSE @,
         !.records = IF Len(records) > MaxRecords THEN Tail(records) ELSE records]

CountCapture ==
  /\ captured.all < MaxCaptures
  /\ captured' = [all |-> captured.all + 1, kept |-> captured.kept + 1]
  /\ UNCHANGED <<instant, annotation, recording>>

\* The loop has sent a frame, or btnCaptureDatasetSample.
AutoCapture(weight) ==
  /\ capture.enabled /\ instant - capture.last >= AutoEvery
  /\ capture' = CaptureSample("auto", weight) /\ CountCapture

ManualCapture(weight) == capture' = CaptureSample("manual", weight) /\ CountCapture

\* chkDatasetCapture
SwitchCapture ==
  /\ capture' = [capture EXCEPT !.enabled = ~@, !.last = Long]
  /\ UNCHANGED <<instant, captured, annotation, recording>>

\* btnClearDataset, which is disabled while there is nothing to clear.
ClearDataset ==
  /\ capture.records # <<>>
  /\ capture' = [capture EXCEPT !.records = <<>>, !.seq = 0, !.last = Long]
  /\ captured' = [captured EXCEPT !.kept = 0]
  /\ UNCHANGED <<instant, annotation, recording>>

PassInstant ==
  /\ instant < LastInstant /\ instant' = instant + 1
  /\ UNCHANGED <<capture, captured, annotation, recording>>
-----------------------------------------------------------------------------
\* Labelling (drum-dataset.js)

Hands == {"Left", "Right"}
\* The keys a label of each kind may have.
LabelKeys == [stick |-> {"id", "points", "hand", "representation"},
              drumZone |-> {"id", "points", "zoneType"},
              hit |-> {"id", "points", "zoneType", "hand", "timeMs"}]
RequiredKeys == [stick |-> {"id", "points", "hand", "representation"},
                 drumZone |-> {"id", "points", "zoneType"},
                 hit |-> {"id", "points", "zoneType", "timeMs"}]

\* validatePoints
PointsValid(points, kind) ==
  LET few == IF kind = "drumZone" THEN 3 ELSE 1
  IN  /\ Len(points) >= few
      /\ kind = "stick" => Len(points) <= 2
      /\ kind = "hit" => Len(points) <= 1
      /\ \A i \in DOMAIN points : points[i].x \in 0 .. 100 /\ points[i].y \in 0 .. 100

\* validateLabel; the keys of a label are those whose values are of their type.
LabelValid(label) ==
  /\ label.kind \in DOMAIN LabelKeys
  /\ label.keys \subseteq LabelKeys[label.kind] /\ RequiredKeys[label.kind] \subseteq label.keys
  /\ PointsValid(label.points, label.kind)
  /\ label.kind = "stick" =>
       Len(label.points) = [tip |-> 1, padded |-> 2][label.representation]

\* createDrumDatasetAnnotation(FromTrackerSample): all labels or none.
CreateAnnotation(sample, labels) ==
  IF ValidateDatasetRecord(sample) /\ \A i \in DOMAIN labels : LabelValid(labels[i])
  THEN [kind |-> "annotation", frameId |-> <<sample.createdAt, sample.seq>>, labels |-> labels,
        license |-> sample.license]
  ELSE Invalid

\* deriveStickLabelBox
StickBox(label) ==
  LET Clip01(x) == Max({0, Min({100, x})})
      Side(axis, Pick(_), by) == Clip01(Pick({label.points[i][axis] : i \in 1 .. 2}) + by)
  IN  IF Len(label.points) = 1 THEN Invalid
      ELSE [low |-> [x |-> Side("x", Min, -BoxPadding), y |-> Side("y", Min, -BoxPadding)],
            high |-> [x |-> Side("x", Max, BoxPadding), y |-> Side("y", Max, BoxPadding)]]

Points == [x : Coordinates, y : Coordinates]
StickLabels == [kind : {"stick"}, keys : {LabelKeys["stick"]}, representation : {"tip", "padded"},
                points : {<<p>> : p \in Points} \cup {<<p, q>> : p, q \in Points}]
OtherLabels ==
  UNION {[kind : {k}, keys : {LabelKeys[k], RequiredKeys[k], LabelKeys[k] \ {"id"},
                              LabelKeys[k] \cup {"colour"}},
          points : {[i \in 1 .. n |-> [x |-> 50, y |-> 50]] : n \in 0 .. 3}]
         : k \in {"drumZone", "hit"}}

\* A reviewer labels a sample.
Annotate(sample, labels) ==
  /\ annotation = NoAnnotation
  /\ annotation' = [kind |-> "reviewed", sample |-> sample, given |-> labels,
                    made |-> CreateAnnotation(sample, labels)]
  /\ UNCHANGED <<capture, instant, captured, recording>>
-----------------------------------------------------------------------------
\* Recordings (recording.js, runtime.js)

Motion == [text |-> "json", schema |-> "motion", t |-> "number", seq |-> "number",
           face |-> "whole", pose |-> "whole", warnings |-> "list", quality |-> "whole", media |-> FALSE,
           at |-> 0]
Metadata == [Motion EXCEPT !.schema = "metadata", !.face = "none", !.pose = "none", !.t = "none",
                           !.seq = "none", !.warnings = "none"]

\* Lines a recording may come to hold by another program or an edit; numbers may be
\* written as text, arrays be longer than needed or hold a null.
OtherLines ==
  {[Motion EXCEPT !.text = x] : x \in {"blank", "torn"}}
    \cup {[Motion EXCEPT !.schema = x] : x \in {"none", "other"}}
    \cup {[Motion EXCEPT !.t = x] : x \in {"text", "none"}}
    \cup {[Motion EXCEPT !.seq = x] : x \in {"text", "none"}}
    \cup {[Motion EXCEPT !.face = x] : x \in {"none", "long", "short", "null"}}
    \cup {[Motion EXCEPT !.pose = x] : x \in {"none", "long", "short", "empty"}}
    \cup {[Motion EXCEPT !.warnings = "none"], [Motion EXCEPT !.quality = "bad"],
          [Motion EXCEPT !.media = TRUE]}

\* Mutant: an array may be longer than it has to be.
ValidArrayIfLong(array) == array \in {"whole", "long"}
\* validateNumberArray
ValidArray(array) == array = "whole"

\* validateRecordingRecord
ValidateRecordingRecord(line) ==
  /\ ~line.media
  /\ \/ line.schema = "metadata"
     \/ /\ line.schema = "motion" /\ line.t = "number" /\ line.seq = "number"
        /\ line.warnings = "list" /\ line.quality # "bad"
        /\ line.face = "none" \/ ValidArray(line.face)
        /\ line.pose \in {"none", "empty"} \/ ValidArray(line.pose)

\* The places of some of the lines, from the first line to the last.
PlacesOf(places, lines) ==
  LET found[n \in 0 .. Len(lines)] ==
        IF n = 0 THEN <<>> ELSE IF n \in places THEN Append(found[n - 1], n) ELSE found[n - 1]
  IN  found[Len(lines)]

\* parseRecordingJsonl: each line by itself; the frames with a face.
ParseRecordingJsonl(lines) ==
  LET filled == {i \in DOMAIN lines : lines[i].text # "blank"}
      valid == {i \in filled : lines[i].text = "json" /\ ValidateRecordingRecord(lines[i])}
      shown == PlacesOf({i \in valid : lines[i].schema = "motion" /\ lines[i].face # "none"}, lines)
  IN  [errors |-> Cardinality(filled) - Cardinality(valid),
       frames |-> [j \in DOMAIN shown |-> LET l == lines[shown[j]]
                                           IN  [face |-> l.face, pose |-> l.pose, at |-> l.at]]]

\* readNumberArray: as many as are needed; a null is a 0.
ReadArray(array) == IF array \in {"whole", "long", "null"} THEN "whole" ELSE Invalid

\* parseMotionRecord
ParseMotionRecord(line) ==
  LET face == ReadArray(line.face)
      pose == IF line.pose = "none" THEN "none" ELSE ReadArray(line.pose)
  IN  IF line.schema = "other" \/ "none" \in {line.t, line.seq} \/ Invalid \in {face, pose}
      THEN Invalid ELSE [face |-> face, pose |-> pose, at |-> line.at]

\* parseMotionJsonl: up to the limit, and the first line it cannot read refuses the file.
ParseMotionJsonl(lines) ==
  LET tried == PlacesOf({i \in DOMAIN lines : /\ lines[i].text # "blank"
                                              /\ lines[i].text = "json" => lines[i].schema # "metadata"},
                        lines)
      frames == [j \in 1 .. Min({MaxMotionFrames, Len(tried)}) |->
                   LET l == lines[tried[j]] IN IF l.text = "torn" THEN Invalid ELSE ParseMotionRecord(l)]
  IN  IF tried = <<>> \/ Invalid \in Range(frames) THEN Invalid ELSE frames

WriteLine(line) ==
  /\ ~recording.read /\ Len(recording.lines) < MaxLines
  /\ recording' = [recording EXCEPT !.lines = Append(@, [line EXCEPT !.at = Len(recording.lines) + 1])]
  /\ UNCHANGED <<capture, instant, captured, annotation>>

ReadRecording ==
  /\ ~recording.read
  /\ recording' = [lines |-> recording.lines, read |-> TRUE,
                   replay |-> ParseRecordingJsonl(recording.lines),
                   viewer |-> ParseMotionJsonl(recording.lines)]
  /\ UNCHANGED <<capture, instant, captured, annotation>>

\* The three do not meet: a behaviour is about one of them.
DataNext ==
  \/ /\ annotation = NoAnnotation /\ recording.lines = <<>> /\ ~recording.read
     /\ \/ \E weight \in {1, Invalid} : AutoCapture(weight) \/ ManualCapture(weight)
        \/ SwitchCapture \/ ClearDataset \/ PassInstant
  \/ /\ captured.all = 1 /\ capture.records # <<>> /\ instant = 0 /\ ~capture.enabled
     /\ \/ \E label \in StickLabels \cup OtherLabels : Annotate(capture.records[1], <<label>>)
        \/ \E label \in OtherLabels :
             Annotate([capture.records[1] EXCEPT !.rawMedia = TRUE], <<label>>)
        \/ \E l, m \in OtherLabels : Annotate(capture.records[1], <<l, m>>)
  \/ /\ captured.all = 0 /\ instant = 0 /\ ~capture.enabled
     /\ (\E line \in {Motion, Metadata} \cup OtherLines : WriteLine(line)) \/ ReadRecording

DataSpec == DataInit /\ [][DataNext]_dataVars
-----------------------------------------------------------------------------
\* The samples kept are the last ones captured since the page was cleared, with their
\* numbers in a row, none refused, none overwritten and none numbered twice at the limit,
\* since an annotation refers to its sample by its number (captureDatasetSample,
\* trackerSampleFrameId).  The box of an accepted stick label, on which a detector is
\* trained, holds its tip and its tail and stays in the picture, also at its edge.
SamplesAreKept ==
  /\ LET n == Len(capture.records) IN
     /\ n = Min({MaxRecords, captured.kept})
     /\ \A i \in 1 .. n : capture.records[i].seq = captured.kept - n + i - 1
  /\ annotation.kind = "reviewed" /\ annotation.made # Invalid =>
       \A i \in DOMAIN annotation.made.labels :
         LET label == annotation.made.labels[i]
             box == StickBox(label)
         IN  label.kind = "stick" /\ box # Invalid =>
               \A j \in 1 .. 2, axis \in {"x", "y"} :
                 /\ label.points[j][axis] \in box.low[axis] .. box.high[axis]
                 /\ box.low[axis] >= 0 /\ box.high[axis] <= 100

\* Both readers show the same recording: of a file without errors they play the same
\* frames, unless the file has a frame without a face or a pose without points, which the
\* replay page passes over or takes and the viewer refuses, or more frames than the viewer
\* takes; and of a file with errors the viewer, if it takes it at all, plays at least
\* what the replay page plays (parseRecordingJsonl, parseMotionJsonl).
ReadersAgree ==
  recording.read =>
    LET frames == recording.replay.frames
        viewer == recording.viewer
        odd == \E i \in DOMAIN recording.lines :
                 recording.lines[i].schema = "motion"
                   /\ (recording.lines[i].face = "none" \/ recording.lines[i].pose = "empty")
    IN  /\ recording.replay.errors = 0 /\ ~odd =>
             viewer = IF frames = <<>> THEN Invalid
                      ELSE SubSeq(frames, 1, Min({MaxMotionFrames, Len(frames)}))
        /\ viewer # Invalid =>
             \A i \in DOMAIN frames : frames[i].at <= Last(viewer).at => frames[i] \in Range(viewer)
=============================================================================
