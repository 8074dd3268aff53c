---------------------------- MODULE StageFusion ----------------------------
(***************************************************************************)
(* Two cameras watching one drum kit (src/core/multiCamera.ts): each       *)
(* publishes what it sees of a stroke, a hit candidate and an observation  *)
(* of the stick's tip, and fusion decides which hits are the same stroke   *)
(* and which observations are the same instant of the stick's track.       *)
(*                                                                         *)
(* Geometry is a line: a ray is where it meets the kit, two rays pass each *)
(* other at their distance, and the point between them is their middle.    *)
(* Capture times are those of the aligned clocks, which leave a residual.  *)
(* Positions and times are doubled where a middle is taken.                *)
(***************************************************************************)
EXTENDS Integers, Sequences, FiniteSets, SequencesExt, FiniteSetsExt

CONSTANTS
  Cameras,        \* camera -> the confidence of its candidates
  Reference,      \* the camera whose clock is the stage's
  Zones,          \* zone -> its centre
  Radius,         \* of every zone
  Places,         \* where strokes fall, on the kit or beside it
  RayErrors,      \* how far a ray may pass from its stroke
  Residual,       \* how far an aligned clock may be off, either way
  MaxRayGap,      \* 3 cm
  MergeWindow,    \* 25 ms
  PairWindow,     \* 8 ms
  MaxSampleAge,   \* 120 ms
  Pauses,         \* times between two strokes
  MaxStrokes,     \* bound: strokes
  NoZone          \* null

ASSUME FusionAssumption ==
  /\ Radius \in Nat /\ Residual \in Nat /\ MaxRayGap \in Nat /\ MergeWindow \in Nat
  /\ PairWindow \in Nat /\ MaxSampleAge \in Nat /\ MaxStrokes \in Nat
  /\ RayErrors \subseteq Nat /\ Places \subseteq Nat /\ Pauses \subseteq Nat
  /\ Reference \in DOMAIN Cameras /\ NoZone \notin DOMAIN Zones

VARIABLES
  calibration,  \* of each camera: "good", "rejected", "unaligned", "other frame"
  strokes,      \* the strokes played: [time, place]
  candidates    \* what was published: [camera, time, ray, stroke]

fusionVars == <<calibration, strokes, candidates>>

FusionInit ==
  /\ calibration = [c \in DOMAIN Cameras |-> "good"]
  /\ strokes = <<>> /\ candidates = <<>>

Gap(a, b) == IF a < b THEN b - a ELSE a - b

\* triangulateRays: where two views place the tip, and by how much they disagree.
TriangulateRays(v, w) ==
  [position |-> candidates[v].ray + candidates[w].ray,
   gap |-> Gap(candidates[v].ray, candidates[w].ray)]
-----------------------------------------------------------------------------
\* admitCameras: cameras that disagree about the stage frame disqualify each other.
UsableCameras ==
  LET sound == {c \in DOMAIN Cameras : calibration[c] \in {"good", "other frame"}}
  IN  IF Cardinality({calibration[c] : c \in sound}) > 1 THEN {} ELSE sound

\* stageObservations: the views of usable cameras that are no older than the newest allows.
Staged ==
  LET views == {i \in DOMAIN candidates : candidates[i].camera \in UsableCameras}
  IN  {i \in views : \A j \in views : candidates[j].time - candidates[i].time <= MaxSampleAge}

\* The zones around a point (doubled), nearest first.
ZonesAt(point) ==
  SetToSortSeq({z \in DOMAIN Zones : Gap(point, 2 * Zones[z]) <= 2 * Radius},
               LAMBDA y, z : Gap(point, 2 * Zones[y]) < Gap(point, 2 * Zones[z]))

\* nearestContainingZone, intersectRayWithZonePlane (no two zones overlap here).
ZoneAt(point) == IF ZonesAt(point) = <<>> THEN NoZone ELSE Head(ZonesAt(point))

Earlier(i, j) ==
  \/ candidates[i].time < candidates[j].time
  \/ candidates[i].time = candidates[j].time /\ i < j

\* Views of two cameras that may be one stroke, those that agree best first.
StereoPairs ==
  LET RayGap(p) == TriangulateRays(p[1], p[2]).gap
      pairs == {p \in Staged \X Staged :
                  /\ Earlier(p[1], p[2])
                  /\ candidates[p[1]].camera # candidates[p[2]].camera
                  /\ candidates[p[2]].time - candidates[p[1]].time <= MergeWindow
                  /\ RayGap(p) <= MaxRayGap}
  IN  SetToSortSeq(pairs, LAMBDA p, q :
        \/ RayGap(p) < RayGap(q)
        \/ /\ RayGap(p) = RayGap(q)
           /\ \/ Earlier(p[1], q[1])
              \/ p[1] = q[1] /\ Earlier(p[2], q[2]))

\* buildFusedEvent
Hit(views, zone, time) == [views |-> views, zone |-> zone, time |-> time]

\* A pair takes both views; it is a hit if their middle lies in a zone.
TakePair(taken, p) ==
  LET point == TriangulateRays(p[1], p[2]).position
      time == candidates[p[1]].time + candidates[p[2]].time
      views == {p[1], p[2]}
  IN  IF views \cap taken.views # {} THEN taken
      ELSE [views |-> taken.views \cup views,
            hits |-> IF ZoneAt(point) = NoZone THEN taken.hits
                     ELSE taken.hits \cup {Hit(views, ZoneAt(point), time)}]

\* Mutant: a stroke seen by one camera is a hit whatever there is already.
TakeSingleAlways(hits, i) ==
  LET zone == ZoneAt(2 * candidates[i].ray) IN
  IF zone = NoZone THEN hits ELSE hits \cup {Hit({i}, zone, 2 * candidates[i].time)}

\* A view left over is a hit of the zone it meets, unless that zone has one already
\* within the merge window.
TakeSingle(hits, i) ==
  LET zone == ZoneAt(2 * candidates[i].ray)
      time == 2 * candidates[i].time
      clash == \E h \in hits : h.zone = zone /\ Gap(h.time, time) <= 2 * MergeWindow
  IN  IF zone = NoZone \/ clash THEN hits ELSE hits \cup {Hit({i}, zone, time)}

\* fuseCameraHitCandidates: the pairs first, then the others, the most confident first.
FusedHits ==
  LET stereo == FoldLeft(TakePair, [views |-> {}, hits |-> {}], StereoPairs)
      Confidence(i) == Cameras[candidates[i].camera]
      singles == SetToSortSeq(Staged \ stereo.views, LAMBDA i, j :
                   \/ Confidence(i) > Confidence(j)
                   \/ Confidence(i) = Confidence(j) /\ Earlier(i, j))
  IN  FoldLeft(TakeSingle, stereo.hits, singles)

\* groupByKeyAndInstant, of one stick: a view joins the last instant if it is in the window
\* of its first view and its camera has none there yet.
WithView(instants, i) ==
  IF /\ instants # <<>>
     /\ candidates[i].time - candidates[Head(Last(instants))].time <= PairWindow
     /\ \A j \in ToSet(Last(instants)) : candidates[j].camera # candidates[i].camera
  THEN Append(Front(instants), Append(Last(instants), i))
  ELSE Append(instants, <<i>>)

Instants == FoldLeft(WithView, <<>>, SetToSortSeq(Staged, Earlier))

\* fuseCameraObservations: the two most confident views of an instant, if their rays meet.
FusedSamples ==
  LET Ranked(instant) == SetToSortSeq(ToSet(instant), LAMBDA i, j :
                           Cameras[candidates[i].camera] > Cameras[candidates[j].camera])
      Meets(instant) ==
        TriangulateRays(Ranked(instant)[1], Ranked(instant)[2]).gap <= MaxRayGap
      Sample(instant) == [views |-> {Ranked(instant)[1], Ranked(instant)[2]},
                          time |-> candidates[Ranked(instant)[1]].time
                                     + candidates[Ranked(instant)[2]].time]
      pairs == SelectSeq(Instants, LAMBDA instant : Len(instant) > 1 /\ Meets(instant))
  IN  SortSeq([n \in DOMAIN pairs |-> Sample(pairs[n])], LAMBDA a, b : a.time < b.time)

\* toStickTipSamples: each sample with the one before it, for the hit detector.
StickTipSamples(samples) ==
  [n \in 1 .. Len(samples) - 1 |->
     [previousTime |-> samples[n].time, time |-> samples[n + 1].time]]
-----------------------------------------------------------------------------
\* evaluateCalibration: a camera misses its checkpoints, or its calibration is that of
\* another stage frame (bound: one camera fails, before the first stroke).
Calibrate(c, outcome) ==
  /\ strokes = <<>> /\ \A d \in DOMAIN Cameras : calibration[d] = "good"
  /\ calibration' = [calibration EXCEPT ![c] = outcome]
  /\ UNCHANGED <<strokes, candidates>>

\* measureCaptureTimestampAlignment: the clock of a camera cannot be aligned.
AlignFails(c) == c # Reference /\ Calibrate(c, "unaligned")

\* A stroke, after a pause: each camera publishes it or does not see it.
PlayStroke(pause, place, seen) ==
  LET now == IF strokes = <<>> THEN 0 ELSE Last(strokes).time + pause
      n == Len(strokes) + 1
  IN  /\ Len(strokes) < MaxStrokes
      /\ strokes' = Append(strokes, [time |-> now, place |-> place])
      /\ \E late \in [seen \ {Reference} -> -Residual .. Residual], error \in [seen -> RayErrors] :
           candidates' = candidates \o SetToSeq(
             {[camera |-> c, time |-> IF c = Reference THEN now ELSE now + late[c],
               ray |-> place + error[c], stroke |-> n] : c \in seen})
      /\ UNCHANGED calibration

\* One camera's detector fires again, a tick after the stroke it has just published.
FireAgain ==
  /\ candidates # <<>> /\ Len(candidates) < 2 * MaxStrokes
  /\ \A i, j \in DOMAIN candidates :
       (i # j /\ candidates[i].stroke = candidates[j].stroke)
         => candidates[i].camera # candidates[j].camera
  /\ candidates' = Append(candidates, [Last(candidates) EXCEPT !.time = @ + 1])
  /\ UNCHANGED <<calibration, strokes>>

FusionNext ==
  \/ \E c \in DOMAIN Cameras :
       AlignFails(c) \/ \E outcome \in {"rejected", "other frame"} : Calibrate(c, outcome)
  \/ \E pause \in Pauses, place \in Places, seen \in SUBSET DOMAIN Cameras :
       PlayStroke(pause, place, seen)
  \/ FireAgain
-----------------------------------------------------------------------------
\* Two strokes that fusion can tell apart: by their places, or by their times.
Apart(s, r) ==
  \/ Gap(s.place, r.place) > 2 * Radius
  \/ Gap(s.time, r.time) > 2 * MergeWindow + Residual + 1

\* While the stick is seen at instants apart, each instant that two usable cameras saw with
\* rays that meet is one sample of its track, of views of that instant alone, nothing seen
\* by one camera only is in it, and the track goes forward in time.
TrackIsSeen ==
  LET samples == FusedSamples
      StrokesOf(sample) == {candidates[i].stroke : i \in sample.views}
      MayMeet(n) == \E i, j \in Staged :
                      /\ candidates[i].stroke = n /\ candidates[j].stroke = n
                      /\ candidates[i].camera # candidates[j].camera
                      /\ Gap(candidates[i].ray, candidates[j].ray) <= MaxRayGap
  IN  (\A m, n \in DOMAIN strokes : m # n =>
         Gap(strokes[m].time, strokes[n].time) > PairWindow + 2 * Residual + 1) =>
        /\ \A n \in DOMAIN strokes :
             Cardinality({k \in DOMAIN samples : n \in StrokesOf(samples[k])})
               = IF MayMeet(n) THEN 1 ELSE 0
        /\ \A k \in DOMAIN samples : Cardinality(StrokesOf(samples[k])) = 1
        /\ \A tip \in ToSet(StickTipSamples(samples)) : tip.previousTime < tip.time

\* A stroke is counted once, whoever saw it: if the strokes are apart, each one on the kit
\* that a usable camera saw lately is one hit of its zone, of views of that stroke alone -
\* though a drifted ray misses the other camera's or a camera fires again a tick later -
\* and a stroke beside the kit is none; a view seen by one camera is never a hit beside
\* another of its zone in the merge window (fuseCameraHitCandidates); and the fused track
\* of the stick is what the cameras saw (fuseCameraObservations, toStickTipSamples).  Of a
\* camera that fires again later than that, though within the merge window, it says
\* nothing: once the other camera's only view is paired, such a stroke can be two hits.
StrokesCountOnce ==
  LET hits == FusedHits
      StrokeOf(h) == {candidates[i].stroke : i \in h.views}
      Seen(n) == \E i \in Staged : candidates[i].stroke = n
      apart == \A m, n \in DOMAIN strokes : m # n => Apart(strokes[m], strokes[n])
  IN  /\ apart => \A n \in DOMAIN strokes :
           LET mine == {h \in hits : n \in StrokeOf(h)} IN
           /\ Cardinality(mine) = IF Seen(n) /\ ZoneAt(2 * strokes[n].place) # NoZone THEN 1 ELSE 0
           /\ \A h \in mine : StrokeOf(h) = {n} /\ h.zone = ZoneAt(2 * strokes[n].place)
      /\ \A h, g \in hits :
           (h # g /\ h.zone = g.zone /\ Gap(h.time, g.time) <= 2 * MergeWindow)
             => Cardinality(h.views) = 2 /\ Cardinality(g.views) = 2
      /\ TrackIsSeen
=============================================================================
