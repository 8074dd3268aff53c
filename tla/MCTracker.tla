------------------------------ MODULE MCTracker ------------------------------
(***************************************************************************)
(* Ten parts of the capturing side that share no state: the devices, OBS,  *)
(* the loop with its recordings, the delta codec, the drum stick, the      *)
(* fusion of two cameras, drum strokes with their grading, the hands over  *)
(* a percussion kit, the guided calibrations, and the placing of the kit's *)
(* zones.  A behaviour lets one of them move.                              *)
(***************************************************************************)
EXTENDS TrackerMedia, ObsBridge, TrackerLoop, Kgm2, DrumStick, StageFusion, DrumHits, HandZones,
        Calibration, DrumKit

VARIABLE part    \* the part that moves

Situations2 == {[lipsync |-> TRUE, hands |-> FALSE, mode |-> 1],
                [lipsync |-> FALSE, hands |-> TRUE, mode |-> 2]}
Owned2 == [a |-> <<"avatar">>, b |-> <<"avatar", "drums">>]
LoopPictures == {[face |-> TRUE, light |-> "bright"], [face |-> TRUE, light |-> "unreadable"],
                 [face |-> FALSE, light |-> "dark"]}
Cameras2 == [front |-> 2, side |-> 1]
Zones2 == [hihat |-> 3, snare |-> 9]

KitCatalogue ==
  LET Zone(id, x, radius) == [id |-> id, x |-> x, radius |-> radius]
  IN  [drums  |-> <<Zone("snare", 3, 1), Zone("kick", 4, 2)>>,
       hybrid |-> <<Zone("bass", 2, 1), Zone("kick", 5, 1)>>]

MCInit ==
  /\ MediaInit /\ ObsInit /\ LoopInit /\ Kgm2Init /\ StickInit /\ FusionInit /\ DrumInit /\ HandInit /\ CalibInit /\ KitInit
  /\ part \in {"media", "obs", "loop", "kgm2", "stick", "fusion", "drums", "hands", "calib", "kit"}
  /\ part # "obs" => situation = "a"
  /\ part # "drums" => tip.zone = "snare"
  /\ part # "hands" => style = "stick"
  /\ tracker.hands /\ tracker.mirror

MCNext ==
  /\ UNCHANGED part
  /\ \/ /\ part = "media" /\ MediaNext
        /\ UNCHANGED <<obsVars, loopVars, kgm2Vars, stickVars, fusionVars, drumVars, handVars, calibVars, kitVars>>
     \/ /\ part = "obs" /\ ObsNext
        /\ UNCHANGED <<mediaVars, loopVars, kgm2Vars, stickVars, fusionVars, drumVars, handVars, calibVars, kitVars>>
     \/ /\ part = "loop" /\ LoopNext
        /\ UNCHANGED <<mediaVars, obsVars, kgm2Vars, stickVars, fusionVars, drumVars, handVars, calibVars, kitVars>>
     \/ /\ part = "kgm2" /\ Kgm2Next
        /\ UNCHANGED <<mediaVars, obsVars, loopVars, stickVars, fusionVars, drumVars, handVars, calibVars, kitVars>>
     \/ /\ part = "stick" /\ StickNext
        /\ UNCHANGED <<mediaVars, obsVars, loopVars, kgm2Vars, fusionVars, drumVars, handVars, calibVars, kitVars>>
     \/ /\ part = "fusion" /\ FusionNext
        /\ UNCHANGED <<mediaVars, obsVars, loopVars, kgm2Vars, stickVars, drumVars, handVars, calibVars, kitVars>>
     \/ /\ part = "drums" /\ DrumNext
        /\ UNCHANGED <<mediaVars, obsVars, loopVars, kgm2Vars, stickVars, fusionVars, handVars, calibVars, kitVars>>
     \/ /\ part = "hands" /\ HandNext
        /\ UNCHANGED <<mediaVars, obsVars, loopVars, kgm2Vars, stickVars, fusionVars, drumVars, calibVars, kitVars>>
     \/ /\ part = "calib" /\ CalibNext
        /\ UNCHANGED <<mediaVars, obsVars, loopVars, kgm2Vars, stickVars, fusionVars, drumVars, handVars, kitVars>>
     \/ /\ part = "kit" /\ KitNext
        /\ UNCHANGED <<mediaVars, obsVars, loopVars, kgm2Vars, stickVars, fusionVars, drumVars, handVars, calibVars>>

\* The browser answers every request that is under way, one after another.
MCSpec ==
  /\ MCInit /\ [][MCNext]_<<mediaVars, obsVars, loopVars, kgm2Vars, stickVars, fusionVars,
                        drumVars, handVars, calibVars, kitVars, part>>
  /\ WF_mediaVars(part = "media" /\ \E t \in TaskIds : Settles(t))
=============================================================================
