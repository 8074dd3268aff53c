------------------------------ MODULE MCViewer ------------------------------
(***************************************************************************)
(* Seven parts of the showing side that share no state: the viewer's room, *)
(* the shell that hands it an avatar file, the replay page, the formats a  *)
(* frame is carried in, the data that is written to files and read again,  *)
(* the settings and links of the pages, and the map from the face to an    *)
(* avatar's expressions.  A behaviour lets one of them move.               *)
(*                                                                         *)
(* The room has two participants, sequence numbers modulo 4, and five      *)
(* instances of its bounds: one participant's stream with replays and      *)
(* reconnects; the same with a tracker reload; a guest that leaves and     *)
(* returns while its avatar loads; two files for two participants; native  *)
(* revisions and bodies of a participant that leaves.                      *)
(***************************************************************************)
EXTENDS ViewerRooms, DesktopShell, ReplayPage, WireFormats, Datasets, PageSettings,
        ExpressionMaps

VARIABLE part    \* the part that moves

Stream == [loads |-> 0, revisions |-> 0, replays |-> TRUE, frames |-> <<SeqModulus, 0>>,
           reloads |-> 0, lag |-> 1, reconnects |-> TRUE]
Reloads == [Stream EXCEPT !.replays = FALSE, !.reloads = 1]
Guest  == [loads |-> 1, revisions |-> 0, replays |-> FALSE, frames |-> <<1, 2>>,
           reloads |-> 0, lag |-> 0, reconnects |-> FALSE]
Files  == [loads |-> 2, revisions |-> 0, replays |-> FALSE, frames |-> <<1, 1>>,
           reloads |-> 0, lag |-> 0, reconnects |-> FALSE]
Native == [loads |-> 2, revisions |-> 2, replays |-> FALSE, frames |-> <<1, 0>>,
           reloads |-> 0, lag |-> 0, reconnects |-> FALSE]

MCLimits == {Stream, Reloads, Guest, Files, Native}
NullSeq  == -1
WireValues == {-9, 3}
Vrms ==
  {{},
   {<<"aa">>, <<"blink">>},
   {<<"aa">>, <<"blinkLeft">>, <<"blinkRight">>, <<"happy">>, <<"jawOpen">>},
   {<<"blinkLeft">>, <<"blink">>},
   Channels}
Inochis ==
  {<< <<"eye", "left", "blink">>, <<"eye", "right", "blink">>, <<"mouth", "open">> >>,
   << <<"mouth", "shape">>, <<"blink">>, <<"jaw", "open">> >>,
   << <<"smile">>, <<"eye", "blink">>, <<"head">> >>,
   << <<"me">>, <<"kuchi">>, <<"smile">> >>}
Maps ==
  {{Target(<<"aa">>, {<<"eyeBlinkLeft">>}), Target(<<"wink">>, {})},
   {Target(<<"own">>, {<<"jawOpen">>})}}
Record(t, face) == [t |-> t, face |-> face]
Recordings3 ==
  {[records |-> <<Record(1, TRUE), Record(2, FALSE), Record(5, TRUE)>>, errors |-> FALSE],
   [records |-> <<Record(0, FALSE), Record(2, TRUE), Record(0, FALSE)>>, errors |-> FALSE],
   [records |-> <<Record(1, TRUE)>>, errors |-> TRUE]}
Marks == {[start |-> 1, end |-> 4]}

MCInit ==
  /\ Init /\ ShellInit /\ ReplayInit /\ WireInit /\ DataInit /\ SettingsInit
  /\ MapInit
  /\ part \in {"room", "shell", "replay", "wire", "data", "settings", "maps"}
  /\ part # "room" => limits = Stream /\ link = "closed"

MCNext ==
  /\ UNCHANGED part
  /\ \/ /\ part = "room" /\ Next
        /\ UNCHANGED <<shellVars, replayVars, wireVars, dataVars, settingVars, mapVars>>
     \/ /\ part = "shell" /\ ShellNext
        /\ UNCHANGED <<vars, replayVars, wireVars, dataVars, settingVars, mapVars>>
     \/ /\ part = "replay" /\ ReplayNext
        /\ UNCHANGED <<vars, shellVars, wireVars, dataVars, settingVars, mapVars>>
     \/ /\ part = "wire" /\ WireNext
        /\ UNCHANGED <<vars, shellVars, replayVars, dataVars, settingVars, mapVars>>
     \/ /\ part = "data" /\ DataNext
        /\ UNCHANGED <<vars, shellVars, replayVars, wireVars, settingVars, mapVars>>
     \/ /\ part = "settings" /\ SettingsNext
        /\ UNCHANGED <<vars, shellVars, replayVars, wireVars, dataVars, mapVars>>
     \/ /\ part = "maps" /\ MapNext
        /\ UNCHANGED <<vars, shellVars, replayVars, wireVars, dataVars, settingVars>>

MCSpec ==
  /\ MCInit /\ [][MCNext]_<<vars, shellVars, replayVars, wireVars, dataVars,
                    settingVars, mapVars, part>>
  /\ (part = "room" => Fairness)
=============================================================================
