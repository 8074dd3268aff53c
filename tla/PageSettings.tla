---------------------------- MODULE PageSettings ----------------------------
(***************************************************************************)
(* The settings of the tracker page and of the viewer page, and the links  *)
(* that carry them from one page to another: the pairing links of the     *)
(* studio, the tracker's link to its viewer, the two URLs it copies for    *)
(* OBS, and the viewer's scene URL.  A page reads its stored settings,     *)
(* lays the address's parameters over them, takes the token out of the     *)
(* address, and writes its settings back at every edit - without a token   *)
(* that came by link.                                                      *)
(*                                                                         *)
(* A query is a function from the parameters it names to their values.     *)
(* "ws" stands for wsUrl, "wt" for wtUrl with wtHash, "mirror" for the     *)
(* device parameters (mirror, camera, resolution, fps), "bloom" for bloom  *)
(* and vignette.  NoText is the empty string.                              *)
(***************************************************************************)
EXTENDS Integers, Functions

CONSTANTS
  Rooms,        \* names a user may type
  GoodRooms,    \* those of them that PAIRING_ROOM_PATTERN allows
  Tokens,
  NoText,
  DefaultRoom,  \* 'demo'
  MaxActs       \* bound: acts of the user

VARIABLES
  stored,       \* page -> its settings in localStorage
  address,      \* page -> the query of its address
  settings,     \* page -> the settings in force, the same as in its controls
  transient,    \* page -> transientPairingToken
  clipboard,    \* the link made last
  typed,        \* page -> tokens its user typed into it
  meant,        \* page -> what the link it was opened by was made to show
  acts

settingVars == <<stored, address, settings, transient, clipboard, typed, meant, acts>>

\* f laid over g.
Onto(f, g) == [n \in DOMAIN f \cup DOMAIN g |-> IF n \in DOMAIN f THEN f[n] ELSE g[n]]

Pages == {"tracker", "viewer"}
RoomNames == {"mode", "room", "token", "ws", "wt"}
LookNames == {"situation", "scene", "colour", "transparent", "bloom", "drum"}
NoLink == [to |-> "nowhere", query |-> <<>>, meant |-> <<>>]

---------------------------------------------------------------------------
(* What a situation and a scene preset stand for.                          *)

SituationLook ==
  LET Look(scene, bloom, drum) ==
        [scene |-> scene, transparent |-> TRUE, bloom |-> bloom, drum |-> drum]
  IN  [talk   |-> Look("soft", FALSE, FALSE),
       game   |-> Look("anime", FALSE, FALSE),
       sing   |-> Look("anime", TRUE, FALSE),
       collab |-> Look("soft", FALSE, FALSE),
       drum   |-> Look("soft", FALSE, TRUE)]

ScenePresets ==
  [soft  |-> [colour |-> "night", bloom |-> FALSE],
   anime |-> [colour |-> "violet", bloom |-> TRUE],
   flat  |-> [colour |-> "slate", bloom |-> FALSE]]

DefaultSettings ==
  LET room == [mode |-> "local", room |-> DefaultRoom, token |-> NoText,
               ws |-> NoText, wt |-> NoText, situation |-> "talk"]
  IN  [tracker |-> Onto(room, [mirror |-> TRUE]),
       viewer  |-> Onto(room, [scene |-> "soft", colour |-> "night",
                               transparent |-> FALSE, bloom |-> FALSE, drum |-> FALSE])]

---------------------------------------------------------------------------
(* Links.                                                                  *)

Given(q) == Restrict(q, {n \in DOMAIN q : q[n] # NoText})
Only(s, names) == Restrict(s, DOMAIN s \cap names)
Over(s, q, names) == Onto(Only(q, names \cap DOMAIN s), s)
Drop(q, names) == Restrict(q, DOMAIN q \ names)

BuildViewerPairingUrl(s) == Given(Only(s, RoomNames))
BuildPhoneTrackerUrl(s)  == Given(Only(s, RoomNames \cup {"mirror"}))

SituationViewerUrl(s) ==
  LET kept == IF s.mode = "wt" THEN RoomNames ELSE RoomNames \ {"wt"}
      look == SituationLook[s.situation]
  IN  Onto(Given(Only(s, kept)),
           [preset |-> "obs", situation |-> s.situation, scene |-> look.scene,
            bg |-> "transparent", bloom |-> look.bloom, drum |-> look.drum])

DrumObsUrl(s) ==
  Onto(BuildViewerPairingUrl(s), [preset |-> "obs", bg |-> "transparent", drum |-> TRUE])

\* The scene URL starts from the page's own address: it sets or deletes the
\* token and wsUrl, and only ever sets wtUrl and wtHash.
SerializeViewerSceneUrl(s, q) ==
  LET named == Given(Only(s, RoomNames \cup {"situation", "scene", "colour", "bloom", "drum"}))
      bg    == [bg |-> IF s.transparent THEN "transparent" ELSE "solid"]
  IN  Onto(named, Onto(bg, Drop(q, {"token", "ws"})))

---------------------------------------------------------------------------
(* Loading a page.                                                         *)

TrackerSettingsFromPairingQuery(q) ==
  IF "room" \in DOMAIN q /\ q.room \notin GoodRooms THEN Drop(q, {"room"}) ELSE q

LoadTracker(kept, q) ==
  Over(kept, TrackerSettingsFromPairingQuery(q), RoomNames \cup {"mirror"})

ApplySituationToSettings(s, id) ==
  Over(s, Onto(SituationLook[id], [situation |-> id]), LookNames)

ApplyScenePresetDefaults(s, name) ==
  Over(s, Onto(ScenePresets[name], [scene |-> name]), LookNames)

QueryRoom(s, q) == Over(s, q, RoomNames \cup {"drum"})

QueryBackground(s, q) ==
  [s EXCEPT !.transparent = /\ "colour" \notin DOMAIN q
                            /\ IF "bg" \in DOMAIN q THEN q.bg = "transparent" ELSE @,
            !.colour = IF "colour" \in DOMAIN q THEN q.colour ELSE @]

\* A scene preset laid over the explicit choices would undo them.
ApplyQuerySettingsSceneLast(s, q) ==
  LET placed == IF "situation" \in DOMAIN q THEN ApplySituationToSettings(s, q.situation) ELSE s
      cut    == IF "preset" \in DOMAIN q THEN [placed EXCEPT !.transparent = TRUE] ELSE placed
      shown  == Over(QueryBackground(QueryRoom(cut, q), q), q, {"bloom"})
  IN  IF "scene" \in DOMAIN q THEN ApplyScenePresetDefaults(shown, q.scene) ELSE shown

ApplyQuerySettings(s, q) ==
  LET placed == IF "situation" \in DOMAIN q THEN ApplySituationToSettings(s, q.situation) ELSE s
      cut    == IF "preset" \in DOMAIN q THEN [placed EXCEPT !.transparent = TRUE] ELSE placed
      lit    == IF "scene" \in DOMAIN q THEN ApplyScenePresetDefaults(cut, q.scene) ELSE cut
  IN  Over(QueryBackground(QueryRoom(lit, q), q), q, {"bloom"})

Loaded(p, q) ==
  IF p = "tracker" THEN LoadTracker(stored[p], q) ELSE ApplyQuerySettings(stored[p], q)

---------------------------------------------------------------------------
(* What the user does.                                                     *)

Act == acts < MaxActs /\ acts' = acts + 1

LoadPage(p, q) ==
  /\ settings' = [settings EXCEPT ![p] = Loaded(p, q)]
  /\ transient' = [transient EXCEPT ![p] = IF "token" \in DOMAIN q THEN q.token ELSE NoText]
  /\ address' = [address EXCEPT ![p] = Drop(q, {"token"})]
  /\ UNCHANGED <<stored, clipboard, typed>>

OpenLink ==
  /\ Act
  /\ clipboard.to \in Pages
  /\ LoadPage(clipboard.to, clipboard.query)
  /\ meant' = [meant EXCEPT ![clipboard.to] = clipboard.meant]

ReloadPage(p) ==
  /\ Act
  /\ LoadPage(p, address[p])
  /\ meant' = [meant EXCEPT ![p] = <<>>]

\* What persistSettings writes.
ToStoreWithToken(p, s, link) == s

ToStore(p, s, link) ==
  IF link # NoText /\ s.token = link THEN [s EXCEPT !.token = NoText] ELSE s

Persist(p, s, link) ==
  /\ settings' = [settings EXCEPT ![p] = s]
  /\ transient' = [transient EXCEPT ![p] = link]
  /\ stored' = [stored EXCEPT ![p] = ToStore(p, s, link)]

Edit(p, s) ==
  /\ Act
  /\ Persist(p, s, transient[p])
  /\ meant' = [meant EXCEPT ![p] = <<>>]
  /\ UNCHANGED <<address, clipboard, typed>>

TypeToken(p) ==
  \E t \in Tokens \cup {NoText} :
    /\ Act
    /\ Persist(p, [settings[p] EXCEPT !.token = t], NoText)
    /\ typed' = [typed EXCEPT ![p] = @ \cup {t}]
    /\ meant' = [meant EXCEPT ![p] = <<>>]
    /\ UNCHANGED <<address, clipboard>>

EditRoom(p) ==
  \/ \E m \in {"local", "ws", "wt"} : Edit(p, [settings[p] EXCEPT !.mode = m])
  \/ \E r \in Rooms : Edit(p, [settings[p] EXCEPT !.room = IF r = NoText THEN DefaultRoom ELSE r])
  \/ \E u \in {NoText, "relay"} : Edit(p, [settings[p] EXCEPT !.ws = u])
  \/ \E u \in {NoText, "relay"} : Edit(p, [settings[p] EXCEPT !.wt = u])

ChooseSituation(p) ==
  \E id \in DOMAIN SituationLook : Edit(p, ApplySituationToSettings(settings[p], id))

EditScene ==
  LET s == settings["viewer"] IN
  \/ \E name \in DOMAIN ScenePresets : Edit("viewer", ApplyScenePresetDefaults(s, name))
  \/ Edit("viewer", [s EXCEPT !.colour = "own", !.transparent = FALSE])
  \/ \E n \in {"transparent", "bloom", "drum"} : Edit("viewer", [s EXCEPT ![n] = ~@])

---------------------------------------------------------------------------
(* Making links.  What a link is meant to show is taken from the settings  *)
(* of its maker; an empty field says nothing.                              *)

Copy(to, q, what) ==
  /\ clipboard' = [to |-> to, query |-> q, meant |-> Given(what)]
  /\ UNCHANGED <<address, typed, meant>>

Same == UNCHANGED <<stored, settings, transient>>

\* generatePhonePairing: the two links of one token, and copyPairingUrl.
PanelLink ==
  \E r \in GoodRooms \ {NoText}, t \in Tokens, preferWt, mirror \in BOOLEAN :
    LET s == [mode |-> IF preferWt THEN "wt" ELSE "ws", room |-> r, token |-> t, ws |-> "relay",
              wt |-> IF preferWt THEN "relay" ELSE NoText, mirror |-> mirror]
    IN  /\ Act /\ Same
        /\ \/ Copy("tracker", BuildPhoneTrackerUrl(s), s)
           \/ Copy("viewer", BuildViewerPairingUrl(s), Drop(s, {"mirror"}))

TrackerLink ==
  LET s == settings["tracker"]
      room == IF s.mode = "wt" THEN RoomNames ELSE RoomNames \ {"wt"}
  IN  /\ Act
      /\ Persist("tracker", s, transient["tracker"])
      /\ \/ Copy("viewer", BuildViewerPairingUrl(s), Only(s, RoomNames))
         \/ Copy("viewer", DrumObsUrl(s),
                 Onto(Only(s, RoomNames), [transparent |-> TRUE, drum |-> TRUE]))
         \/ Copy("viewer", SituationViewerUrl(s), Onto(Only(s, room), SituationLook[s.situation]))

\* A transparent scene is left out of what the link means: the scene URL
\* names the background colour, and a colour in the address makes it solid.
CopySceneUrl ==
  LET s == settings["viewer"]
  IN  /\ Act /\ Same
      /\ Copy("viewer", SerializeViewerSceneUrl(s, address["viewer"]), Drop(s, {"transparent"}))

SettingsInit ==
  /\ stored = DefaultSettings /\ settings = DefaultSettings
  /\ address = [p \in Pages |-> <<>>]
  /\ transient = [p \in Pages |-> NoText]
  /\ clipboard = NoLink
  /\ typed = [p \in Pages |-> {}]
  /\ meant = [p \in Pages |-> <<>>]
  /\ acts = 0

SettingsNext ==
  \/ OpenLink
  \/ \E p \in Pages : ReloadPage(p) \/ TypeToken(p) \/ EditRoom(p) \/ ChooseSituation(p)
  \/ EditScene
  \/ PanelLink
  \/ TrackerLink
  \/ CopySceneUrl

SettingsSpec == SettingsInit /\ [][SettingsNext]_settingVars

---------------------------------------------------------------------------
(* Properties.                                                             *)

\* A token is written to a page's storage only if its user typed it there,
\* and no page's address keeps one: a pairing link's token outlives neither
\* the page it opened nor a reload, however the settings are edited meanwhile
\* (transientPairingToken, persistSettings, redactTokenFromAddress).
PairingTokenIsNotStored ==
  \A p \in Pages :
    /\ stored[p].token \in typed[p] \cup {NoText}
    /\ "token" \notin DOMAIN address[p]

\* A page opened by a link is in the room, with the token and the endpoints,
\* and shows the scene that the link was made from, whatever the page had
\* stored: the order in which applyQuerySettings lays situation, scene and
\* single choices over one another undoes none of them.
LinkKeepsItsMeaning ==
  \A p \in Pages : \A n \in DOMAIN meant[p] : settings[p][n] = meant[p][n]
=============================================================================
