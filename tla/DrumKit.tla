------------------------------- MODULE DrumKit -------------------------------
(***************************************************************************)
(* The percussion kit of the tracker page: the user picks a kit from the   *)
(* catalogue, points at the camera preview where each of its zones is,     *)
(* widens or clears zones; the page stores the kit at each edit.  Which of *)
(* the hands' gestures count as strokes is in HandZones.  Places are whole *)
(* numbers across the picture, 0 .. Width, in the camera's view; the       *)
(* preview shows that view mirrored or not.                                *)
(***************************************************************************)
EXTENDS Integers, Sequences, SequencesExt, FiniteSets, FiniteSetsExt, Functions

CONSTANTS
  Width,       \* places across the picture
  Catalogue,   \* kit -> sequence of its zones [id, x, radius], PERCUSSION_KITS
  DefaultKit,  \* DEFAULT_PERCUSSION_KIT_ID
  MinRadius, MaxRadius,   \* 0.03 and 0.18
  RadiusTries, \* what the slider offers, and more
  PreviewPlaces, \* where on the preview the user points
  NoKit,       \* nothing stored
  Nowhere      \* no zone

VARIABLES
  kit,          \* drumKit: [id, zones], zones: id -> [x, radius, calibrated]
  keptKit,      \* the kit in localStorage
  mirrored,     \* state.mirror, and the preview with it
  drummer,      \* settings.drummerMode
  armed,        \* drumPlacementArmed
  chosen,       \* selDrumZone
  pointed       \* zone -> where the user last pointed for it, <<place, mirrored>>

kitVars == <<kit, keptKit, mirrored, drummer, armed, chosen, pointed>>

---------------------------------------------------------------------------
(* Kits.                                                                   *)

ZoneIds(id) == {Catalogue[id][i].id : i \in DOMAIN Catalogue[id]}
ZoneDef(id, z) == Catalogue[id][CHOOSE i \in DOMAIN Catalogue[id] : Catalogue[id][i].id = z]

\* The kits there can be.
ZoneSettings == [x : 0 .. Width, radius : MinRadius .. MaxRadius, calibrated : BOOLEAN]
Kits == [id : DOMAIN Catalogue,
         zones : UNION {[ZoneIds(id) -> ZoneSettings] : id \in DOMAIN Catalogue}]

ASSUME KitAssumption ==
  /\ Width \in Nat /\ MinRadius \in Nat /\ MaxRadius \in Nat /\ MinRadius <= MaxRadius
  /\ RadiusTries \subseteq Nat /\ PreviewPlaces \subseteq 0 .. Width
  /\ DefaultKit \in DOMAIN Catalogue /\ NoKit \notin Kits
  /\ \A id \in DOMAIN Catalogue :
       /\ Catalogue[id] # <<>> /\ DOMAIN Catalogue[id] = 1 .. Len(Catalogue[id])
       /\ Len(Catalogue[id]) \in Nat /\ Nowhere \notin ZoneIds(id)
       /\ \A i \in DOMAIN Catalogue[id] :
            Catalogue[id][i].x \in 0 .. Width /\ Catalogue[id][i].radius \in MinRadius .. MaxRadius

CreateDefaultDrumKitConfig(id) ==
  [id |-> id,
   zones |-> [z \in ZoneIds(id) |->
                [x |-> ZoneDef(id, z).x, radius |-> ZoneDef(id, z).radius, calibrated |-> FALSE]]]

Within(v, low, high) == IF v < low THEN low ELSE IF v > high THEN high ELSE v

\* A zone the configuration does not name is as in the catalogue.
NormalizeDrumKitConfig(config) ==
  [id |-> config.id,
   zones |-> [z \in ZoneIds(config.id) |->
                IF z \notin DOMAIN config.zones THEN CreateDefaultDrumKitConfig(config.id).zones[z]
                ELSE [config.zones[z] EXCEPT !.x = Within(@, 0, Width),
                                             !.radius = Within(@, MinRadius, MaxRadius)]]]

Distance(a, b) == IF a < b THEN b - a ELSE a - b

\* The zone that a hand at place x is in: of the calibrated ones the nearest,
\* the first of the kit among equals, if its radius and a third reach as far.
ZoneUnderHand(config, x) ==
  LET zones == NormalizeDrumKitConfig(config).zones
      Zone(i) == Catalogue[config.id][i].id
      placed == {i \in DOMAIN Catalogue[config.id] : zones[Zone(i)].calibrated}
      nearest == {i \in placed : \A j \in placed :
                    Distance(x, zones[Zone(i)].x) <= Distance(x, zones[Zone(j)].x)}
      zone == Zone(Min(nearest))
  IN  IF nearest # {} /\ 100 * Distance(x, zones[zone].x) <= 135 * zones[zone].radius
      THEN zone ELSE Nowhere

\* Twice the way of a hand's wrist from the middle, when the landmarks place it at x on
\* the screen; and the place a wrist is taken to be at.  When the model also gives world
\* landmarks, deriveHandTargets takes the wrist from those, which count from the hand's
\* own middle and say nothing of x: that branch is left out.
WristOf(x) == IF mirrored THEN Width - 2 * x ELSE 2 * x - Width
HandWristToDrumStage(wrist) == Within((Width + wrist) \div 2, 0, Width)

---------------------------------------------------------------------------
(* The page.                                                               *)

\* What renderDrumZoneOptions leaves selected.
StillChosen(config) ==
  IF chosen \in DOMAIN config.zones THEN chosen ELSE Head(Catalogue[config.id]).id

SaveDrumKit(config) ==
  LET saved == NormalizeDrumKitConfig(config)
  IN  /\ kit' = saved /\ keptKit' = saved
      /\ chosen' = StillChosen(saved)

\* Mutant: the zones of the old kit that the new one has too are kept.
KitForNewIdKeepsZones(id) == [kit EXCEPT !.id = id]

KitForNewId(id) == CreateDefaultDrumKitConfig(id)

ApplyPercussionKit ==
  \E id \in DOMAIN Catalogue :
    /\ SaveDrumKit(KitForNewId(id))
    /\ armed' = FALSE
    /\ pointed' = <<>>
    /\ UNCHANGED <<mirrored, drummer>>

\* updateSelectedDrumZone
WithZone(z, zone) == [kit EXCEPT !.zones = [@ EXCEPT ![z] = zone]]

PlacedX(shown) == IF mirrored THEN Width - shown ELSE shown
\* drawDrumZoneOverlay
DrawnAt(zone) == IF mirrored THEN Width - zone.x ELSE zone.x

PlaceSelectedDrumZone ==
  /\ armed /\ drummer
  /\ \E shown \in PreviewPlaces :
       /\ SaveDrumKit(WithZone(chosen, [kit.zones[chosen] EXCEPT !.x = PlacedX(shown),
                                                                 !.calibrated = TRUE]))
       /\ pointed' = [z \in DOMAIN pointed \cup {chosen} |->
                        IF z = chosen THEN <<shown, mirrored>> ELSE pointed[z]]
  /\ armed' = FALSE
  /\ UNCHANGED <<mirrored, drummer>>

MoveRadius ==
  /\ \E r \in RadiusTries : SaveDrumKit(WithZone(chosen, [kit.zones[chosen] EXCEPT !.radius = r]))
  /\ UNCHANGED <<mirrored, drummer, armed, pointed>>

ClearZone ==
  /\ SaveDrumKit(WithZone(chosen, [kit.zones[chosen] EXCEPT !.calibrated = FALSE]))
  /\ UNCHANGED <<mirrored, drummer, armed, pointed>>

ChooseZone ==
  /\ chosen' \in DOMAIN kit.zones
  /\ UNCHANGED <<kit, keptKit, mirrored, drummer, armed, pointed>>

PressArm ==
  /\ drummer' = TRUE
  /\ armed' = ~armed
  /\ UNCHANGED <<kit, keptKit, mirrored, chosen, pointed>>

ToggleDrummer ==
  /\ drummer' = ~drummer
  /\ armed' = (armed /\ drummer')
  /\ UNCHANGED <<kit, keptKit, mirrored, chosen, pointed>>

ToggleMirror ==
  /\ mirrored' = ~mirrored
  /\ UNCHANGED <<kit, keptKit, drummer, armed, chosen, pointed>>

\* applySituation sets drummer mode as the situation has it, and leaves an armed
\* placement armed.
SwitchSituation ==
  /\ drummer' \in BOOLEAN
  /\ UNCHANGED <<kit, keptKit, mirrored, armed, chosen, pointed>>

StopDisarms ==
  /\ armed' = FALSE
  /\ UNCHANGED <<kit, keptKit, mirrored, drummer, chosen, pointed>>

ResetDrumKit ==
  /\ SaveDrumKit(CreateDefaultDrumKitConfig(DefaultKit))
  /\ armed' = FALSE /\ pointed' = <<>>
  /\ UNCHANGED <<mirrored, drummer>>

\* btnResetSettings
ResetAllSettings ==
  LET fresh == CreateDefaultDrumKitConfig(DefaultKit)
  IN  /\ kit' = fresh /\ keptKit' = fresh /\ chosen' = StillChosen(fresh)
      /\ mirrored' = TRUE /\ drummer' = FALSE /\ armed' = FALSE
      /\ pointed' = <<>>

\* The page is loaded, with the settings it finds.
LoadKit(mirror, drums) ==
  LET found == NormalizeDrumKitConfig(
                 IF keptKit = NoKit THEN CreateDefaultDrumKitConfig(DefaultKit) ELSE keptKit)
  IN  /\ kit' = found /\ chosen' = Head(Catalogue[found.id]).id
      /\ mirrored' = mirror /\ drummer' = drums
      /\ armed' = FALSE
      /\ UNCHANGED <<keptKit, pointed>>

ReloadTracker == \E mirror, drums \in BOOLEAN : LoadKit(mirror, drums)

KitInit ==
  /\ kit = CreateDefaultDrumKitConfig(DefaultKit) /\ keptKit = NoKit
  /\ mirrored = TRUE /\ drummer = FALSE /\ armed = FALSE
  /\ chosen = Head(Catalogue[DefaultKit]).id
  /\ pointed = <<>>

KitNext ==
  \/ ApplyPercussionKit \/ ResetDrumKit \/ ResetAllSettings \/ SwitchSituation
  \/ ChooseZone \/ PressArm \/ PlaceSelectedDrumZone \/ MoveRadius \/ ClearZone
  \/ ToggleDrummer \/ ToggleMirror \/ StopDisarms
  \/ ReloadTracker

KitSpec == KitInit /\ [][KitNext]_kitVars
---------------------------------------------------------------------------
\* A zone counts as placed only if the user pointed at it since this kit was
\* chosen; it is then drawn where the user pointed, turned over with the preview
\* when that is mirrored differently now; without mirroring, a hand at its place
\* is in a zone, and in this one unless another lies on the same spot.  The kit
\* that a reload finds is the one in force.  Switches of kit, situation and mirror,
\* radius edits, clearing and reloads in any order change none of it
\* (applyPercussionKit, placeSelectedDrumZoneFromEvent, drawDrumZoneOverlay,
\* normalizeDrumKitConfig, deriveDrumOverlayState).
PlacedZonesStay ==
  /\ \A z \in DOMAIN kit.zones : kit.zones[z].calibrated =>
       /\ z \in DOMAIN pointed
       /\ DrawnAt(kit.zones[z]) =
            IF pointed[z][2] = mirrored THEN pointed[z][1] ELSE Width - pointed[z][1]
       /\ ~mirrored =>
            LET lit == ZoneUnderHand(kit, HandWristToDrumStage(WristOf(kit.zones[z].x)))
            IN  lit # Nowhere /\ kit.zones[lit].x = kit.zones[z].x
  /\ keptKit \in {NoKit, kit}
  /\ keptKit = NoKit => kit = CreateDefaultDrumKitConfig(DefaultKit)
=============================================================================
