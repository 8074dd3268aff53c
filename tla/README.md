# Minamo in TLA+

Minamo tracks a person's face, hands and body in a browser page (the
*tracker*), sends the pose as small KGM1 frames through a relay, and lets other
pages (*viewers*, OBS overlays) animate avatars with them. This directory holds
TLA+ models of Minamo, the TLC runs that check them, and TLAPS proofs of their
main invariants.

    tlc -workers 2 -config pairing.cfg MCPairing      # one run
    tlapm WtRelayProofs.tla                           # one proof module

`PROJECT.json` lists, for every definition that models code, the lines it
stands for; it also lists runs, findings, hazards and theorems.

## 1. The system

| Part | State | What is hard | What makes it correct | Model |
|---|---|---|---|---|
| **Pairing-token store**, `relay-node/server.mjs`, `shared/pairing.js` | tokens with room, expiry, revocation; protected rooms; the mint limiter's windows | three structures kept in step by hand; window boundaries; all is lost on restart | a live token keeps its room closed; the mint budget; dead tokens go | `PairingTokens` |
| **Pairing panel**, `desktop/desktop.js` | the pairing on display, its timer, the buttons, up to two suspended functions | awaits between reading and writing one record; lost requests and answers | what the panel drops is dead; it agrees with the relay; an expired QR goes | `PairingPanel` |
| **WebSocket rooms**, `relay-node/server.mjs` | rooms map, liveness flags, send queues | half-open peers, slow readers, closes of sockets that never joined | exact room index, bounded queues, closed rooms, dead peers leave, shutdown ends | `WsRelay` |
| **WebTransport sessions**, `relay-rs/src/main.rs` | per-address counts, rooms with channel and count, active-session counter | parallel tasks; every early return gives back what was taken; join meets last leave | exact counts, caps, one channel per room | `WtRelay` |
| **Room channel**, `relay-rs/src/main.rs` | tokio broadcast ring, a cursor per subscriber, counters | publishers overrun the ring while a drain runs | newest-only; counters account for every frame | `RoomFeed` refines `NewestFeed` |
| **Browser transport**, `shared/transport.js` | mode, socket or session, newest-datagram slot, in-flight flag | a timed-out attempt is not cancelled; calls overlap; late callbacks and writes | one connection and none left behind; datagrams keep to theirs; calls end | `Transport` |
| **Viewer rooms**, `shared/runtime.js`, `shared/room-envelope.js`, `viewer/viewer.js` | participants by age and stay, a sequence gate each, runtimes, bodies in the scene, loads under way | 16-bit wrap, restarted trackers, pruned participants that return, files that finish late | the pose never goes back; store, scene and gate agree on who is there; one body is shown | `FrameOrder`, `ViewerRooms` |
| **Desktop shell**, `src-tauri/src/lib.rs` | the newest avatar file under a revision | event, answer and reads overtake each other; reloads | the file picked last reaches the page | `DesktopShell` |
| **Replay, VRMA export**, `replay/replay.js`, `shared/vrma-export.js` | frames, cursor, timer, start time, trim marks | pause, reset and a new file around a pending timer | each frame once, in order, in time; the export is the marked part | `ReplayPage` |
| **KGM1 codecs**, `shared/codec.js`, `shared/kgm1b.js`, `crates/kgm1-codec`, `packages/kgm1-codec-py`, `src/core/kgm1.ts` | none | cut and foreign packets, saturation, three languages | readers agree or refuse as a whole | `WireFormats` |
| **Datasets, recordings as files**, `shared/dataset.js`, `shared/dataset-contract.js`, `shared/drum-dataset.js`, `shared/recording.js` | samples with numbers, a cap | numbering at the cap; two readers of one file | samples keep their numbers; readers agree | `Datasets` |
| **Settings and links**, `shared/settings.js`, `shared/pairing.js`, three pages | settings in use and stored, address, a transient token | five writers and two readers of links, each with its own precedence | a link's token is not stored; a link means what it was copied from | `PageSettings` |
| **Expression maps**, `shared/expression-mapping.js`, `viewer/viewer.js` | map in force, editor text, its timer | an edit's timer fires after the avatar changed | the map fits the avatar | `ExpressionMaps` |
| **Tracker devices**, `tracker/tracker.js`, `shared/camera-startup.js`, `shared/situation-presets.js` | streams, models, check boxes, buttons | every handler awaits; none checks that it was superseded | no stray track; features have their model; Start can be pressed again | `TrackerMedia` |
| **OBS bridge**, `shared/obs-bridge.js`, `tracker/tracker.js` | connection, pending requests; scenes (in OBS) | half-done pushes, time-outs, situations chosen meanwhile | the situation is what OBS shows | `ObsBridge` |
| **Frame loop, recorder**, `tracker/tracker.js`, `shared/recording.js`, `shared/kgm-recording.js` | running, lost-face timer, seq, two lists of frames | stop and start between turns; the cap; 16-bit gaps | both files hold what was sent | `TrackerLoop` |
| **KGM2**, `shared/kgm2.js` | encoder's key and counter, decoder's key map | loss, repetition, order, restarts, bounded map | a delta is read on its own base or not at all | `Kgm2` |
| **Hands, gestures**, `shared/stabilizers.js`, `shared/hand-gestures.js` | last target of each hand, hold time | clamped steps, held and forgotten hands | a still hand is followed, a lost one lets go | `HandZones` |
| **Percussion kit**, `shared/percussion.js`, `shared/drum-kit.js`, `tracker/tracker.js` | kit, zones, armed placement, stored kit | kit, situation, mirror, reset and reload each replace a part | placed zones stay where they were put | `DrumKit` |
| **Calibration**, `shared/runtime.js`, `shared/math.js`, `tracker/tracker.js` | three passes and a profile | passes overlap with edits, mirror, stop | a finished pass fits the user | `Calibration` |
| **Drum stick, stage fusion, drum hits**, `src/core/bleMidiStick.ts`, `multiCamera.ts`, `drum.ts` | a wrapped clock, duplicates; two cameras' views; armed zones | wrap, resends, rests; views that disagree; two limbs on one beat | a stroke counts once; a take is graded as played | `DrumStick`, `StageFusion`, `DrumHits` |
| End-to-end encryption helpers; avatar adapters and numeric filters; router simulation and benchmarks; landing page, diagnostics, i18n, vendored renderer | – | – | golden vectors and unit tests | not modelled (section 7) |

The parts meet like this: the panel mints tokens at relay-node and puts them
into links (`PageSettings`); tracker and viewer connect by `Transport` to
relay-node's rooms (`WsRelay`) or relay-rs's (`WtRelay`, `RoomFeed`); the
tracker's loop sends frames (`TrackerLoop`) in a wire format (`WireFormats`,
`Kgm2`); the viewer orders and shows them (`ViewerRooms`) on an avatar the
shell may have picked (`DesktopShell`), through an expression map.

## 2. Modules

    PairingTokens ──┬── PairingPanel ── MCPairing     PairingPanel ── PairingPanelProofs
       │            └── WsRelay ─────── MCWsRelay
       └ PairingTokensProofs ── WsRelayProofs, PairingPanelProofs
    WtRelay ── MCWtRelay                    WtRelay ── WtRelayProofs
    NewestFeed ◁── RoomFeed ── MCRoomFeed   RoomFeed ── RoomFeedProofs
    Transport ── MCTransport                Transport, TrackerLoop, DrumStick ── SenderProofs
    FrameOrder ── ViewerRooms ┐
    DesktopShell, ReplayPage, WireFormats, Datasets,
      PageSettings, ExpressionMaps ┴── MCViewer
    TrackerMedia, ObsBridge, TrackerLoop, Kgm2, DrumStick, StageFusion,
      DrumHits, HandZones, Calibration, DrumKit ── MCTracker
    ViewerRooms, DesktopShell, PageSettings, Datasets, ExpressionMaps,
      ReplayPage, WireFormats ── ViewerProofs
    TrackerMedia, HandZones, ObsBridge, Kgm2, DrumKit ── TrackerProofs

(`──` is EXTENDS, `◁──` INSTANCE with a refinement mapping.) Definitions keep
the names of the functions they stand for, with a capital; a comment
*Mutant:* marks a faulty variant that the properties must be able to tell from
the code. A computation over a sequence (`Prune`, `MergeWarnings`, `Place`,
`InOrder`, `Heard` …) is a recursive function or a count, where a fold or a
filter with an operator argument would put it out of the proofs' reach.

### PairingTokens
The store is a module of *steps*, not a specification of its own: each HTTP
handler, the purge timer and a restart is an action over `tokens`,
`protectedRooms`, `hits` and the clock, because relay-node runs each of them to
its end in one turn of its event loop (the body of a request is read before the
store is touched). `tokens` holds the record as the code does, with `revoked`
for `revokedAt !== null`. A token is a model value drawn at most once:
`randomBytes(24)` is taken not to repeat. `issued` and `mintLog` are history.
`AuthorizeRoomToken` lists the three ways in (static token, a valid token, an
open room without a token); `PostRefused` is a request that passes the limiter,
is counted, and then fails to parse a room.

### PairingPanel
One action per stretch between two awaits. `job` is the suspended
`generatePhonePairing` with what it read from the form; `calls` are the two
fetches, in the states asked / done / answered-or-failed. The network may lose
the request (`RequestLost`) or the answer (`AnswerLost`), and the relay may
refuse (429, also `RequestLost`) or restart. The buttons' `disabled` flags are
state, because both functions' `finally` blocks write them, each without
looking at the other. `KeyboardShortcut` says whether Ctrl/Cmd+Enter is pressed
while a call runs: that handler bypasses the disabled button. With it FALSE the
panel's promises hold (`pairing`); with it TRUE they do not
(`pairing_expire_race`).

### WsRelay
The socket's life is `absent → open | closing → (destroyed) → absent`;
`closing` covers sockets turned away by the connection handler and those told
to close by shutdown, `destroyed` the time between `terminate()` and the
'close' event. Data is counted in units: `buffered` is `bufferedAmount`,
`pingAt` the units ahead of a ping, so that a pong comes late behind a full
queue. Rooms, origin, role and participant id only decide whether a connection
is well formed. Publishers and subscribers are not told apart: the code relays
the message of either.

### WtRelay
`pc` names the places where another task can run between two effects. Two of
them matter most: `accepting`, between reading the session cap and the rooms
lock, and `leaving`, between the counter and `gc_room`. A room's channel has an
identity so that "everyone in a room is on one channel" can be said.
`Channels` has as many identities as sessions; `Unused` picks one that nobody
holds, as a new `broadcast::channel` is.

### RoomFeed and NewestFeed
`NewestFeed` says what a subscriber may rely on: frames since it joined, each at
most once, in order, and never left behind for good. `RoomFeed` is the tokio
ring (a log of frames and a cursor per receiver; a cursor more than `Capacity`
behind has lagged) with the subscriber's loop, one action per call on the
receiver. It refines `NewestFeed` with `sent` the length of the log and `last`
the newest frame sent. A frame is its publisher; its number is its place in the
log.

### Transport
One `MinamoTransport` and the calls of `connectAuto` that are in progress. `cur`
stands for whichever of `_ws`, `_wt` and `_bc` is set (`connect` begins with
`close`, so at most one is), `conn` for what became of each connection object
ever made: an object that was closed keeps its state until its last callback
has run, and is then used again. `job` is a suspended call: the modes it has
left and the object whose promise it awaits, which need not be installed any
more. `close()` followed by its `await` and the constructor of the next
connection are one step: only microtasks of the same chain run between them.
`slot` remembers for which connection the waiting datagram was sent.
WebTransport may settle a write of a closed session late or never: `stale`
counts those that may still settle, and a settlement clears the in-flight flag
without knowing whose it was. Unsettled writes of closed sessions beyond
`MaxStale` are taken never to settle.

### FrameOrder and ViewerRooms
`FrameOrder` is `isSeqNewer` with its half-range comparison. `ViewerRooms` is
the page: `page` holds what `viewer.js` and the participant store hold, and each
function that changes it (`Ingest`, `Prune`, `EnsureRuntime`,
`DisposeRuntime`, `InstallVrm`, `Draw` …) is an operator from page to page that
the handlers compose in the code's order. `loads` are the avatar files asked
for, of four kinds, each remembering the runtime it was started for, and ending
whenever they like. Trackers (`tracker`), the network (`net`) and the clock are
the environment: frames are lost and reordered, a tracker reloads and starts at
zero again, a participant falls silent past its expiry and comes back. `limits`
bounds each of five instances (see section 3).

### DesktopShell
`pick_native_avatar` in its steps (store, build or find the window, emit), the
`native_avatar_info` query, reading by revision, and the page's start: listen,
then ask. `inbox` and `reads` are sets, so messages and answers overtake each
other. A page may be reloaded or its window closed at any point.

### ReplayPage
Play, pause, reset, a new file and the playback timer as actions over the
module-level variables of `replay.js`; `Wait` lets a timer be late. The trim
fields and the export as `trimMotionFrames` and the key times of
`vrma-export.js`. A recording is its frames' times and whether each has a face.

### WireFormats, Datasets
Pure readers and writers, run over bounded inputs: what a writer keeps, what may
happen to the packet on its way (cut, longer, foreign), what each reader makes
of it. `Datasets` has the samples' numbering as a small state machine and the
two readers of JSONL, written from their own code.

### PageSettings
Two pages with stored and current settings, an address, and the flag of a token
that came by link; the five functions that write links, and the two that read
them in their own order. A link remembers what it was copied from (`meant`).

### ExpressionMaps
The default maps of VRM and Inochi avatars as functions of their names (words),
validation of a user's map, and the editor: text, debounce timer, Apply, import,
reset, while avatars come and go.

### TrackerMedia
A handler that awaits is a *task*: its remaining steps and what it awaits.
`Proceed` runs it to its next await, as the code does; `Abort` is its catch. The
page (`media`) is shared by all tasks, so what one reads after an await another
may have changed. `live` are the streams whose tracks nobody has stopped.
`overlapped` marks tasks during which something else was clicked.

### ObsBridge
A push is `pushSituationToObs`, one action per awaited request; OBS is external
and executes a connection's requests in order (`Execute`), whether or not their
answers still interest anyone. `mixed` records that a situation was chosen
between a push's two reads of it.

### TrackerLoop
The animation-frame loop with its lost-face time-out, sequence number and both
recordings; the clock advances between turns. Each picture is also judged:
`DroppedFrameDetector` (`drops`), the statistics that give the rate (`stats`),
the light, and the warnings these give, which go into the JSONL line. `turns`
remembers the pictures themselves, so that `Deserved` can say what a line ought
to tell without the detector's window. Another camera makes a new detector;
the statistics go on.

### Kgm2
Encoder, decoder and a channel that keeps every packet for ever: to decode any
packet at any time, again or never, is loss, repetition and reordering at once.

### DrumStick
The stick's 13-bit clock, packets with running status and one timestamp's high
half, and `BleMidiStickSession` that unwraps, remembers recent hits and drops
duplicates. A packet may be cut anywhere: `size` of its messages arrive whole and
`read` timestamps, which are one more when the cut comes after a timestamp, and that
one moves the decoder's clock all the same. `misled` holds once a rest was too long for
the clock, a packet came again that the window of duplicates has forgotten, or one came
that goes back across a wrap of the clock (findings 12 and 20); the behaviours end there.

### StageFusion
Capture sessions of two cameras as sets of candidates; `FusedHits` is
`fuseCameraHitCandidates` (pairs by ray gap, then singles), `FusedSamples` and
`StickTipSamples` the stick's track (`fuseCameraObservations`,
`toStickTipSamples`). The kit is a line and a ray the place where it meets it.

### DrumHits
`DrumHitDetector` with re-arm and cooldown, the inferred kick, and the two passes
of `scoreDrumBenchmarkEvents`, over takes a drummer plays.

### HandZones, Calibration, DrumKit
`HandTargetStabilizer` up to the lit zones; the three calibration passes fed by
one loop, with percentiles of real sample lists; choosing kits and placing
zones, with mirror, stored kits and reloads. Each takes one number for a family
of like ones (fingers, channels, axes), as its head says. `Calibration` has the
meters too, where a profile is edited while a pass runs: `pointer` is
`meterPointer`, pulled by a mouse or a finger, with the long press that mutes. Its
profile has a channel of the face and the four channels that the horizontal gaze is sent
in. A picture goes its whole way: `RawWeights` (the gaze written over the eye-look
weights, what a guided pass samples), `ApplyProfile` (offset, gain, dead zone and mute of
each channel), and `SentGaze`, what the viewer reads out of the frame; `Look` is where
the user's eyes are meanwhile.

## 3. Runs

| Run | Instance | Shows |
|---|---|---|
| `pairing` | 2 rooms, 3 tokens, lifetimes clamped to 1..3, limit 1 per window of 2, clock to 3 | see below |
| `pairing_expire_race` | the same with limit 2, lifetimes 1..2 and the shortcut | **violation** of `DroppedTokensAreDead` |
| `ws_relay` | 1 room, 2 sockets, 2 tokens, frames of 1–2 units, limit 0 units, clock to 1 | see below |
| `wt_relay` | 3 sessions, 2 addresses, 3 rooms, caps of 2 | see below |
| `wt_session_cap` | the same | **violation** of `SessionCap` |
| `room_feed` | 1 publisher, 2 subscribers, ring of 2, 5 frames | see below |
| `room_feed_stale` | 1 subscriber | **violation** of `NewestQueuedIsSent` |
| `room_feed_participants` | 2 publishers, 1 subscriber | **violation** of `NewestOnlyPerParticipant` |
| `transport` | 2 calls, 4 connection objects, requests wt, ws, local, 2 stale writes | see below |
| `transport_overlap` | the same | **violation** of `LastCallUndisturbed` |
| `viewer` | the showing side, seven parts | see below |
| `tracker` | the capturing side, ten parts | see below |

`viewer` and `tracker` bundle parts of the program that share no state: the
variable `part`, chosen in the initial state, says which one moves in a
behaviour, so each part is explored on its own and none pays for the
interleaving with the others. Type correctness and some bounds
(`WsRelay.SendQueueBound`, `LiveTokenClosesRoom`, `WtRelay.RoomChannelShared`,
`CapsHold`, `Transport.DatagramsStay`) are not among the runs' properties: they
are theorems (section 5).

**pairing**
- `DroppedTokensAreDead`: a token the panel showed and then rotated, left or
  expired cannot be redeemed.
- `RelayAgreesWithPanel`: at rest, and unless an answer was lost or came late or
  the relay restarted, the one live token is the one on display.
- `MintBudget`, `DeadTokensArePurged`: the store's own promises under the
  panel's traffic.
- `ExpiredQrIsWithdrawn`: no path through the panel stops the timer that
  withdraws an expired QR.

**ws_relay**
- `RoomIndexExact`: the rooms map holds exactly the admitted sockets and no
  empty room.
- `ClosedRoomGainsNoStranger` (action property): while a token of a room is
  live nobody enters without one.
- `DeadPeersLeave`, `ShutdownEnds` (liveness).

**wt_relay**
- `AddressSlotsExact`: the per-address map counts exactly the sessions that
  hold a slot, whichever way they leave `serve_session`.
- `ParticipantsExact`: a join that meets the last leave is neither missed by the
  count nor put into a room that is being removed.
- `GoneSessionsEnd` (liveness): a session whose peer is gone gives everything
  back.

**room_feed**
- `FeedImplemented`: refinement of `NewestFeed`, with its liveness.
- `FramesAccounted`: sent + held + dropped + skipped-in-a-drain is all there was.

**transport**
- `NoOrphans`: whatever calls, time-outs and disconnects overlap, no connection
  stays open or connecting that `close()` would no longer reach.
- `SlotDrains`, `CallsEnd` (liveness): a write that never settles does not stop
  the sender for ever, and overlapping calls do not make each other fall back
  without end.

**viewer**
- `PoseNeverGoesBack` (action property): a frame that is shown was sent after
  the one shown before it, across loss, reordering, wrap-around and reconnects,
  as long as frames are late by less than half the range.
- `RoomIsOwned`: store, runtimes, scene and the first participant's gate agree
  on each participant's present stay, through expiry, return and late loads
  (conjuncts `RuntimesMatchRoom`, `SceneIsOwned`, `GateIsOfThisStay`).
- `RenderShowsOneBody` (action property): every rendered picture has exactly one
  body for the first participant while it is in the room, none after.
- `SilentParticipantLeaves` (liveness).
- `PickedFileArrives`: the avatar file picked last is shown or could not be
  read, and no revision is loaded twice.
- `RecordingIsReplayed`: each frame goes out once, in order, never early; the
  animation exported is the marked part as playback counts time.
- `WireKeepsFrames`: every reader of every language returns what was written,
  within its quantisation, or refuses the packet whole; rooms do not depend on
  the order of envelopes.
- `SamplesAreKept`, `ReadersAgree`: samples keep their numbers at the cap, a
  stick's box holds its ends; the two readers of a recording play the same.
- `PairingTokenIsNotStored`, `LinkKeepsItsMeaning`: a link's token ends with the
  page; a page opened by a link is where and what it was copied from.
- `MapFitsAvatar`: an edit's timer, import or reset never brings back the map of
  an avatar that is gone.

**tracker**
- `DevicesFollowPage`: no stray camera or microphone track, and hand tracking
  has its model (conjuncts `TracksAreHeld`, `HandsHaveModel`, which say when
  overlapping clicks take the claim away).
- `StartEnds` (liveness): after Start the page tracks or Start can be pressed.
- `ObsShowsSituation`: an undisturbed push shows its situation whatever earlier
  ones left half done; no scene gets another situation's source.
- `RecordingIsWhatWasSent`: both files hold the last frames sent, in order, at
  their distances, and each line warns of what its own picture deserved.
- `DeltaOnItsBase`: a delta is decoded to what was encoded, and is decoded
  whenever its keyframe is held.
- `StrikesOnce`: resends, cuts, wraps and reconnects neither repeat nor lose a
  strike, until the session is misled (findings 12 and 20).
- `StrokesCountOnce`: one stroke is one hit of its zone however many cameras saw
  it; the fused track of the stick goes forward and invents nothing.
- `TakeIsGradedAsPlayed`: every detection is matched in its own zone.
- `StillHandIsFollowed`: through clamped steps and held frames a still hand
  reaches its curl and its zone, and a lost one lets go.
- `PlacedZonesStay`: a zone is hit where it was placed, and not taken for placed
  when kit, mirror, situation or storage change.
- `CalibrationFits`: a pass that was followed reads neutral as nothing in every channel
  (as far as the widest dead zone goes) and its peak as full, and estimates a look to the
  side as far as it was asked for, until something replaces its result. Frames show that
  look as long as the eyes' channels have the profile they began with; that they need
  not is finding 21.

### Bounds
Three tokens let one be rotated, one left behind in another room and one be
minted after; the clock allows a token to expire and a window to close and open
again. `MintLimit` is 1 in `pairing`, so a window's boundary is met after one
request; a tight limit is the interesting one. In `ws_relay` a queue limit of 0
with frames of two units already has a queue above the limit, and two sockets
one that sends to one that does not read; slots are used again, so any number
of connections come and go. In `wt_relay` three sessions on two addresses
with caps of two meet every cap, and three rooms with a cap of two
meet the room cap. In `room_feed` five frames lap a ring of two twice. In
`transport` two overlapping calls with two modes each take one another's
connection down at every stage, and two stale writes settle one after the other
on a newer connection's flag; a call starts only while there are objects for
all its fallbacks.

In `viewer` sequence numbers are modulo 4, so half the range is 2 and a stream
wraps; the room has five instances (`MCLimits`): a stream with replays and
reconnects, one with a tracker reload, a guest that leaves and returns while its
avatar loads, two files for two participants, and native revisions; each
multiplies a different cause, and all of them at once would not finish. Three
revisions and pages let a newer file overtake an older one twice. Recordings
have up to three frames, with and without faces and with a time that goes back;
two files let one replace the other while playing. Four acts on the settings are
a link, an edit, a copy and a reload.

In `tracker` two handlers overlap (`MaxTasks`); with three the run does not end
in reasonable time. Three clicks and two pushes drive OBS; the recorder's
cap is 2 with times to 4, so that it cuts; the detector's window is 1 and its
limit 0, so that a missed picture is held against the next ones and then
forgotten, and the rate is worked out every 3 ticks; KGM2 has an interval of 3, ids modulo 2 and one held
keyframe, so ids come again and keyframes are forgotten; the stick's clock has
2 × 2 values, so it wraps in four ticks; two strokes, two cameras with a residual
of one tick and drifted rays; a take of 7 ticks has strokes closer than the
tolerance and a pedal on the beat; the hold of the hands is 2 frames; one finger,
one mouse and one edit of the profile meet two passes, with hand tracking and mirror on
at first (who touches the meters loses no picture, which keeps the two causes of a poor
pass apart). Faces at rest of 0.1 and 0.48 with the offset at their
median (`NeutralShare` 50) leave neutral values within the dead zone and beyond the 0.2
it is clamped at.

The theorems of section 5 hold for every value of these constants.

`MaxTime`, `MaxFrames` and the like end a behaviour, so the runs switch deadlock
checking off; so do the exits of `ws_relay`. A page that holds no connection may
rest, and so may `transport`. In `wt_relay` every session may stay for ever and
the system may be at rest.

### Fairness
Only what the program itself schedules: the purge and the countdown timer, the
heartbeat, the two-second exit timer, the 'close' event of a destroyed socket,
tokio polling a task that can go on, the timers of `promiseWithTimeout`, the
browser's report that a connection it was told to close has ended, and the
settling of a write on a connection that is open. In `viewer`,
requestAnimationFrame and the clock the page's expiry reads; in `tracker`, the
browser's answer to a request (a stream, a model, a refusal) and the 8 s timer
of `waitForVideoMetadata` - metadata itself need never come. Nothing is assumed
of users, peers or the network: a fetch may stay unanswered, a peer may neither
read nor close.

## 4. Findings

Five are shown by a run of their own. The others were met while modelling: a
property of `viewer` or `tracker` leaves the case out, and says so in its
comment; breaking that condition shows the case to TLC. `PROJECT.json` has them
in this order, with the lines and the texts they contradict.

1. **Expire now can drop the wrong pairing** (`pairing_expire_race`,
   `desktop.js:447`). While the DELETE of *Expire now* is awaited, Ctrl/Cmd+Enter
   generates another pairing; the answer then clears that one and reports it as
   invalidated, though its token stays live.
2. **The session cap can be passed** (`wt_session_cap`, `main.rs:318`): it is
   read before an await and counted after it.
3. **A drain can send an old frame** (`room_feed_stale`, `main.rs:447`): a lag
   inside `drain_newest` ends the loop like an empty queue. The skipped frames
   also miss the dropped counter.
4. **Newest-only is per room, not per participant**
   (`room_feed_participants`): one publisher's frame replaces another's.
5. **A call takes down its successor's connection** (`transport_overlap`,
   `transport.js:121`). The catch of `connectAuto` closes whatever is installed.
   With Connect pressed twice each call closes the other's connection and both
   may end in "All transports failed" with the relay up.
6. **The documented fallback order is not the code's** (`transport.js:11`):
   `ws-json` is a fallback of nothing, and the pages rule out `local`.
7. **A placed zone and a mirrored hand do not meet** (`tracker.js:1677`): zones
   are stored in camera coordinates, hands are compared mirrored.
8. **A push to OBS mixes two situations** (`tracker.js:1804`): one is read before
   an await, the other after it, and later pushes do not repair the scene.
9. **A guided calibration throws away the gaze calibration** (`runtime.js:571`);
   mirroring does not turn the gaze centre over.
10. **Calibration is not the documented one** (`runtime.js:579`): 95th percentile
    for the median, gain in [0.5, 2] for [0.5, 4]; a neutral value more than 0.2 over
    the offset is beyond the dead zone.
11. **KGM2 key ids are used again** (`kgm2.js:58`): a forced keyframe or a
    restart reuses an id, and a decoder that missed it applies deltas to the old
    base.
12. **A rest fools the stick's clock** (`bleMidiStick.ts:196`): more than 4.096 s
    without a strike and the clock runs backwards or loses a wrap.
13. **False doubles hide behind another zone** (`drum.ts:509`).
14. **A copied URL of a transparent scene opens opaque** (`viewer.js:1376`).
15. **Opening a link forgets the user's own token** (`viewer.js:1297`) at the
    first edit; a link without token or URL falls back to the opener's stored ones.
16. **A parameter in another script becomes the left eye's blink**
    (`expression-mapping.js:115`): its name is reduced to '' and every alias
    includes that.
17. **A failed model ends a situation half way** (`tracker.js:1770`), leaves boxes
    ticked without effect until a reload, and Stop during a restart leaves a
    stream running.
18. **A recording that begins without a face is exported shifted**
    (`vrma-export.js:129`).
19. **A long recording loses its metadata line** (`tracker.js:1322`).
20. **A packet sent again across a wrap plays its strikes twice**
    (`bleMidiStick.ts:121`): any fall by more than half the clock counts as a wrap. The
    message a packet is cut in is lost, but its timestamp has been unwrapped already, so
    the resend of such a packet is enough: strikes at 8191 and 8192 in one packet that is
    cut after the second timestamp and sent again play the first strike twice.
21. **The profile of the eye-look channels changes a calibrated gaze**
    (`tracker.js:861`): the gaze is written into the eye-look weights before offset,
    gain and dead zone are applied to them. A guided pass (it has "Look around") or Capture neutral gives these channels a profile, and a gaze pass after it
    is distorted in every frame; before it, it is thrown away (finding 9).

Smaller observations, without a claim that a document contradicts them:

- viewer: a VRM file whose participant left while it loaded stays in memory and in
  the scene (`late` in `ViewerRooms`); the participant selector may list someone who
  left until the next refresh; of two native avatar files being parsed, the older
  may finish last and stay.
- replay: Play may be pressed while a new file is still parsed (`swapped`); the end
  mark is rounded to 10 ms and may leave out the last frame.
- tracker: when a lost face has faded, the loop stops sending before a frame with
  the neutral face went out; a KGM file's gaps are clipped at 65.5 s.
- tracker: frames are warned of as dropped below 33.6 a second (`runtime.js:369`), so
  with the setting of 30 always; half a second without any picture counts as the
  wanted rate (`tracker.js:951`), and only the gap before the next picture tells of it; on the
  meters a mouse press leaves the long press of a touch under way, which then
  mutes the channel the mouse chose (`tracker.js:2155`).
- hands: two hands reported with one handedness share one entry of
  `HandTargetStabilizer`; when the model gives world landmarks the wrist is taken
  from them (`tracker.js:1183-1186`), which are not places in the picture.
- drums: re-arming is a zone's, not a stick's (`drum.ts:146-162`), so a second
  stick over a zone holds it armed or disarmed for the first; one camera that
  fires twice in a merge window can give two hits once the other camera's only
  candidate is paired.
- readers: the viewer refuses a recording with a frame without a face or a pose
  without points (`runtime.js:871-880`), which the replay page accepts
  (`recording.js:57-62`).
- `TemporalOutlierRejector` (`src/core/stability.ts`) compares with the last value
  it accepted: after a real jump everything is rejected until the value returns.

## 5. Proofs

TLAPS checks these for every value of the constants that satisfies the modules'
named assumptions (`StoreAssumption`, `SocketAssumption`, `WtAssumption`,
`FeedAssumption`, `TransportAssumption`, `ShellAssumption`, `Kgm2Assumption` …),
which TLC evaluates for the runs' values. Where a part is one of several in a
run, the theorem is about its own specification (`ShellSpec`, `SettingsSpec`,
`DataSpec`, `MapSpec`, `ReplaySpec`, `WireSpec`, `MediaSpec`, `HandSpec`, `ObsSpec`,
`Kgm2Spec`, `KitSpec`, `LoopSpec`, `StickSpec`: its Init and its Next), which a
behaviour of the run that lets this part move satisfies.

| Module | Theorem | States |
|---|---|---|
| `PairingPanelProofs` | `PanelTyped` | `Spec => []TypeOK` |
| | `MintingIsBounded` | `Spec => []MintBudget` |
| | `DroppedStayDead` | without the shortcut, `Spec => []DroppedTokensAreDead` |
| | `PanelAgrees` | without the shortcut, `Spec => []RelayAgreesWithPanel` |
| `WsRelayProofs` | `TypeCorrect` | `Spec => []TypeOK` |
| | `RoomsClosed` | `Spec => []LiveTokenClosesRoom` |
| | `RoomsExact` | `Spec => [](RoomIndexExact /\ SendQueueBound)` |
| | `NoStrangerEnters` | `Spec => ClosedRoomGainsNoStranger` |
| `WtRelayProofs` | `TypeCorrect`, `SlotsBalance`, `RoomsKept`, `CapsKept` | types, `AddressSlotsExact`, `ParticipantsExact` with `RoomChannelShared`, `CapsHold` |
| `RoomFeedProofs` | `Accounting` | `Spec => []FramesAccounted` |
| | `Implementation` | `Spec => Feed!Safety` |
| `SenderProofs` | `TypeCorrect`, `OneConnection`, `NoCarryOver` | `Spec => []TypeOK`, `[]NoOrphans`, `[]DatagramsStay` |
| | `RecordingAlwaysIsWhatWasSent` | `LoopSpec => []RecordingIsWhatWasSent` |
| | `StrikesAlwaysOnce` | `StickSpec => []StrikesOnce` |
| `ViewerProofs` | `ViewerRoomIsOwned` | `Spec => []RoomIsOwned` |
| | `ViewerShowsOneBody` | `Spec => RenderShowsOneBody` |
| | `ViewerPoseNeverGoesBack` | `Spec => PoseNeverGoesBack` |
| | `PairingTokenNeverStored` | `SettingsSpec => []PairingTokenIsNotStored` |
| | `LinkMeaningKept` | `SettingsSpec => []LinkKeepsItsMeaning` |
| | `ArrivesAlways` | `ShellSpec => []PickedFileArrives` |
| | `SamplesAlwaysKept` | `DataSpec => []SamplesAreKept` |
| | `ReadersAlwaysAgree` | `DataSpec => []ReadersAgree` |
| | `MapAlwaysFits` | `MapSpec => []MapFitsAvatar` |
| | `RecordingAlwaysReplayed` | `ReplaySpec => []RecordingIsReplayed` |
| | `WireAlwaysKeepsFrames` | `WireSpec => []WireKeepsFrames` |
| `TrackerProofs` | `DevicesAlwaysFollowPage` | `MediaSpec => []DevicesFollowPage` |
| | `HandAlwaysFollowed` | `HandSpec => []StillHandIsFollowed` |
| | `ObsAlwaysShowsSituation` | `ObsSpec => []ObsShowsSituation` |
| | `DeltasOnTheirBase` | `Kgm2Spec => []DeltaOnItsBase` |
| | `PlacedZonesAlwaysStay` | `KitSpec => []PlacedZonesStay` |

**PairingTokens.** The store's invariant `StoreInv` adds to its types that the
room of every stored token is protected (`TokensProtectRooms`). That is
what keeps a room closed through a purge: the purge keeps the protection of
rooms of the tokens it keeps. `PairingTokensProofs` has the lemmas, one per
action of the store, that the modules using it cite; `WsRelayProofs` adds the
socket invariants. `NoStrangerEnters` then follows from the step that joins: with
a live token the room is protected, so `AuthorizeRoomToken` refuses a socket
without one.

`MintBudget` (never more than twice the limit in any span of a window's length)
is not inductive. `BudgetInv` says what the limiter knows: mints of the window
that is open are at most what it has counted; of the mints before it, those that
can share a span with it are at most the limit; a window that was dropped from
the map has closed. A mint opens a window, and then all earlier mints of the
span lie in one closed window, or it is counted.

**PairingPanel.** `DroppedTokensAreDead` and `RelayAgreesWithPanel` need to know
of each token that is on its way where it is: in a request, in an answer, on
display, or dropped. `PanelInv` has the types; `Locks` (without the shortcut the
two functions exclude each other, by the buttons' flags); `Waits` (a suspended
function waits for the call its phase says); `Records` (what panel, request and
answer say of a token is what the store has recorded); and `Agrees`, which ends
at each event after which the panel cannot know. Each action keeps it; a step of
the store keeps every token it does not touch dead if it was dead.

**WtRelay.** `IInv` is the type invariant, the fact that a session past its
handshake has an address and one past the room check a room (`Placed`), that
the rooms map is finite, and the four safety invariants. Each of them equates a
number the code keeps with the cardinality of a set of sessions. Three lemmas
say which of those sets a step of a session moves it into or out of
(`SlotsStep`, `MembersStep`, `ServingStep`), and one lemma per invariant pairs
that with what the step does to the number.

**RoomFeed.** The invariant orders the cursors (what was sent, what is held,
the receiver, the end of the log) and adds the accounting equation; refinement
is one step of `NewestFeed`'s per step of `RoomFeed`, or a stutter.

**Transport.** `DatagramsStay` is not inductive: the invariant adds that a
datagram in the slot is for the installed connection, which holds because every
step that replaces the connection also empties the slot, and that unsettled
writes are at most `MaxStale` and one in flight. Every handler is made of
`close` and an attempt, so each of these has a lemma, and a step cites them.

**ViewerRooms.** Three invariants, the later two on top of the first. `OwnedInv`
carries `RoomIsOwned` from step to step: whoever is in the room has the runtime
of its present stay and nobody else has one (`RoomSettled`), every model in the
scene is owned by the page or a runtime, was loaded for the place it stands in,
or came too late (`SceneMatches`), and the gate goes with the runtime it was set
for (`GateMatches`). Nearly every handler is a chain of functions from page to
page (`Prune`, `Ingest`, `DisposeRuntime`, `AssignAvatar` …); each has a lemma, and a
step cites those of its chain. `Prune` disposes of the silent participants one
after another, by a recursive function. What it does to any number of them is
shown by a least counterexample: `SetInduction` rests on the well-foundedness of
strict inclusion of finite sets, a fact of the library that takes no operator.
`ShownInv` adds `Dressed`: two kinds of body are never there at once, and the
first participant's is hidden exactly when that has left. `PoseInv` adds where a
body's pose comes from: the number its gate compares with is the one its tracker
gave the frame shown, and every frame on its way has the number of its place in
the stream, less than half the range behind the newest (`limits.lag`). Within that
distance newer modulo the range is newer; a frame that comes later than that would
break the property, as the modular comparison cannot see it.

**PageSettings.** `TokenInv` follows the token: a page's settings hold one its user
typed, none, or the transient one, and its storage never the last. `LinkInv` adds
to `LinkKeepsItsMeaning` that the link on the clipboard names all it was copied to
show and no colour that would make a transparent scene opaque (`Says`). The order of
`applyQuerySettings` - situation, scene, single choices - is what the lemmas on
`Onto` and `ApplySituationToSettings` are about.

**TrackerMedia.** `DevicesInv`: each task awaits a step of its own handler, and two
that are under way have overlapped (`TasksFit`); what is live was asked for by a
task, and if nothing overlapped that task it is held by the page; no device is
asked for twice; a start has opened only what lies behind it (`DevicesFit`); and a
hand model that is wanted is there, on its way, or recorded in `missed`
(`HandsFit`). The proof goes by handler and by the step it resumes at; `Rest` and
`Await` say where a handler comes to next, and have the lemmas.

**HandZones.** The property speaks of `Settle` frames; the invariant says how
far a hand has come after k of them: `Near(p, r, k)`, the distance left and k
limited steps fit into the range of a curl. After `Settle` of them no distance is
left.

**ObsBridge.** `ObsInv`: while a push has OBS to itself (`AloneIsAlone`), each
source of its situation is still to be made or in the scene, still to be found
and placed or in its place (`Progress`), so at the end of its requests everything
is there. TLC refuted the first form of `Progress`, without `~mixed`: a push that
read two situations makes the sources of one in the scene of the other (finding
8).

**DesktopShell.** `ShellInv`: revisions on their way are no newer than the
store's (`Ordered`); a page that has asked has requested the newest revision, or a
message naming it is on its way (`Told`); the newest revision the page has asked for is being read,
parsed, shown or was unreadable (`Asked`); and no revision is in two of those
places (`Loaded`). When nothing is on its way only "shown" or "unreadable" is
left.

**Kgm2.** `Kgm2Inv`: every delta on the channel is the difference from a keyframe
that was sent, its coordinate clamped (`SentOK`), the encoder's key is one it sent
(`EncoderOK`), the decoder's entries are keyframes sent under their ids
(`KeyframesOK`), and what was decoded last was read on some keyframe of its id
(`DecodedOK`). That id naming one keyframe then makes it the right one.

**Recursive functions.** What a function defined by recursion over 0 .. n does
is shown without an induction scheme: `UpToN` (`LeastNatural` in another form)
says that a set of naturals with 0 and with the successor of each member below n
holds all up to n, and the sets used are those of the steps at which the claim
holds. `StepsExist` gives the functions themselves. Functions over sets of
participants go by `SetInduction`, over strict inclusion.

**TrackerLoop.** `LoopInv` says how turns, taken frames and the waiting picture
follow each other in time (`TimesRun`); that the drop detector holds exactly the
gaps before the turns of its window (`Fits`); and that both recordings are the
last `Cap` of what was taken, with the metadata line before them until the first line
goes (`RecordFits`). `MissedIsDropped` turns a detector that fits into the pictures
missed before the last turns, and `TimesReadBack` says that the 16-bit gaps of a KGM
file add up to the times they were taken from, or less when one was clipped.

**DrumStick.** `StickInv`: what the stick has sent are bursts within a round of the
low bits (`AirFits`), no two messages with one time in one boot (`Apart`). Each
connection has a base of whole periods of the clock: a hit's time is its strike's
less the base, and the decoder's count of wraps and last bits are those of the last
message whose timestamp was read, whether it arrived whole or not (`ClockFits`,
`ArrivingFits`); what is remembered are the times of the last hits, as many
as the window holds (`HitsFit`). `HighBitsMoveOn` and `WrapsAreCounted` are the two
facts of arithmetic: a fall of the low bits within a burst is one step of the high
ones, and a fall of the clock by more than half is one wrap, as long as the next
message is near. Where `misled` stays false it is, and a strike sent again within the
window has the time of its hit.

**Datasets.** `SamplesInv` adds that the numbers kept run up to the last one
given; the box of a label is a fact about minima, maxima and clamps. `RecordingInv`
says that a line knows its place and that each reader has read the lines there are.
`PlacesAreFound` (by induction on the lines) says that a reader meets each line it
wants once and in order; without errors or odd frames both want the same lines, and
otherwise every line the replay page plays is among those the viewer tries. The
assumption on `Invalid` only says that what stands for a throw is no frame.

**ExpressionMaps.** `MapInv` adds what the editor holds: as long as the user has
given no map, the text is the map in force, so a timer set for one avatar applies
the next one's own map again. A map made for an Inochi avatar drives each
parameter from one target because `Place` takes a free name each time. The
property, like the code, says nothing of a VRM file without any expressions: for
it `createDefaultVrmExpressionMap` makes the full map.

**ReplayPage.** `ReplayInv` has the place that Play began with and when it was due
(`OnTime`), that what was sent is the recording up to the cursor, and that marks
nobody typed are the recording's. `OrderIsByTime` shows that counting the frames that
come before puts them in the order of their times.

**WireFormats.** `WireInv`: what arrives is of another layout or is what the
writer made but for its length. Then a decoder that reads the whole packet returns
what was written and one that is cut short refuses. For a room, `Heard` is shown to hold
the last envelope of each participant after any number of them.

**DrumKit.** `KitInv`: a placed zone is where the user pointed, turned over if the
preview was mirrored then, and what is stored is the kit in force.

**Only model-checked.** Liveness (`DeadTokensArePurged`, `ExpiredQrIsWithdrawn`,
`DeadPeersLeave`, `ShutdownEnds`, `GoneSessionsEnd`, the liveness half of
`FeedImplemented`, `SlotDrains`, `CallsEnd`, `SilentParticipantLeaves`,
`StartEnds`) is out of the prover's reach. Of the safety properties, TLC alone checks
`StrokesCountOnce` and `TakeIsGradedAsPlayed`, whose meaning is a fold over pairs
sorted by an operator, and `CalibrationFits`, percentiles of sorted samples.

## 6. Hazards no property covers

`PROJECT.json` lists the hazards; these have no property.

- Relay-node restarts (`server.mjs:45`): the tokens are gone, rooms are open, and
  no document promises otherwise. The restart is an action, and `PairingPanel`'s
  properties are stated around it.
- A token is checked at the join only (`server.mjs:113`); the docs promise to
  reject *future* joins.
- A ping waits behind the queue (`server.mjs:157`): modelled (`pingAt`), a live
  peer on a slow link may be terminated; nothing says it must not.
- A reload of the panel forgets its pairing (`desktop.js:340`), and its fetches
  have no time-out (`desktop.js:459`).
- The zero cap per address (`main.rs:148`) and the double rate at a window's
  boundary (`main.rs:132`) of relay-rs are seen by reading.
- `onclose` of a replaced socket (`transport.js:183`) changes only what is shown.

## 7. Not modelled

- End-to-end encryption helpers: WebCrypto calls with no state.
- Avatar adapters, One-Euro and blink filters, pose and foot models: floating-point
  maps from landmarks to parameters, tested by golden vectors; TLC has no reals,
  and a model of their shape would say nothing of their numbers.
- Router topology simulation and benchmarks: scripts outside the product.
- Landing page, diagnostics, translations, overlays' drawing, the vendored
  renderer: wording and pixels.
- Within modelled parts, what the notes in `PROJECT.json` "components" say: among them
  the rate window and size cap of relay-rs, `ws-json`'s encoding, named calibration
  profiles, the bytes of a GLB file, autoconnect and autofill of the tracker.

## 8. Plan

1. Proofs: the hits of `StageFusion` and `DrumHits`, once their folds and sorts are
   counts or recursive functions as in `TrackerLoop` and `ReplayPage`.
2. An abstract "room of participants" that `ViewerRooms` refines, from `OwnedInv`.
3. The rate window of relay-rs and the panel's reload and change of relay URL.
