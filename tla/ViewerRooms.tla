---------------------------- MODULE ViewerRooms ----------------------------
(***************************************************************************)
(* The viewer page (viewer/viewer.js) with its participant store           *)
(* (shared/room-envelope.js): who is in the room, whose frames move which  *)
(* avatar, which bodies stand in the scene, and the avatar files that are  *)
(* still loading while participants come and go.                           *)
(*                                                                         *)
(* One thread: a handler runs to its first await.  What it does to the     *)
(* page's own state is an operator from page to page with the handler's    *)
(* name; the actions compose them.  Poses, materials and layout are left   *)
(* out: a body is visible or not.                                          *)
(***************************************************************************)
EXTENDS FrameOrder, Sequences, FiniteSets, FiniteSetsExt

CONSTANTS
  Participants,      \* participant ids, positive and ordered as localeCompare does
  Expiry,            \* staleAfterMs + fadeMs, in ticks
  MaxParticipants,   \* the store's limit on participants that are laid out
  MaxGenerations,    \* bound: stays of one participant
  Limits             \* bounds of an instance, see below

ASSUME ViewerAssumption ==
  /\ Participants \subseteq Nat \ {0}
  /\ Expiry \in Nat \ {0} /\ MaxParticipants \in Nat \ {0}
  /\ MaxGenerations \in Nat \ {0}

None == 0   \* null: no participant, no runtime, no model

\* The instance chosen: how many avatar files are loaded and native revisions
\* announced, whether replays run, how many frames each tracker publishes (SeqModulus:
\* no bound, the numbers wrap) and how often it is reloaded, after how many later
\* frames a frame is lost, and whether the page connects more than once.
LimitsType == [loads : Nat, revisions : Nat, replays : BOOLEAN,
               frames : [Participants -> 0 .. SeqModulus], reloads : Nat,
               lag : 0 .. HalfRange - 1, reconnects : BOOLEAN]
ASSUME LimitsAssumption == Limits \subseteq LimitsType

VARIABLES
  limits,    \* the bounds of this instance; never changes
  page,      \* the page's own state, see PageType
  loads,     \* avatar files asked for: what has become of each
  link,      \* the transport: "closed", "connecting" or "open"
  replaying, \* replayTimer is set
  tracker,   \* environment: the trackers that publish into the room
  net,       \* environment: frames on their way
  shown,     \* history: per participant, how many frames its tracker sent since
             \* the one its avatar shows
  gateOf,    \* history: whose frame the primary gate accepted last
  late       \* history: models that were loaded for a runtime already disposed

pageVars == <<page, shown, gateOf>>
envVars  == <<tracker, net>>
vars == <<limits, page, loads, link, replaying, tracker, net, shown, gateOf, late>>

LoadIds == DOMAIN loads
Frames == [from : Participants, seq : Seqs, behind : 0 .. HalfRange - 1, old : BOOLEAN]

\* age: ticks since lastSeenMs, as far as they matter;  avatar: the runtime it was
\* given;  a runtime is known by its participant and the stay it was made in.
ParticipantType == [generation : 1 .. MaxGenerations + 1, age : 0 .. Expiry,
                    avatar : 0 .. MaxGenerations + 1]
RuntimeType == [made : 1 .. MaxGenerations + 1, lastSeq : Seqs \cup {NoSeq}, vrm : Nat]
LoadType == [kind : {"vrm", "inochi", "layers"}, made : 0 .. MaxGenerations + 1,
             to : Participants \cup {None}, rev : Nat,
             state : {"reading", "loading", "done", "failed", "dropped"}]

TypeOK ==
  /\ limits \in Limits
  /\ DOMAIN page.participants \subseteq Participants
  /\ DOMAIN page.additional \subseteq Participants
  /\ \A p \in DOMAIN page.participants : page.participants[p] \in ParticipantType
  /\ \A p \in DOMAIN page.additional : page.additional[p] \in RuntimeType
  /\ page.generations \in [Participants -> 0 .. MaxGenerations + 1]
  /\ page.primaryId \in Participants \cup {None}
  /\ page.primaryHandle \in 0 .. MaxGenerations + 1
  /\ page.gate \in Seqs \cup {NoSeq}
  /\ \A b \in {"primaryShown", "botVisible", "modelVisible", "layered"} : page[b] \in BOOLEAN
  /\ page.vrm \in LoadIds \cup {None} /\ page.inochi \in LoadIds \cup {None}
  /\ page.scene \subseteq LoadIds
  /\ page.selected \in page.listed \cup {None} /\ page.listed \subseteq Participants
  /\ page.requested \in 0 .. limits.revisions
  /\ Len(loads) <= limits.loads /\ \A i \in LoadIds : loads[i] \in LoadType
  /\ link \in {"closed", "connecting", "open"} /\ replaying \in BOOLEAN
  /\ tracker \in [Participants -> [seq : Seqs, reloads : Nat]]
  /\ net \subseteq Frames
  /\ shown \in [Participants -> 0 .. SeqModulus \cup {NoSeq}]
  /\ late \subseteq LoadIds
-----------------------------------------------------------------------------
\* The room: the store, the runtimes of its participants, and the selector.

Present(pg) == DOMAIN pg.participants
Without(f, p) == [q \in DOMAIN f \ {p} |-> f[q]]
With(f, p, v) == [q \in DOMAIN f \cup {p} |-> IF q = p THEN v ELSE f[q]]

\* Mutant: the selected option stays although its participant has left.
SelectorKeepsSelection(pg) ==
  [pg EXCEPT !.listed = Present(pg),
             !.selected = IF Present(pg) = {} THEN None ELSE @]

\* refreshParticipantSelector: the options are the participants as they are now.
RefreshSelector(pg) ==
  [pg EXCEPT !.listed = Present(pg),
             !.selected = IF @ \in Present(pg) THEN @
                          ELSE IF Present(pg) = {} THEN None ELSE Min(Present(pg))]

\* Mutant: the first participant's gate survives its runtime.
DisposeKeepsGate(pg, p) ==
  RefreshSelector(
    IF p = pg.primaryId
    THEN [pg EXCEPT !.scene = @ \ {pg.vrm, pg.inochi}, !.vrm = None, !.inochi = None,
                    !.botVisible = FALSE, !.primaryShown = FALSE, !.primaryHandle = None]
    ELSE [pg EXCEPT !.scene = @ \ {pg.additional[p].vrm},
                    !.additional = Without(@, p)])

\* disposeParticipantRuntime: the first participant's runtime is the page itself.
DisposeRuntime(pg, p) ==
  RefreshSelector(
    IF p = pg.primaryId
    THEN [pg EXCEPT !.scene = @ \ {pg.vrm, pg.inochi}, !.vrm = None, !.inochi = None,
                    !.botVisible = FALSE, !.primaryShown = FALSE,
                    !.gate = NoSeq, !.primaryHandle = None]
    ELSE [pg EXCEPT !.scene = @ \ {pg.additional[p].vrm},
                    !.additional = Without(@, p)])

\* What prune and an expired ingest do to one participant, in this order.
Expire(pg, p) ==
  LET disposed == IF pg.participants[p].avatar = None THEN pg ELSE DisposeRuntime(pg, p)
  IN  [disposed EXCEPT !.participants = Without(@, p)]

\* Mutant: an age in milliseconds is compared with seconds.
ExpiredInAges(pg) == {p \in Present(pg) : pg.participants[p].age >= 1000 * Expiry}

Expired(pg) == {p \in Present(pg) : pg.participants[p].age >= Expiry}

\* RoomParticipantStore.prune; the Map's order is taken to be that of the ids.
Prune(pg) ==
  LET gone == Expired(pg)
      Upto[p \in 0 .. Max({0} \cup gone)] ==
        IF p = 0 THEN pg ELSE IF p \in gone THEN Expire(Upto[p - 1], p) ELSE Upto[p - 1]
  IN  Upto[Max({0} \cup gone)]

\* RoomParticipantStore.ingest, now.
Ingest(pg, p) ==
  LET kept == IF p \in Expired(pg) THEN Expire(pg, p) ELSE pg
      generation == kept.generations[p] + 1
  IN  IF p \in Present(kept)
      THEN [kept EXCEPT !.participants[p].age = 0]
      ELSE [kept EXCEPT !.generations[p] = generation,
                        !.participants = With(@, p, [generation |-> generation, age |-> 0,
                                                     avatar |-> None])]

\* RoomParticipantStore.assignAvatar, for a runtime just made.
AssignAvatar(pg, p, made) ==
  LET here == IF p \in Present(pg) THEN pg ELSE Ingest(pg, p)
      freed == IF here.participants[p].avatar \notin {None, made}
               THEN DisposeRuntime(here, p) ELSE here
  IN  [freed EXCEPT !.participants[p].avatar = made]

\* The stay a runtime made now belongs to.
StayOf(pg, p) == IF p \in Present(pg) THEN pg.participants[p].generation
                 ELSE pg.generations[p] + 1

\* ensureParticipantRuntime
EnsureRuntime(pg, p) ==
  LET named == [pg EXCEPT !.primaryId = IF @ = None THEN p ELSE @]
      made == StayOf(pg, p)
  IN  IF p = named.primaryId
      THEN RefreshSelector(
             IF named.primaryHandle # None THEN named
             ELSE [AssignAvatar([named EXCEPT !.primaryHandle = made], p, made)
                   EXCEPT !.botVisible = (pg.vrm = None /\ pg.inochi = None /\ ~pg.layered)])
      ELSE IF p \in DOMAIN pg.additional THEN named
      ELSE RefreshSelector(
             AssignAvatar([named EXCEPT !.additional =
                             With(@, p, [made |-> made, lastSeq |-> NoSeq, vrm |-> None])],
                          p, made))

\* The gate a participant's frames pass: the page's, or the runtime's own.
GateFor(pg, p) == IF p = pg.primaryId THEN pg.gate ELSE pg.additional[p].lastSeq
SetGate(pg, p, seq) == IF p = pg.primaryId THEN [pg EXCEPT !.gate = seq]
                       ELSE [pg EXCEPT !.additional[p].lastSeq = seq]

\* resetOrderGate
ResetOrderGate(pg) == [pg EXCEPT !.gate = NoSeq]
-----------------------------------------------------------------------------
\* The bodies: the built-in bot, the layered images, one VRM or Inochi2D model.

DisposeInochiAvatar(pg) == [pg EXCEPT !.scene = @ \ {pg.inochi}, !.inochi = None]

DisableLayeredAvatar(pg) ==
  [pg EXCEPT !.layered = FALSE, !.modelVisible = IF pg.vrm # None THEN TRUE ELSE @]

DropVrm(pg) == [pg EXCEPT !.scene = @ \ {pg.vrm}, !.vrm = None]

\* Mutant: the bot is not hidden.
InstallVrmKeepsBot(pg, i) ==
  RefreshSelector(
    [DisableLayeredAvatar(DropVrm(DisposeInochiAvatar(pg)))
     EXCEPT !.vrm = i, !.scene = @ \cup {i}, !.modelVisible = TRUE])

\* loadVrmFromUrl once the model is there
InstallVrm(pg, i) ==
  RefreshSelector(
    [DisableLayeredAvatar(DropVrm(DisposeInochiAvatar(pg)))
     EXCEPT !.vrm = i, !.scene = @ \cup {i}, !.modelVisible = TRUE, !.botVisible = FALSE])

\* loadInochi2DFile once the model is there
InstallInochi(pg, i) ==
  RefreshSelector(
    [DisableLayeredAvatar(DropVrm(DisposeInochiAvatar(pg)))
     EXCEPT !.inochi = i, !.scene = @ \cup {i}, !.modelVisible = TRUE, !.botVisible = FALSE])

\* setLayeredAvatarLayers; there is a layer, or the loaders do not come here
InstallLayers(pg) ==
  [DisableLayeredAvatar(DisposeInochiAvatar(pg))
   EXCEPT !.layered = TRUE, !.modelVisible = FALSE, !.botVisible = FALSE]

\* The runtime load i was started for still serves its participant.
StillServes(pg, i) ==
  /\ loads[i].to \in DOMAIN pg.additional
  /\ pg.additional[loads[i].to].made = loads[i].made

\* loadVrmForParticipant once the model is there: whether or not the runtime it
\* was started for has been disposed, that runtime's former model leaves the scene
\* and the new one enters it.
AttachToRuntime(pg, i) ==
  LET former == {m \in pg.scene : loads[m].to = loads[i].to /\ loads[m].made = loads[i].made}
      staged == [pg EXCEPT !.scene = (@ \ former) \cup {i}]
  IN  RefreshSelector(IF StillServes(pg, i) THEN [staged EXCEPT !.additional[loads[i].to].vrm = i]
                      ELSE staged)

\* updateRoomParticipantLayout: only the first participants by id are laid out.
LaidOut(pg) == {p \in Present(pg) : Cardinality({q \in Present(pg) : q < p}) < MaxParticipants}

Layout(pg) ==
  Prune(IF pg.primaryHandle # None /\ pg.primaryId \in LaidOut(pg) \ Expired(pg)
        THEN [pg EXCEPT !.primaryShown = TRUE] ELSE pg)

\* The rest of render: a failing Inochi2D model gives way to the bot; then the body
\* that stands for the first participant is as visible as that participant.
Draw(pg, fails) ==
  LET drawn == IF fails THEN [DisposeInochiAvatar(pg) EXCEPT !.botVisible = TRUE] ELSE pg
  IN  IF drawn.layered THEN drawn
      ELSE IF drawn.inochi # None \/ drawn.vrm # None
      THEN [drawn EXCEPT !.modelVisible = pg.primaryShown]
      ELSE [drawn EXCEPT !.botVisible = pg.primaryShown]
-----------------------------------------------------------------------------
NewPage ==
  [participants |-> <<>>, generations |-> [p \in Participants |-> 0],
   primaryId |-> None, primaryHandle |-> None, additional |-> <<>>,
   gate |-> NoSeq, primaryShown |-> TRUE, botVisible |-> TRUE,
   vrm |-> None, inochi |-> None, modelVisible |-> FALSE, layered |-> FALSE,
   scene |-> {}, listed |-> {}, selected |-> None, requested |-> 0]

Load(kind, to, made, rev, state) ==
  [kind |-> kind, to |-> to, made |-> made, rev |-> rev, state |-> state]

\* The page may open on a default avatar, and connect at once (?room=).
Init ==
  /\ limits \in Limits
  /\ page = NewPage
  /\ loads \in {<<>>} \cup (IF limits.loads = 0 THEN {}
                            ELSE {<<Load("vrm", None, None, 0, "loading")>>})
  /\ link \in {"closed", "connecting"} /\ replaying = FALSE
  /\ tracker = [p \in Participants |-> [seq |-> 0, reloads |-> 0]]
  /\ net = {} /\ late = {}
  /\ shown = [p \in Participants |-> NoSeq]
  /\ gateOf = None

\* The runtime that serves p, and what the histories keep when runtimes are replaced.
Runtime(pg, p) == IF p = pg.primaryId THEN pg.primaryHandle
                  ELSE IF p \in DOMAIN pg.additional THEN pg.additional[p].made ELSE None
ShownAfter(pg) == [p \in Participants |-> IF Runtime(pg, p) = Runtime(page, p)
                                          THEN shown[p] ELSE NoSeq]
GateOfAfter(pg) == IF pg.gate = NoSeq THEN None ELSE gateOf

\* A tracker publishes its next frame: it reaches the page only while connected.
Publish(p) ==
  LET seq == tracker[p].seq
      aged == {[f EXCEPT !.behind = IF f.from = p /\ ~f.old THEN @ + 1 ELSE @] :
                 f \in {g \in net : g.from # p \/ g.old \/ g.behind < limits.lag}}
      new == [from |-> p, seq |-> seq, behind |-> 0, old |-> FALSE]
  IN  /\ limits.frames[p] = SeqModulus \/ seq < limits.frames[p]
      /\ tracker' = [tracker EXCEPT ![p].seq = (@ + 1) % SeqModulus]
      /\ net' = aged \cup (IF link = "open" THEN {new} ELSE {})
      /\ shown' = [shown EXCEPT ![p] = IF @ \in {NoSeq, SeqModulus} THEN @ ELSE @ + 1]
      /\ UNCHANGED <<limits, page, loads, link, replaying, gateOf, late>>

\* A tracker page is reloaded: state.seq starts from 0 again.
ReloadTracker(p) ==
  /\ limits.frames[p] > 0 /\ tracker[p].reloads < limits.reloads
  /\ tracker' = [tracker EXCEPT ![p] = [seq |-> 0, reloads |-> @.reloads + 1]]
  /\ net' = {[f EXCEPT !.old = (@ \/ f.from = p)] : f \in net}
  /\ shown' = [shown EXCEPT ![p] = NoSeq]
  /\ UNCHANGED <<limits, page, loads, link, replaying, gateOf, late>>

LoseFrame(f) ==
  /\ net' = net \ {f}
  /\ UNCHANGED <<limits, pageVars, loads, link, replaying, tracker, late>>

\* The 'participant-frame' handler: ingest, runtime, gate.
ReceiveFrame(f) ==
  LET p == f.from
      joined == EnsureRuntime(Ingest(page, p), p)
      accepted == isSeqNewer(f.seq, GateFor(joined, p))
  IN  /\ link = "open" /\ net' = net \ {f}
      /\ UNCHANGED <<limits, loads, link, replaying, tracker, late>>
      /\ p \in Present(page) \ Expired(page) \/ page.generations[p] < MaxGenerations
      /\ page' = SetGate(joined, p, Accept(GateFor(joined, p), f.seq))
      /\ shown' = IF accepted
                  THEN [ShownAfter(joined) EXCEPT ![p] = IF f.old THEN NoSeq ELSE f.behind]
                  ELSE ShownAfter(joined)
      /\ gateOf' = IF accepted /\ p = joined.primaryId THEN joined.participants[p].generation
                   ELSE GateOfAfter(joined)

Aged(participants) ==
  [p \in DOMAIN participants |->
     [participants[p] EXCEPT !.age = IF @ < Expiry THEN @ + 1 ELSE @]]

Tick ==
  /\ \E p \in Present(page) : page.participants[p].age < Expiry
  /\ page' = [page EXCEPT !.participants = Aged(page.participants)]
  /\ UNCHANGED <<limits, loads, link, replaying, envVars, shown, gateOf, late>>

Render(fails) ==
  \E laid \in {Layout(page)} :
  /\ UNCHANGED <<limits, loads, link, replaying, envVars, late>>
  /\ fails => laid.inochi # None
  /\ page' = Draw(laid, fails)
  /\ shown' = ShownAfter(laid) /\ gateOf' = GateOfAfter(laid)

\* btnConnect: stopReplay, resetOrderGate, and connectAuto closes what was open.
Connect ==
  /\ limits.reconnects
  /\ replaying' = FALSE /\ link' = "connecting" /\ net' = {}
  /\ page' = ResetOrderGate(page) /\ gateOf' = None
  /\ UNCHANGED <<limits, loads, tracker, shown, late>>

ConnectEnds ==
  /\ link = "connecting" /\ link' \in {"open", "closed"}
  /\ UNCHANGED <<limits, pageVars, loads, replaying, envVars, late>>

ConnectionLost ==
  /\ limits.reconnects /\ link = "open" /\ link' = "closed" /\ net' = {}
  /\ UNCHANGED <<limits, pageVars, loads, replaying, tracker, late>>

\* The first participant's avatar shows a recorded frame, no tracker's.
ReplayShown == [p \in Participants |-> IF p = page.primaryId THEN NoSeq ELSE shown[p]]

\* startReplay: transport.close() does not stop a connectAuto in progress; the first
\* frame is applied at once.
StartReplay(seq) ==
  /\ limits.replays
  /\ replaying' \in BOOLEAN
  /\ link' = IF link = "open" THEN "closed" ELSE link
  /\ net' = {}
  /\ page' = [page EXCEPT !.gate = seq] /\ gateOf' = None /\ shown' = ReplayShown
  /\ UNCHANGED <<limits, loads, tracker, late>>

ReplayStep(seq) ==
  /\ replaying /\ replaying' \in BOOLEAN
  /\ page' = [page EXCEPT !.gate = Accept(@, seq)]
  /\ IF isSeqNewer(seq, page.gate) THEN gateOf' = None /\ shown' = ReplayShown
     ELSE UNCHANGED <<gateOf, shown>>
  /\ UNCHANGED <<limits, loads, link, envVars, late>>
-----------------------------------------------------------------------------
SelectParticipant(p) ==
  /\ limits.loads > 0 /\ p \in page.listed
  /\ page' = [page EXCEPT !.selected = p]
  /\ UNCHANGED <<limits, loads, link, replaying, envVars, shown, gateOf, late>>

\* loadVrmFile up to its first await: the file goes to the selected participant, else
\* to the first one, else to the page.
VrmFileTo == IF page.selected # None THEN page.selected ELSE page.primaryId

VrmFileFits ==
  VrmFileTo \notin {None} \cup Present(page) => page.generations[VrmFileTo] < MaxGenerations

PageForVrm == IF VrmFileTo = None THEN page ELSE EnsureRuntime(page, VrmFileTo)

VrmLoad(rev) ==
  IF VrmFileTo \in {None, PageForVrm.primaryId} THEN Load("vrm", None, None, rev, "loading")
  ELSE Load("vrm", VrmFileTo, PageForVrm.additional[VrmFileTo].made, rev, "loading")

LoadsUnchanged == UNCHANGED <<limits, link, replaying, envVars, shown, gateOf, late>>

ChooseVrm ==
  /\ Len(loads) < limits.loads
  /\ VrmFileFits /\ page' = PageForVrm
  /\ loads' = Append(loads, VrmLoad(0))
  /\ LoadsUnchanged

\* An Inochi2D file or a PSD of layers.
ChooseModel(kind) ==
  /\ Len(loads) < limits.loads
  /\ loads' = Append(loads, Load(kind, None, None, 0, "loading"))
  /\ page' = page
  /\ LoadsUnchanged

\* loadLayeredPngFiles: no await.
ShowPngLayers ==
  /\ limits.loads > 0
  /\ page' = InstallLayers(page)
  /\ UNCHANGED loads /\ LoadsUnchanged

\* loadNativeAvatar: the desktop shell announces a file by its revision; only a later
\* one than any before is read.
NativeAvatarSelected(rev, kind) ==
  /\ Len(loads) < limits.loads /\ rev > page.requested
  /\ page' = [page EXCEPT !.requested = rev]
  /\ loads' = Append(loads, Load(kind, None, None, rev, "reading"))
  /\ LoadsUnchanged

NativeAvatarRead(i) ==
  /\ loads[i].state = "reading"
  /\ \/ /\ loads[i].rev # page.requested
        /\ loads' = [loads EXCEPT ![i].state = "dropped"] /\ page' = page
     \/ /\ loads[i].rev = page.requested /\ loads[i].kind = "vrm"
        /\ VrmFileFits /\ page' = PageForVrm
        /\ loads' = [loads EXCEPT ![i] = VrmLoad(loads[i].rev)]
     \/ /\ loads[i].rev = page.requested /\ loads[i].kind # "vrm"
        /\ loads' = [loads EXCEPT ![i].state = "loading"] /\ page' = page
  /\ LoadsUnchanged

\* The awaited model: by now its participant may be gone, or another body in place.
LoadEnds(i) ==
  /\ loads[i].state = "loading"
  /\ loads' = [loads EXCEPT ![i].state = "done"]
  /\ page' = CASE loads[i].kind = "inochi" -> InstallInochi(page, i)
               [] loads[i].kind = "layers" -> InstallLayers(page)
               [] loads[i].kind = "vrm" /\ loads[i].to = None -> InstallVrm(page, i)
               [] OTHER -> AttachToRuntime(page, i)
  /\ late' = IF loads[i].to # None /\ ~StillServes(page, i) THEN late \cup {i} ELSE late
  /\ UNCHANGED <<limits, link, replaying, envVars, shown, gateOf>>

LoadFails(i) ==
  /\ loads[i].state \in {"reading", "loading"}
  /\ loads' = [loads EXCEPT ![i].state = "failed"]
  /\ page' = page
  /\ LoadsUnchanged
-----------------------------------------------------------------------------
Next ==
  \/ \E p \in Participants : Publish(p) \/ ReloadTracker(p) \/ SelectParticipant(p)
  \/ \E f \in net : LoseFrame(f) \/ ReceiveFrame(f)
  \/ Tick \/ \E fails \in BOOLEAN : Render(fails)
  \/ Connect \/ ConnectEnds \/ ConnectionLost
  \/ \E seq \in Seqs : StartReplay(seq) \/ ReplayStep(seq)
  \/ ChooseVrm \/ (\E kind \in {"inochi", "layers"} : ChooseModel(kind)) \/ ShowPngLayers
  \/ \E rev \in 1 .. limits.revisions, kind \in {"vrm", "inochi"} : NativeAvatarSelected(rev, kind)
  \/ \E i \in LoadIds : NativeAvatarRead(i) \/ LoadEnds(i) \/ LoadFails(i)

\* requestAnimationFrame and the clock go on; nothing else has to.
Fairness == WF_vars(Tick) /\ WF_vars(\E fails \in BOOLEAN : Render(fails))

Spec == Init /\ [][Next]_vars /\ Fairness
-----------------------------------------------------------------------------
\* The store and the scene agree on who has a runtime: a participant in the room
\* always has the one made in its present stay, and no other runtime is kept, in
\* whatever order joining, expiry by a frame, expiry by render and file loads come
\* (ingest, prune, ensureParticipantRuntime, disposeParticipantRuntime).
RuntimesMatchRoom ==
  /\ DOMAIN page.additional = Present(page) \ {page.primaryId}
  /\ (page.primaryHandle # None) <=> (page.primaryId \in Present(page))
  /\ \A p \in Present(page) :
       /\ page.participants[p].avatar = page.participants[p].generation
       /\ Runtime(page, p) = page.participants[p].generation
       /\ page.participants[p].generation = page.generations[p]

\* The models that stand in the scene are those of the page and of the live
\* runtimes, each exactly once and no disposed one; the exception is a file that
\* ended loading after its participant had left (loadVrmForParticipant does not
\* look again at the runtime it was started for).
SceneIsOwned ==
  LET owned == {page.vrm, page.inochi} \cup {page.additional[p].vrm : p \in DOMAIN page.additional}
  IN  /\ page.scene \ late = owned \ {None}
      /\ owned \cap late = {}

\* The avatar never moves backward (docs/BACKLOG.md:164): as long as frames are
\* delayed by less than half the range of sequence numbers, a frame that is shown
\* was sent after the one shown before it by the same tracker session, across lost
\* and reordered frames, wrap-around and reconnects.
PoseNeverGoesBack ==
  [][\A p \in Participants :
       (/\ shown[p] # NoSeq /\ shown'[p] # NoSeq /\ tracker' = tracker
        /\ Runtime(page', p) = Runtime(page, p))
       => shown'[p] <= shown[p]]_vars

\* What the first participant's gate compares with was set during that
\* participant's present stay (or by a replay): a tracker that comes back after it
\* was pruned is not refused because of numbers it used before it left.
GateIsOfThisStay ==
  gateOf # None => /\ page.primaryHandle # None
                   /\ gateOf = page.participants[page.primaryId].generation

\* The parts of the viewer that know a participant agree on its present stay: the
\* store and the runtimes, the scene and its models, the gate of the first
\* participant; whatever joins, expires, loads, fails and returns in between.
RoomIsOwned == RuntimesMatchRoom /\ SceneIsOwned /\ GateIsOfThisStay

\* What the scene shows for the first participant.
Bodies(pg) ==
  {b \in {"bot", "model", "layers"} :
     \/ b = "bot" /\ pg.botVisible
     \/ b = "model" /\ pg.modelVisible /\ (pg.vrm # None \/ pg.inochi # None)
     \/ b = "layers" /\ pg.layered}

\* A rendered picture has one body for the first participant while it is in the
\* room (and among those laid out) or nobody has come yet, and none, but for
\* layered images, after it has left: whatever files were loaded, failed or were
\* superseded meanwhile (render, updateRoomParticipantLayout, the loaders).
RenderShowsOneBody ==
  [][(\E fails \in BOOLEAN : Render(fails)) =>
       LET first == page'.primaryId
       IN  /\ (page'.layered \/ first = None
                \/ first \in LaidOut(page) \cap Present(page'))
                 => Cardinality(Bodies(page')) = 1
           /\ (first # None /\ first \notin Present(page') /\ ~page'.layered)
                 => Bodies(page') = {}]_vars

\* A participant whose frames stop arriving is taken out of the room with its
\* avatar, however long the page stays open: again and again it is either gone or
\* just heard of (prune in every render).
SilentParticipantLeaves ==
  \A p \in Participants : []<>(p \in Present(page) => page.participants[p].age = 0)
=============================================================================
