---------------------------- MODULE TrackerMedia ----------------------------
(***************************************************************************)
(* The tracker page's devices (tracker/tracker.js, shared/camera-startup.js): *)
(* camera, microphone, landmark models and calibration sessions, asked for *)
(* by buttons, checkboxes and situations whose handlers await one thing    *)
(* after another while the user goes on clicking.                          *)
(*                                                                         *)
(* A handler that awaits is a task: the steps it still has to take and     *)
(* what it awaits now.  A step that has nothing to wait for is passed over *)
(* at once.                                                                *)
(***************************************************************************)
EXTENDS Integers, Sequences, FiniteSets, FiniteSetsExt

CONSTANTS
  MaxTasks,       \* bound: handlers started
  CameraModes,    \* resolutions with their frame rates
  Situations,     \* what a situation sets: lipsync, hands and the camera's mode
  Calibrations,   \* "guided", "gaze", "hand"
  None            \* null

ASSUME MediaAssumption ==
  /\ MaxTasks \in Nat /\ CameraModes # {}
  /\ Situations \subseteq [lipsync : BOOLEAN, hands : BOOLEAN, mode : CameraModes]
  /\ Calibrations \subseteq {"guided", "gaze", "hand"}
  /\ \A t \in 1 .. MaxTasks, step \in {"camera", "voice", "lipsync"} : None # <<t, step>>

VARIABLES
  media,    \* the page's state, see MediaType
  tasks,    \* the handlers started so far
  live,     \* streams whose tracks have not been stopped
  missed    \* history: why hand tracking may be without its model

mediaVars == <<media, tasks, live, missed>>

TaskIds == DOMAIN tasks
\* A stream is named by the task and the step that asked for it.
Streams == (1 .. MaxTasks) \X {"camera", "voice", "lipsync"}
CameraSteps == <<"camera", "metadata", "controls", "voice", "lipsync">>

MediaType ==
  /\ \A b \in {"running", "startEnabled", "stopEnabled", "accents", "lipsync", "hands",
               "worklet", "face", "handModel", "fileset"} : media[b] \in BOOLEAN
  /\ media.src \in Streams \cup {None} /\ media.voice \in Streams \cup {None}
  /\ media.mode \in CameraModes /\ media.sessions \subseteq Calibrations
  /\ live \subseteq Streams /\ missed \in BOOLEAN
  /\ Len(tasks) <= MaxTasks
  /\ \A t \in TaskIds :
       /\ tasks[t].await \in {"no", "turn", "models", "firstHand", "hand", "stream",
                              "metadata", "controls", "mic", "worklet"}
       /\ tasks[t].overlapped \in BOOLEAN /\ tasks[t].failed \in BOOLEAN
       /\ tasks[t].input \in Streams \cup {None}

DefaultMode == CHOOSE m \in CameraModes : TRUE

MediaInit ==
  /\ media = [running |-> FALSE, startEnabled |-> TRUE, stopEnabled |-> FALSE,
              src |-> None, voice |-> None, worklet |-> FALSE,
              accents |-> FALSE, lipsync |-> FALSE, hands |-> FALSE,
              mode |-> DefaultMode,
              face |-> FALSE, handModel |-> FALSE, fileset |-> FALSE, sessions |-> {}]
  /\ tasks = <<>> /\ live = {} /\ missed = FALSE
-----------------------------------------------------------------------------
\* What a handler meets on its way to the next await.

Wanted(pg, step) == IF step = "voice" THEN pg.accents ELSE pg.lipsync

\* ensureAudioInput: what it awaits first, if anything.
AwaitAudio(pg, step) ==
  IF ~Wanted(pg, step) THEN "no"
  ELSE IF pg.voice = None THEN "mic"
  ELSE IF pg.lipsync /\ ~pg.worklet THEN "worklet" ELSE "no"

\* ensureHandLandmarkerIfRunning
AwaitHand(pg) ==
  IF pg.hands /\ pg.running /\ ~pg.handModel /\ pg.fileset THEN "hand" ELSE "no"

Await(pg, step) ==
  CASE step = "camera" -> "stream"
    [] step \in {"voice", "lipsync"} -> AwaitAudio(pg, step)
    [] step = "hands" -> AwaitHand(pg)
    [] step = "firstHand" -> IF pg.hands /\ ~pg.handModel THEN "firstHand" ELSE "no"
    [] step \in {"audio", "recamera"} -> "turn"
    [] OTHER -> step

\* The steps from the first one that has something to await.
Rest(pg, todo) ==
  LET waits == {i \in DOMAIN todo : Await(pg, todo[i]) # "no"}
  IN  IF waits = {} THEN <<>> ELSE SubSeq(todo, Min(waits), Len(todo))

\* startCamera stops the stream it finds before it asks for another.
ReleaseCamera(pg) == [pg EXCEPT !.src = None]

\* The page after the handler has come to `rest`.
Reached(pg, kind, rest) ==
  IF rest = <<>>
  THEN IF kind = "start" THEN [pg EXCEPT !.running = TRUE, !.stopEnabled = TRUE] ELSE pg
  ELSE IF Head(rest) = "camera" THEN ReleaseCamera(pg) ELSE pg

\* The live streams once the page no longer holds some of them.
Released(pg) == live \ {s \in {media.src, media.voice} : s \notin {pg.src, pg.voice}}

\* Task t goes on with `todo` on page pg; `streams` are live by now.
Proceed(t, pg, todo, streams) ==
  LET rest == Rest(pg, todo)
      at == IF rest = <<>> THEN "no" ELSE Await(pg, Head(rest))
      reached == Reached(pg, tasks[t].kind, rest)
  IN  /\ tasks' = [tasks EXCEPT ![t].todo = rest, ![t].await = at,
                                     ![t].input = IF at = "worklet" THEN pg.voice ELSE None]
      /\ media' = reached
      /\ live' = IF at = "stream" THEN streams \ {pg.src} ELSE streams

\* Mutant: a failed Start does not offer another try.
AbortForGood(t, pg, streams) ==
  /\ tasks' = [tasks EXCEPT ![t].todo = <<>>, ![t].await = "no", ![t].failed = TRUE]
  /\ media' = pg /\ live' = streams

\* A handler that throws: btnStart offers another try, the others just end.
Abort(t, pg, streams) ==
  /\ tasks' = [tasks EXCEPT ![t].todo = <<>>, ![t].await = "no", ![t].failed = TRUE]
  /\ media' = IF tasks[t].kind = "start" THEN [pg EXCEPT !.startEnabled = TRUE] ELSE pg
  /\ live' = streams

\* Between the turns of one situation no event is handled.
NoTurn == \A t \in TaskIds : tasks[t].await # "turn"
Unfinished == {t \in TaskIds : tasks[t].await # "no"}

\* A click that acts on the devices overlaps every task still under way.
Overlap(f) == [t \in DOMAIN f |-> [f[t] EXCEPT !.overlapped = @ \/ f[t].await # "no"]]

\* A click starts a task on page pg.
BeginTask(kind, pg, todo) ==
  LET rest == Rest(pg, todo)
      at == IF rest = <<>> THEN "no" ELSE Await(pg, Head(rest))
      task == [kind |-> kind, todo |-> rest, await |-> at,
               lipsyncBefore |-> kind = "situation" /\ media.lipsync,
               modeBefore |-> IF kind = "situation" THEN media.mode ELSE DefaultMode,
               input |-> IF at = "worklet" THEN pg.voice ELSE None,
               overlapped |-> Unfinished # {}, failed |-> FALSE]
  IN  /\ NoTurn /\ Len(tasks) < MaxTasks
      /\ tasks' = Append(Overlap(tasks), task)
      /\ media' = Reached(pg, kind, rest)
      /\ live' = Released(Reached(pg, kind, rest))

\* A click that starts nothing, on page pg.
ClickOnly(pg) ==
  /\ NoTurn
  /\ tasks' = Overlap(tasks) /\ media' = pg /\ live' = Released(pg)
-----------------------------------------------------------------------------
\* The microphone.

StopAudioInput(pg) == [pg EXCEPT !.voice = None, !.worklet = FALSE]

HandleAudioInputError(pg) == [StopAudioInput(pg) EXCEPT !.accents = FALSE, !.lipsync = FALSE]

StopVoiceAccents(pg) == IF pg.lipsync THEN pg ELSE StopAudioInput(pg)

StopAudioLipsync(pg) == IF pg.accents THEN [pg EXCEPT !.worklet = FALSE] ELSE StopAudioInput(pg)

\* chkVoiceAccents
TickVoice ==
  LET pg == [media EXCEPT !.accents = ~@] IN
  /\ IF pg.accents /\ pg.running THEN BeginTask("voice", pg, <<"voice">>)
     ELSE ClickOnly(StopVoiceAccents(pg))
  /\ UNCHANGED missed

\* chkAudioLipsync
TickLipsync ==
  LET pg == [media EXCEPT !.lipsync = ~@] IN
  /\ IF pg.lipsync /\ pg.running THEN BeginTask("lipsync", pg, <<"lipsync">>)
     ELSE ClickOnly(StopAudioLipsync(pg))
  /\ UNCHANGED missed

\* getUserMedia resolves: the input is built and replaces what state.voice held.
MicGranted(t) ==
  LET stream == <<t, Head(tasks[t].todo)>>
      pg == [media EXCEPT !.voice = stream, !.worklet = FALSE]
  IN  /\ tasks[t].await = "mic"
      /\ Proceed(t, pg, tasks[t].todo, live \cup {stream})
      /\ UNCHANGED missed

\* The handler goes on without a microphone; both settings are switched off.
AudioFails(t) ==
  LET own == <<t, Head(tasks[t].todo)>>
      pg == HandleAudioInputError(media)
  IN  Proceed(t, pg, Tail(tasks[t].todo), Released(pg) \ {own})

MicRefused(t) == tasks[t].await = "mic" /\ AudioFails(t) /\ UNCHANGED missed

\* addModule resolves: the node is made in whatever context state.voice has now;
\* only the one the module was added to takes it.
WorkletLoaded(t) ==
  /\ tasks[t].await = "worklet"
  /\ IF media.voice # None /\ media.voice = tasks[t].input
     THEN Proceed(t, [media EXCEPT !.worklet = TRUE], Tail(tasks[t].todo), live)
     ELSE AudioFails(t)
  /\ UNCHANGED missed

WorkletFails(t) == tasks[t].await = "worklet" /\ AudioFails(t) /\ UNCHANGED missed
-----------------------------------------------------------------------------
\* Start, stop and the camera.

ClickStart ==
  /\ media.startEnabled
  /\ BeginTask("start", [media EXCEPT !.startEnabled = FALSE],
           (IF media.face THEN <<>> ELSE <<"models", "firstHand">>) \o CameraSteps)
  /\ UNCHANGED missed

\* Mutant: Stop keeps the microphone.
ClickStopKeepsMic ==
  /\ media.stopEnabled
  /\ ClickOnly([media EXCEPT !.running = FALSE, !.sessions = {}, !.src = None,
                             !.startEnabled = TRUE, !.stopEnabled = FALSE])
  /\ UNCHANGED missed

ClickStop ==
  /\ media.stopEnabled
  /\ ClickOnly([StopAudioInput(media) EXCEPT !.running = FALSE, !.sessions = {}, !.src = None,
                                         !.startEnabled = TRUE, !.stopEnabled = FALSE])
  /\ UNCHANGED missed

\* selCamera, selCameraFacing, selResolution, selFps: restartCameraIfRunning.
ChangeCamera(mode) ==
  /\ LET pg == [media EXCEPT !.mode = mode]
     IN  IF media.running THEN BeginTask("restart", pg, CameraSteps) ELSE ClickOnly(pg)
  /\ UNCHANGED missed

\* Mutant: the file set of the models is not kept.
ModelsLoadedWithoutFileset(t) ==
  /\ tasks[t].await = "models"
  /\ Proceed(t, [media EXCEPT !.face = TRUE], Tail(tasks[t].todo), live)
  /\ UNCHANGED missed

\* loadModels: the face model first, then the hand model if hands are tracked.
ModelsLoaded(t) ==
  LET pg == [media EXCEPT !.face = TRUE, !.fileset = ~(media.hands /\ ~media.handModel)] IN
  /\ tasks[t].await = "models"
  /\ Proceed(t, pg, Tail(tasks[t].todo), live)
  /\ UNCHANGED missed

ModelsFail(t) ==
  /\ tasks[t].await \in {"models", "firstHand"}
  /\ Abort(t, media, live)
  /\ missed' = (missed \/ tasks[t].await = "firstHand")

FirstHandLoaded(t) ==
  /\ tasks[t].await = "firstHand"
  /\ Proceed(t, [media EXCEPT !.handModel = TRUE, !.fileset = TRUE], Tail(tasks[t].todo), live)
  /\ UNCHANGED missed

CameraGranted(t) ==
  /\ tasks[t].await = "stream"
  /\ Proceed(t, [media EXCEPT !.src = <<t, "camera">>], Tail(tasks[t].todo),
             live \cup {<<t, "camera">>})
  /\ UNCHANGED missed

CameraRefused(t) ==
  /\ tasks[t].await = "stream"
  /\ Abort(t, media, live)
  /\ UNCHANGED missed

\* waitForVideoMetadata and startVideoPlayback: any stream the element has will do.
MetadataArrives(t) ==
  /\ tasks[t].await = "metadata" /\ media.src # None
  /\ Proceed(t, media, Tail(tasks[t].todo), live)
  /\ UNCHANGED missed

\* ... or 8 s have passed, or playback is refused.
MetadataTimesOut(t) ==
  LET own == <<t, "camera">> IN
  /\ tasks[t].await = "metadata"
  /\ Abort(t, [media EXCEPT !.src = IF @ = own THEN None ELSE @], live \ {own})
  /\ UNCHANGED missed

\* configureCameraQualityControls and refreshCameras.
ControlsSet(t) ==
  /\ tasks[t].await = "controls"
  /\ Proceed(t, media, Tail(tasks[t].todo), live)
  /\ UNCHANGED missed
-----------------------------------------------------------------------------
\* chkHands
TickHands ==
  LET pg == [media EXCEPT !.hands = ~@] IN
  /\ BeginTask("hands", pg, <<"hands">>)
  /\ missed' = (missed \/ (pg.hands /\ ~pg.running /\ ~pg.handModel /\ media.face))

HandLoaded(t) ==
  /\ tasks[t].await = "hand"
  /\ Proceed(t, [media EXCEPT !.handModel = TRUE], Tail(tasks[t].todo), live)
  /\ UNCHANGED missed

HandFails(t) ==
  /\ tasks[t].await = "hand"
  /\ Abort(t, media, live)
  /\ missed' = TRUE

\* applySituation: the settings at once, then the hand model, the microphone and the
\* camera, each only if the situation changes it.
ApplySituation(situation) ==
  LET pg == [media EXCEPT !.lipsync = situation.lipsync, !.hands = situation.hands,
                          !.mode = situation.mode] IN
  /\ BeginTask("situation", pg, <<"hands", "audio", "recamera">>)
  /\ missed' = (missed \/ (pg.hands /\ ~pg.running /\ ~pg.handModel /\ pg.face))

SituationAudio(t) ==
  /\ tasks[t].await = "turn" /\ Head(tasks[t].todo) = "audio"
  /\ IF media.lipsync = tasks[t].lipsyncBefore
     THEN Proceed(t, media, Tail(tasks[t].todo), live)
     ELSE IF media.lipsync /\ media.running
     THEN Proceed(t, media, <<"lipsync">> \o Tail(tasks[t].todo), live)
     ELSE Proceed(t, StopAudioLipsync(media), Tail(tasks[t].todo),
                  Released(StopAudioLipsync(media)))
  /\ UNCHANGED missed

SituationCamera(t) ==
  /\ tasks[t].await = "turn" /\ Head(tasks[t].todo) = "recamera"
  /\ IF media.mode # tasks[t].modeBefore /\ media.running
     THEN Proceed(t, media, CameraSteps, live)
     ELSE Proceed(t, media, <<>>, live)
  /\ UNCHANGED missed

\* btnResetSettings
ResetSettings ==
  /\ ClickOnly([StopAudioInput(media) EXCEPT !.accents = FALSE, !.lipsync = FALSE,
                                         !.hands = FALSE, !.mode = DefaultMode,
                                         !.sessions = {}])
  /\ UNCHANGED missed

\* startGuidedCalibration, startGazeCalibration, startHandCalibration: the button is
\* disabled while its session runs.
StartCalibration(c) ==
  /\ NoTurn /\ media.running /\ c \notin media.sessions
  /\ c = "hand" => media.hands
  /\ media' = [media EXCEPT !.sessions = @ \cup {c}]
  /\ UNCHANGED <<tasks, live, missed>>

\* tickGuidedCalibration ...: the loop ends a session when its time is over.
FinishCalibration(c) ==
  /\ NoTurn /\ media.running /\ c \in media.sessions
  /\ media' = [media EXCEPT !.sessions = @ \ {c}]
  /\ UNCHANGED <<tasks, live, missed>>
-----------------------------------------------------------------------------
\* What the browser answers sooner or later; metadata need not come.
Settles(t) ==
  \/ ModelsLoaded(t) \/ ModelsFail(t) \/ FirstHandLoaded(t)
  \/ CameraGranted(t) \/ CameraRefused(t) \/ MetadataTimesOut(t) \/ ControlsSet(t)
  \/ MicGranted(t) \/ MicRefused(t) \/ WorkletLoaded(t) \/ WorkletFails(t)
  \/ HandLoaded(t) \/ HandFails(t) \/ SituationAudio(t) \/ SituationCamera(t)

MediaNext ==
  \/ ClickStart \/ ClickStop \/ (\E mode \in CameraModes : ChangeCamera(mode))
  \/ TickVoice \/ TickLipsync \/ TickHands \/ ResetSettings
  \/ \E situation \in Situations : ApplySituation(situation)
  \/ \E c \in Calibrations : StartCalibration(c) \/ FinishCalibration(c)
  \/ \E t \in TaskIds : Settles(t) \/ MetadataArrives(t)

MediaSpec == MediaInit /\ [][MediaNext]_mediaVars
-----------------------------------------------------------------------------
\* No stray track: a camera or microphone stream that was asked for without any other
\* click in between is held by the page as long as it is live; it is live only while
\* the page tracks or the task that asked for it goes on, and the microphone stays
\* only while a setting wants it, unless a situation failed half way or tasks
\* overlapped (btnStop, startCamera, ensureAudioInput and their errors).
TracksAreHeld ==
  LET held == {media.src, media.voice} \ {None}
      clean == {t \in TaskIds : ~tasks[t].overlapped}
  IN  /\ \A s \in live : s[1] \in clean => s \in held
      /\ \A s \in held : s \in live /\ (s[1] \in clean => media.running \/ s[1] \in Unfinished)
      /\ (/\ Unfinished = {} /\ clean = TaskIds /\ media.voice # None
          /\ \A t \in TaskIds : ~(tasks[t].kind = "situation" /\ tasks[t].failed))
           => media.accents \/ media.lipsync
      /\ media.sessions # {} => media.running

\* Hand tracking has its model: while the page tracks with hands on and nothing is under
\* way the model is there, unless a load failed or hands were switched on while stopped
\* with the face model loaded (loadModels is not called again).
HandsHaveModel ==
  (media.running /\ media.hands /\ Unfinished = {} /\ ~missed) => media.handModel

\* What the page holds is what its settings and buttons say.
DevicesFollowPage == TracksAreHeld /\ HandsHaveModel

\* Pressing Start ends: the page tracks or Start can be pressed again, though a camera
\* may never report its metadata (waitForVideoMetadata never hangs).
StartEnds == (~media.startEnabled /\ ~media.running) ~> (media.startEnabled \/ media.running)
=============================================================================
