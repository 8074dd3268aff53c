SPECIFICATION MCSpec
CONSTANTS
  MaxTasks = 2
  CameraModes = {1, 2}
  Situations <- Situations2
  Calibrations = {"guided"}
  None = None
  ObsSituations = {"a", "b"}
  Owned <- Owned2
  MaxClicks = 3
  MaxPushes = 2
  NoSituation = NoSituation
  MaxTime = 4
  FadeTicks = 2
  Cap = 2
  MaxDt = 2
  SeqModulus = 4
  DropWindow = 1
  DropLimit = 0
  StatsEvery = 3
  LowRate = 50
  HandsEnabled = TRUE
  Pictures <- LoopPictures
  Never = Never
  Weights = {0, 1}
  Positions = {0, 1}
  Reach = 1
  Interval = 3
  IdModulus = 2
  MaxKeyframes = 1
  MaxFrames = 3
  MaxRestarts = 1
  NoFrame = NoFrame
  Lows = 2
  Highs = 2
  Window = 2
  NoteKinds = {"on", "off", "unmapped"}
  MaxOthers = 1
  MaxNow = 5
  MaxPackets = 2
  MaxReplays = 1
  MaxBoots = 1
  Unheard = Unheard
  Cameras <- Cameras2
  Reference = "front"
  Zones <- Zones2
  Radius = 2
  Places = {3, 9, 15}
  RayErrors = {0, 2}
  Residual = 1
  MaxRayGap = 1
  MergeWindow = 2
  PairWindow = 1
  MaxSampleAge = 12
  Pauses = {0, 7}
  MaxStrokes = 2
  NoZone = NoZone
  DrumZones = {"snare", "hihat"}
  Kick = "kick"
  Rim = 1
  Skin = 2
  HitSpeed = 1
  Lift = 1
  Cooldown = 4
  Tolerance = 3
  MinSeparation = 3
  KickWindow = 4
  Intervals = {1, 2}
  MaxTake = 7
  Handedness = {"Left", "Right"}
  RawCurls = {0, 3, 6}
  MaxCurl = 6
  MaxCurlDelta = 2
  Extended = 1
  Curled = 5
  Grip = {3, 4, 5}
  Hold = 2
  FrameTimes = {1}
  StepTurns = 2
  NeutralShare = 50
  RestFaces = {100, 480}
  PeakFace = 700
  LookBias = 100
  LookReach = 400
  OpenCurl = 200
  FistCurl = 600
  MaxPasses = 2
  MaxLost = 1
  MaxEdits = 1
  Touches = {"finger"}
  Mice = {"mouse"}
  NoPass = NoPass
  Width = 6
  Catalogue <- KitCatalogue
  DefaultKit = "drums"
  MinRadius = 1
  MaxRadius = 2
  RadiusTries = {0, 2, 3}
  PreviewPlaces = {1, 3, 5}
  NoKit = NoKit
  Nowhere = Nowhere
INVARIANTS DevicesFollowPage ObsShowsSituation RecordingIsWhatWasSent DeltaOnItsBase StrikesOnce StrokesCountOnce TakeIsGradedAsPlayed StillHandIsFollowed PlacedZonesStay CalibrationFits
PROPERTY StartEnds
CHECK_DEADLOCK FALSE
