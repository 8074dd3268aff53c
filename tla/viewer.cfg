SPECIFICATION MCSpec
CONSTANTS
  SeqModulus = 4
  NoSeq <- NullSeq
  Participants = {1, 2}
  Expiry = 2
  MaxParticipants = 1
  MaxGenerations = 2
  Limits <- MCLimits
  MaxRevision = 3
  MaxPages = 3
  Recordings <- Recordings3
  Hundredth = 3
  Shortest = 3
  TrimMarks <- Marks
  MaxFiles = 2
  MaxPlays = 2
  EndOfTime = 6
  FaceValues <- WireValues
  HandCounts = {0, 1, 2, 3}
  MaxI16 = 3
  MaxU8 = 3
  SeqRange = 4
  FrameSeqs = {3, 5}
  Payloads = {0, 2}
  SenderIds = {1, 2}
  SentTimes = {0, 1, 3}
  FadeTime = 3
  Slots = 1
  NoBlock = NoBlock
  Refused = Refused
  MaxRecords = 2
  AutoEvery = 2
  MaxCaptures = 5
  LastInstant = 5
  MaxLines = 3
  MaxMotionFrames = 2
  Coordinates = {0, 99, 101}
  BoxPadding = 1
  Invalid = Invalid
  Rooms = {"odd", NoText}
  GoodRooms = {"stage"}
  Tokens = {"t", "u"}
  NoText = NoText
  DefaultRoom = "demo"
  MaxActs = 4
  VrmAvatars <- Vrms
  InochiAvatars <- Inochis
  PerfectSyncMin = 3
  OtherScript = {"me", "kuchi"}
  UserMaps <- Maps
  Broken = Broken
  Idle = Idle
INVARIANTS RoomIsOwned PickedFileArrives RecordingIsReplayed WireKeepsFrames SamplesAreKept ReadersAgree PairingTokenIsNotStored LinkKeepsItsMeaning MapFitsAvatar
PROPERTIES PoseNeverGoesBack RenderShowsOneBody SilentParticipantLeaves
CHECK_DEADLOCK FALSE
