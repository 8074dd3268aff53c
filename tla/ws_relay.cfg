SPECIFICATION Spec
CONSTANTS
  Rooms = {r1}
  Tokens = {t1, t2}
  Clients = {desk}
  NoRoom = NoRoom
  NoToken = NoToken
  StaticToken = StaticToken
  HasStaticToken = FALSE
  RequestedTtls <- MCTtls
  MinTtl = 1
  MaxTtl = 1
  MintLimit = 1
  MintWindow = 1
  MaxTime = 1
  Sockets = {s1, s2}
  MaxFrame = 2
  MaxBuffered = 0
INVARIANTS RoomIndexExact
PROPERTIES ClosedRoomGainsNoStranger DeadPeersLeave ShutdownEnds
CHECK_DEADLOCK FALSE
