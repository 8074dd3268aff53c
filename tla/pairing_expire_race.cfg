SPECIFICATION Spec
CONSTANTS
  Rooms = {r1, r2}
  Tokens = {t1, t2, t3}
  Clients = {desk}
  Desktop = desk
  NoRoom = NoRoom
  NoToken = NoToken
  StaticToken = StaticToken
  HasStaticToken = FALSE
  RequestedTtls <- MCTtls
  MinTtl = 1
  MaxTtl = 2
  MintLimit = 2
  MintWindow = 2
  MaxTime = 2
  KeyboardShortcut = TRUE
INVARIANT DroppedTokensAreDead
CHECK_DEADLOCK FALSE
