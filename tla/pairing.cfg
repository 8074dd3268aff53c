SPECIFICATION Spec
CONSTANTS
  Rooms = {r1, r2}
  Tokens = {t1, t2, t3}
  Clients = {desk}
  Desktop = desk
  NoRoom = NoRoom
  NoToken = NoToken
  StaticToken = StaticToken
  HasStaticToken = FALSE
  RequestedTtls <- MCTtls
  MinTtl = 1
  MaxTtl = 3
  MintLimit = 1
  MintWindow = 2
  MaxTime = 3
  KeyboardShortcut = FALSE
INVARIANTS DroppedTokensAreDead MintBudget RelayAgreesWithPanel
PROPERTIES DeadTokensArePurged ExpiredQrIsWithdrawn
CHECK_DEADLOCK FALSE
