SPECIFICATION Spec
CONSTANTS
  Sessions = {s1, s2, s3}
  Addresses = {a1, a2}
  Rooms = {r1, r2, r3}
  Channels = {c1, c2, c3}
  None = None
  MaxRooms = 2
  MaxSessions = 2
  MaxSessionsPerIp = 2
INVARIANTS AddressSlotsExact ParticipantsExact
PROPERTIES GoneSessionsEnd
CHECK_DEADLOCK FALSE
