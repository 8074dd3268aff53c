SPECIFICATION Spec
CONSTANTS
  Publishers = {p1, p2}
  Subscribers = {u1}
  Capacity = 2
  MaxFrames = 5

PROPERTY NewestOnlyPerParticipant
CHECK_DEADLOCK FALSE
