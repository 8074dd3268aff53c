SPECIFICATION Spec
CONSTANTS
  Publishers = {p1}
  Subscribers = {u1}
  Capacity = 2
  MaxFrames = 5

PROPERTY NewestQueuedIsSent
CHECK_DEADLOCK FALSE
