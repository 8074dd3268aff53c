SPECIFICATION Spec
CONSTANTS
  Publishers = {p1}
  Subscribers = {u1, u2}
  Capacity = 2
  MaxFrames = 5
INVARIANTS FramesAccounted
PROPERTIES FeedImplemented
CHECK_DEADLOCK FALSE
