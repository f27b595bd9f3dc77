CONSTANTS
  w1 = w1
  w2 = w2
  b1 = b1
  b2 = b2
  l1 = l1
  l2 = l2
  d1 = d1
  d2 = d2
  r1 = r1
  r2 = r2
  Worlds = {w1}
  Buffers = {b1}
  Layers = {l1}
  Displays = {d1}
  Resources = {r1, r2}
  None = None
  WorldOf <- MCOneWorld
  DisplayOf <- MCOwnDisplay
  Frames <- MCFrames
  JoinMidSwap = FALSE
  Leaving = {}
  LeaveEarly = FALSE
SPECIFICATION Spec
CHECK_DEADLOCK FALSE
INVARIANT SwappedFrameIsShown
