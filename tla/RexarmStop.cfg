CONSTANTS
  Capacity = 1
  Lossy = FALSE
  NumServos = 1
  Circle = 16
  MinAngle = 0
  MaxAngle = 7
  FullScale = 1
  ByteBits = 2
  ByteBase = 4
  Second = 1
  PowerOnRaw = {3}
  FreedBytes = {}
  CommandLists <- MCStopAt3
SPECIFICATION Spec
PROPERTY NoServoMoves
