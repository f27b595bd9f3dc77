CONSTANTS
  Capacity = 1
  Lossy = TRUE
  NumServos = 3
  Circle = 6
  MinAngle <- MCMinAngle
  MaxAngle = 2
  FullScale = 1
  ByteBits = 1
  ByteBase = 2
  Second = 1
  PowerOnRaw = {3}
  FreedBytes = {}
  Joint1 = 1
  Joint3 = 2
  Script <- MCEveryMove
  MoveSpeed = 1
  HighTorque = 1
  CloseGripper = 2
  ExtendDelta = 1
  Error = 1
  GripError = 1
  Pause = 2
SPECIFICATION ArmSystemSpec
 
 
PROPERTY ScriptIsDone
