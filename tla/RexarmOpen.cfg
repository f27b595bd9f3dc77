CONSTANTS
  Capacity = 1
  Lossy = TRUE
  NumServos = 2
  Circle = 4
  MinAngle = 0
  MaxAngle = 1
  FullScale = 1
  ByteBits = 1
  ByteBase = 2
  Second = 1
  PowerOnRaw = {0, 1}
  FreedBytes = {0}
  CommandLists <- MCCommandLists
SPECIFICATION Spec
INVARIANT TypeOK
INVARIANT BusExclusive
INVARIANT NewestListInForce
INVARIANT ResentEverySecond
PROPERTY SnapshotUnderOneGoal
