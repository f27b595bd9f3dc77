CONSTANTS
  Ids = {s1, s2}
  MaxCalls = 3
  Faults = {"lost", "noise", "corrupt", "truncated"}
  UnwrittenSum = FALSE
  None = None
  NoData = NoData
  NoFrame = NoFrame
  MaxServoCalls = 4
  Interval = 2
  Growth = 1
  Limit = 3
  Unknown = 99
  Ahead0 = 7
  XidCount = 8
  MaxTime = 5
  MaxLine = 1
  MaxCommands = 3
  MaxPolls = 2
  Revolution = 3
  SampleSize = 2
  MaxBytes = 16
  NumImages = 3
  NumTransfers = 2
  TransferSize = 2
  FrameSize = 3
  PacketMax = 2
  PacketUnit = 1
  MaxUsbFrames = 3
  MaxStarts = 2
  MaxLent = 2
  Word = 8
  MessageLength = 13
  MaxTcpFrames = 6
  MaxConnections = 3
SPECIFICATION RobotSpec
CHECK_DEADLOCK FALSE
INVARIANT NoStaleHeader
INVARIANT AnswersItsRequest
PROPERTY KeepsPromise
PROPERTY EepromSpared
 
INVARIANT BytesStayTogether
PROPERTY WaitsEnd
PROPERTY FramesLentSoundly
