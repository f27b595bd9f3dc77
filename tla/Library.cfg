CONSTANTS
  NoFrame = NoFrame
  Unmapped = Unmapped
  NumBuffers = 3
  MaxFrames = 6
  MaxStarts = 2
  MaxSets = 2
  LogLength = 4
  MaxEntries = 3
  Positions = {0, 4}
  Windows = {6, 9}
  Shares <- MCShares
  Sizes = {2}
  Offsets = {0}
  Durations = {0, 2}
  MaxTime = 3
  MaxCommands = 2
  MaxChanges = 3
  None = None
  SceneObjects = 3
  ParamNames = {"a", "b"}
  ParamListeners = {"l1"}
  ParamInitials = {0}
  ParamValues = {0, 1}
  ParamRanges <- MCRanges
  ParamRows <- MCRows
  MaxWidgets = 2
  MaxCalls = 2
  Drivers = {"pgusb", "tcp"}
  SourceUrls <- MCUrls
  UrlFeatures = {"gain", "shutter"}
  NumberOf <- MCNumberOf
  MaxValue = 7
  RemoteBuffers = {b1, b2}
  RemoteResources = {1, 2}
  RemoteFrames <- MCRemoteFrames
  SentFrames = 2
  WireSize = 2
SPECIFICATION LibrarySpec
CHECK_DEADLOCK FALSE
 
PROPERTY SourcesDeliver
INVARIANT SettingsHold
INVARIANT ResultsAreRight
PROPERTY ReadsWhatIsThere
PROPERTY SavedComesBack
INVARIANT DrawnAsBuilt
INVARIANT ViewerKeepsUp
PROPERTY CameraArrives
