CONSTANTS
  None = None
  Callers = {c1, c2}
  MaxCalls = 4
  Sizes = {1, 2}
  MaxChanges = 3
  MaxResizes = 3
  Listeners = {l1, l2}
  Layers = {1, 2}
  Buttons = {"left", "right"}
  MaxQueued = 4
  MaxCamera = 1
  Clicks = {"p", "q"}
  Corner = "corner"
  Frames = 2
  Worlds = {10, 20}
  Names = {3}
  BufferOrders = {1, 2}
  Bogus = 9
  Users = {"user"}
  MaxMessages = 3
  Letters = {"a"}
  Space = " "
  NoCharacter = "shift"
  MaxLength = 3
  MaxLines = 1
  HistorySize = 2
  Entered <- MCEntered
  MaxKeys = 4
  MaxPrints = 1
  Handlers = {"console", "camera"}
  OrderOf <- MCOrderOf
  MenuButton = "right"
  DrawOrders = {0, 1}
  MaxEvents = 3
SPECIFICATION Spec
CHECK_DEADLOCK FALSE
INVARIANT PicturesAreWhole
PROPERTY PicturesKept
INVARIANT ReturnsWhenRun
PROPERTY InOrder
PROPERTY CallsReturn
PROPERTY ReachesUser
INVARIANT EventsGoWhereMeant
INVARIANT DisplayIsKnown
