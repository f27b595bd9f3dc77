CONSTANTS
  Clicks = {p, q}
  Corner = Corner
  Frames = 2
  None = None
SPECIFICATION Spec
CHECK_DEADLOCK FALSE
PROPERTY MaskFromTwoClicks
