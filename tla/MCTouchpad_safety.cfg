\* Fingers land and lift in any number per frame, DWT is switched at any time.
SPECIFICATION Spec
CONSTANTS
  MaxFingers = 3
  Configs <- DwtMayChange
  TapTimeout = 1
  DwtTimeout = 2
  Clicks <- LeftRight
  Axes <- XY
  None = None
INVARIANTS TouchpadInv
PROPERTIES ClickMatchesFingers NoTapAfterTravelOrTyping DwtStopsMotion
