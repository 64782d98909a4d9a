\* Up to three fingers, writes that fail, DWT and taps on.
SPECIFICATION Spec
CONSTANTS
  MaxFingers = 3
  Clicks <- Left
  Axes <- X
  TapTimeout = 1
  DwtTimeout = 1
  tap_to_click = TRUE
  disable_while_typing = TRUE
  EmitMayFail = TRUE
  Keyboards = {k1, k2}
  None = None
SYMMETRY KeyboardsAlike
INVARIANTS TouchpadInv
PROPERTIES ClickMatchesFingers NoTapAfterTravelOrTyping DwtStopsMotion
