\* Three slots, of which the table has two; scales 0.18 and 0.02.
SPECIFICATION Spec
CONSTANTS
  HwSlots <- ThreeSlots
  Positions <- Diagonal
  MaxChanges = 2
  NumSlots = 2
  Den = 50
  MotionScales <- One
  ScrollScale = 1
  MaxAstray = 1
  None = None
INVARIANTS MotionInv NothingLostByRounding SlotTableAgrees MovesWithOldest
PROPERTIES PinchIsMeasured
