SPECIFICATION Spec
CONSTANTS
  k1 = k1
  k2 = k2
  Keyboards <- TwoKeyboards
  Keys <- ChordAndAlt
  BatchSize = 2
  QueueBound = 2
  DwtTimeout = 1
  None = None
INVARIANTS KeysInv TypingIsLatest
PROPERTIES ResetNeedsChord
