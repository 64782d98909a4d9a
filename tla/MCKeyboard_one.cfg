\* One keyboard, two keys: the interleavings of two keys of one stream, and
\* liveness under FairSpec.
SPECIFICATION FairSpec
CONSTANTS
  Keyboard = {kbd1}
  Key = {a, b}
  None = None
  RepeatDelay = 2
  RepeatInterval = 1
  DwtTimeout = 1
  BatchMax = 2
  QueueBound = 3
INVARIANTS KeyboardInv ClientCatchesUp
PROPERTIES Refines NoStuckKey UnpluggedIsRemoved AutorepeatedKeyRepeats
