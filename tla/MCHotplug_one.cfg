\* One node plugged in up to three times, and fewer fds than it may be opened.
SPECIFICATION FairSpec
CONSTANTS
  Node = {n1}
  MaxIncarnation = 3
  MaxFd = 2
  MaxDev = 6
  None = None
INVARIANTS HotplugInv
PROPERTIES Refines DeadIsRemoved FreshNodeIsOpened
