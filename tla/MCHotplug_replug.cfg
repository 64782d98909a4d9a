\* Unplugged and plugged again between two dispatches.
SPECIFICATION FairSpec
CONSTANTS
  Node = {n1}
  MaxIncarnation = 2
  MaxFd = 4
  MaxDev = 6
  None = None
PROPERTIES PluggedIsOpened
