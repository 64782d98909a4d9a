\* A keyboard and a pointer, plugged in up to three times in all.
\* Once everything is unplugged the daemon waits in poll() for ever.
CHECK_DEADLOCK FALSE
SPECIFICATION FairSpec
CONSTANTS
  Keyboards = {k1}
  Pointers = {p1}
  Unregistrable = {p1}
  BatchSize = 2
  QueueBound <- Queues
  MaxPlugs = 3
  LastPlug <- PlugsEach
  NoticeBound = 2
  Notices = Notices
  None = None
INVARIANTS TypeOK LoopInv
PROPERTIES TokenKeepsDevice DeadIsRemoved FreshNodeIsOpened SmallBacklogForwarded
