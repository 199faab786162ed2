SPECIFICATION FairSpec
CONSTANTS
  Fd = {f1, f2}
  Channel = {c1}
  MaxPub = 2
  MaxSubs = 2
  PipeSize = 1
INVARIANTS TypeOK NoLostWakeup RegisteredIffAlive InOrder OnlyWhileListed
PROPERTIES Delivered BlockedByStuckReader
CHECK_DEADLOCK FALSE
