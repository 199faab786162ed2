SPECIFICATION FairSpec
CONSTANTS
  Interval <- MCInterval
  MaxInterval = 3
  Counts <- MCCounts
INVARIANT WorkerWhileRunning
PROPERTIES StopReturns ImplementsSaver
