SPECIFICATION FairSpec
CONSTANTS
  k1 = k1  k2 = k2  c1 = c1  c2 = c2
  Client = {c1, c2}
  Key = {k1, k2}
  Served <- MCServed
  String <- MCString
  Score <- MCScore
  Request <- MCRequest
  MaxRequests = 4
  MaxNow = 2
CHECK_DEADLOCK FALSE
INVARIANTS TypeOK TransactionShape
PROPERTIES WatchSound RoutedOutsideExec CommandsComplete
