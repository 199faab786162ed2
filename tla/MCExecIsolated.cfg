SPECIFICATION Spec
CONSTANTS
  k1 = k1  k2 = k2  c1 = c1  c2 = c2
  Client = {c1, c2}
  Key = {k1}
  Served = {k1}
  String <- MCString
  Score <- MCScore
  Request <- MCSetDel
  MaxRequests = 5
  MaxNow = 1
CHECK_DEADLOCK FALSE
PROPERTY ExecIsolated
