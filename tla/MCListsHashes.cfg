SPECIFICATION Spec
CONSTANTS
  Key = {k1}
  String <- MCTwoStrings
  Score <- MCScore
  Family = {"String", "Expiry", "List", "Hash", "Partial"}
  Clock <- MCClock
  Seconds <- MCSeconds
  Millis <- MCMillis
  Index <- MCIndex
  MaxMods = 2
  MaxArgs = 2
INVARIANTS TypeOK RangesAgree
PROPERTIES AcknowledgedChangeCounted RemovedInTime
CHECK_DEADLOCK FALSE
