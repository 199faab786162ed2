SPECIFICATION Spec
CONSTANTS
  Key = {k1, k2}
  String <- MCTwoStrings
  Score <- MCScore
  Family = {"String", "Set", "Script"}
  Clock <- MCClock
  Seconds <- MCSeconds
  Millis <- MCMillis
  Index <- MCIndex
  MaxMods = 2
  MaxArgs = 2
INVARIANT SetAlgebra
PROPERTY AcknowledgedChangeCounted
CHECK_DEADLOCK FALSE
