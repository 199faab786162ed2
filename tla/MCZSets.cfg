SPECIFICATION Spec
CONSTANTS
  Key = {k1}
  String <- MCStrings
  Score <- MCScore
  Family = {"String", "ZSet", "Script"}
  Clock <- MCClock
  Seconds <- MCSeconds
  Millis <- MCMillis
  Index <- MCIndex
  MaxMods = 3
  MaxArgs = 2
INVARIANTS ZSetIndexesAgree RangesAgree RankIsPosition
CHECK_DEADLOCK FALSE
