SPECIFICATION Spec
CONSTANTS
  Key <- MCKey
  String <- MCString
  Score <- MCScore
  Text <- MCText
  Begin <- MCBegin
  Room <- MCRoom
  daemon = daemon  client = client
  Saver = {daemon, client}
  FileBuf = 20
  Now = 1
  Ttl = 5
  MaxOps = 1
SYMMETRY SaverSymmetry
INVARIANTS RoundTrip TornFileIsPart NothingInvented
