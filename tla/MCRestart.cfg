SPECIFICATION Spec
CONSTANTS
  Key <- MCKey
  String <- MCString
  Score <- MCScore
  Text <- MCText
  Begin <- MCBegin
  Room <- MCRoom
  daemon = daemon  client = client
  Saver = {daemon}
  FileBuf = 20
  Now = 1
  Ttl = 5
  MaxOps = 0
PROPERTY RestartRestores
