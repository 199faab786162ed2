SPECIFICATION FairSpec
CONSTANTS
  Reply <- MCReply
  Typed <- MCTyped
  KEYS <- MCKEYS
  INFO <- MCINFO
  Dollar <- MCDollar
  Colon <- MCColon
  NUL = "NUL"
  BUFFER_SIZE = 26
  Margin = 6
  SockBuf = 34
  MaxSent = 3
  MaxConns = 2
INVARIANTS TypeOK ParserIsExact RoomLeft HandledExactly ShownInOrder OwnReply
PROPERTY NoCommandStuck
CHECK_DEADLOCK FALSE
