SPECIFICATION Spec
CONSTANTS
  Reply <- MCReply
  Typed <- MCTyped
  KEYS <- MCKEYS
  INFO <- MCINFO
  Dollar <- MCDollar
  Colon <- MCColon
  NUL = "NUL"
  BUFFER_SIZE = 26
  Margin = 6
  SockBuf = 34
  MaxSent = 1
  MaxConns = 1
INVARIANT PartsAreWaitedFor
CHECK_DEADLOCK FALSE
