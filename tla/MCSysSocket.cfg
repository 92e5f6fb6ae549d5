SPECIFICATION SockSpec
CONSTANTS
  Byte <- MCByte
  BufSize = 3
  SndBuf = 2
  Replies <- MCReplies
  Requests <- MCRequests
  Terms <- MCTerms
  MaxWant = 4
  MaxSent = 3
INVARIANTS SockTypeOK StreamIntegrity NoOverRead
PROPERTY ImplementsByteStream
CHECK_DEADLOCK FALSE
