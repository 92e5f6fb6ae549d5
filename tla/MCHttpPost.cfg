SPECIFICATION HttpFairSpec
CONSTANTS
  Byte <- MCByte
  BufSize = 4
  SndBuf = 3
  Replies <- MCReplies
  Requests <- MCRequests
  Terms <- MCTerms
  MaxWant = 3
  MaxSent = 4
  Term <- MCTerm
  ReqHeader <- MCReqHeader
  ReqBody <- MCReqBody
  LengthField <- MCLength
INVARIANTS HttpTypeOK ResponseIsTheBody FailureExplained DescriptorReleased RequestIntact
PROPERTIES Terminates KeepsProtocol ImplementsExchange
CHECK_DEADLOCK FALSE
