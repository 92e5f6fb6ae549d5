SPECIFICATION HttpSpec
CONSTANTS
  Byte <- MCByte
  BufSize = 4
  SndBuf = 4
  Replies <- MCReplies
  Requests <- MCRequests
  Terms <- MCTerms
  MaxWant = 3
  MaxSent = 4
  Term <- MCTerm
  ReqHeader <- MCReqHeader
  ReqBody <- MCReqBody
  LengthField <- MCLength
INVARIANT CompleteReplyIsShown
CHECK_DEADLOCK FALSE
