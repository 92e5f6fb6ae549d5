SPECIFICATION RequestSpec
CONSTANTS
  UrlChar <- MCUrlChar
  Urls <- MCUrls
  Scheme <- MCScheme
  MaxPort = 31
  LongMax = 127
  Char <- MCChar
  QUOTE = "quote"
  BACKSLASH = "backslash"
  Control = {"newline"}
  Escape <- MCEscape
  Groups <- MCGroups
  InitialCapacity = 4
  Cases <- MCCases
INVARIANTS ConnectsAsWritten NoOverrun PlainRequestIsJson
CHECK_DEADLOCK FALSE
