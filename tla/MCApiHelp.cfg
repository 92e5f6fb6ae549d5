SPECIFICATION HelpSpec
CONSTANTS
  Char <- MCChar
  Texts <- MCTexts
  Rank <- MCRank
  LineMax = 6
INVARIANTS CursorsInBounds UnreadIntact HelpParsed CacheKeepsApi
CHECK_DEADLOCK FALSE
