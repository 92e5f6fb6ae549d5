SPECIFICATION FileSpec
CONSTANTS
  Proc = {p1, p2}
  Path = {file}
  StdioBuf = 7
  LineMax = 6
  MaxJunk = 1
  NL = "nl"
  NUL = "nul"
  Absent = Absent
  Unknown = Unknown
  SEP = "="
  Blank <- MCBlank
  Rank <- MCRank
  Groups <- MCGroups
INVARIANTS FileTypeOK FileHoldsTheSave LoadReturnsTheSave
  LoadsOneSave
SYMMETRY MCSymmetry
CHECK_DEADLOCK FALSE
