SPECIFICATION CliFairSpec
CONSTANTS
  Proc = {p1, p2}
  Path = {configPath, apiPath}
  configPath = configPath
  apiPath = apiPath
  StdioBuf = 10
  LineMax = 5
  MaxJunk = 0
  MaxRuns = 2
  NL = "nl"
  NUL = "nul"
  Absent = Absent
  Unknown = Unknown
  HELP = HELP
  CONFIG = CONFIG
  REFRESH = REFRESH
  SEP = "="
  Blank <- MCBlank
  Rank <- MCRank
  KEY_URL <- MCUrl
  KEY_USERPASS <- MCUserpass
  KEY_HELP <- MCHelpKey
  ValidUrl <- MCValidUrl
  Commands <- MCAllCommands
  Groups <- SavedGroups
  Apis <- MCSmallApis
PROPERTIES EveryRunEnds FileSpec
CHECK_DEADLOCK FALSE
