CONSTANTS
  Enabled = {"juchao", "sec_edgar"}
  CnTickers = {"600519"}
  Ciks = {}
  Articles = {1, 2}
  NoArticle = NoArticle
  Pub <- MCPub
  Shows <- MCShows
  Absent <- MCAbsent
  Broken <- MCBroken
  Hour = 1
  Near <- MCNoneNear
  Lookback = 2
  Window = 2
  Pause = 1
  MaxClock = 2
  MaxFaults = 0
SPECIFICATION Spec
INVARIANTS
  OnlyOlderAreSkipped
