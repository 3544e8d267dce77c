CONSTANTS
  Enabled = {"xueqiu", "wallstreetcn", "sec_edgar"}
  CnTickers = {"600519"}
  Ciks = {}
  Articles = {1, 2}
  NoArticle = NoArticle
  Pub <- MCPub
  Shows <- MCShows
  Absent <- MCAbsent
  Broken <- MCBroken
  Hour = 1
  Near <- MCNear
  Lookback = 2
  Window = 0
  Pause = 1
  MaxClock = 1
  MaxFaults = 2
SPECIFICATION FairSpec
INVARIANTS
  TypeOK
  WatermarkCovers
  NearDuplicatesNeedTwoSources
PROPERTIES
  WatermarkAdvances
  RestIsKept
  FeedDrains
