CONSTANTS
  Tickers = {"t", "u"}
  Prices <- MCPrices
  TradingDays = {2, 3, 4, 6}
  FirstDay = 4
  LastDay = 6
  Listed <- MCListed
  Rights <- MCRights
  BarDays = 2
  Retries = 1
  Fast = 1
  Slow = 2
  SpotLists <- MCSpotLists
  TopNs = {1, 2}
  ScanThreshold = 1
  PrevCloses <- MCPrevCloses
  Series <- MCSeries
  LastPrices <- MCLastPrices
  Windows = {0, 1, 2, 3}
  MacdSpans <- MCMacdSpans
  MaxFaults = 1
  MaxCrashes = 1
SPECIFICATION Spec
INVARIANTS
  LoadReaches
  WrongCloseIsExplained
  CrossIsReal
  IndicatorsFollowPrice
  ScanListsExtremes
  LimitsAreSeen
CHECK_DEADLOCK FALSE
