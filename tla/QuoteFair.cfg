CONSTANTS
  Tickers = {"t"}
  Held = {"t"}
  Portfolio = "portfolio"
  Versions = {"v1", "v2"}
  Rules <- MCOneRule
  Broken = "broken"
  Edits <- MCAnyEdit
  Saves = {"in place", "rename"}
  HasChannels = TRUE
  Moving <- MCMoving
  MaxAge <- MCMaxAgeOne
  MaxCount = 1
  MaxFaults = 1
  MaxStops = 1
SPECIFICATION FairSpec
PROPERTIES
  HotIsReported
  ReloadFollows
  StopEnds
  NoEditForgotten
