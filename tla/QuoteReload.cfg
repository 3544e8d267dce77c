CONSTANTS
  Tickers = {"t"}
  Held = {"t"}
  Portfolio = "portfolio"
  Versions = {"v1", "v2"}
  Rules <- MCOneRule
  Broken = "broken"
  Edits <- MCAnyEdit
  Saves = {"in place"}
  HasChannels = TRUE
  Moving = {}
  MaxAge <- MCMaxAgeOne
  MaxCount = 1
  MaxFaults = 0
  MaxStops = 0
SPECIFICATION FairSpec
PROPERTIES
  SavedIsInForce
