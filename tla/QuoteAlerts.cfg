CONSTANTS
  Tickers = {"t","u"}
  Held = {"t"}
  Portfolio = "portfolio"
  Versions = {"v1", "v2", "v3"}
  Rules <- MCBurst
  Broken = "broken"
  Edits <- MCTurns
  Saves = {"in place"}
  HasChannels = TRUE
  Moving <- MCMoving
  MaxAge <- MCMaxAge
  MaxCount = 1
  MaxFaults = 1
  MaxStops = 1
SPECIFICATION Spec
PROPERTIES
  CooldownKept
  ImplementsContract
