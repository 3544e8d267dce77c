CONSTANTS
  Raws = {1, 2}
  Markets = {"cn", "us"}
  MarketOf <- MCMixed
  Channels <- MCOneEach
  RulesEnabled = FALSE
  LlmEnabled = TRUE
  BatchSize = 2
  DigestCap = 2
  FailPoints = {}
  MaxFaults = 0
  MaxCrashes = 1
SPECIFICATION FairSpec
PROPERTIES
  PendingDrains
