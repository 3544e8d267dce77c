CONSTANTS
  Raws = {1, 2}
  Markets = {"cn", "us"}
  MarketOf <- MCMixed
  Channels <- MCOnlyCn
  RulesEnabled = TRUE
  LlmEnabled = FALSE
  BatchSize = 1
  DigestCap = 1
  FailPoints = {"next", "log", "digest"}
  MaxFaults = 2
  MaxCrashes = 0
SPECIFICATION FairSpec
INVARIANTS
  LogMatchesPushes
  DigestRepeatsNeedInterruption
PROPERTIES
  PendingDrains
  BufferDrains
