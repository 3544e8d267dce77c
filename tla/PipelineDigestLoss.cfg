CONSTANTS
  Raws = {1, 2}
  Markets = {"cn", "us"}
  MarketOf <- MCAllCn
  Channels <- MCOneEach
  RulesEnabled = FALSE
  LlmEnabled = TRUE
  BatchSize = 2
  DigestCap = 1
  FailPoints = {}
  MaxFaults = 0
  MaxCrashes = 0
SPECIFICATION Spec
INVARIANTS
  NoDigestRowLost
