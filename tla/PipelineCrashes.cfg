CONSTANTS
  Raws = {1, 2, 3}
  Markets = {"cn", "us"}
  MarketOf <- MCAllCn
  Channels <- MCOneEach
  RulesEnabled = TRUE
  LlmEnabled = TRUE
  BatchSize = 2
  DigestCap = 2
  FailPoints = {"mark"}
  MaxFaults = 1
  MaxCrashes = 1
SPECIFICATION Spec
INVARIANTS
  TypeOK
  OnePath
  AtMostOncePush
  AnnouncedIsProcessed
  OrphansNeedInterruption
  OnlyOverflowIsLost
PROPERTIES
  StatusFinal
  ImplementsLifecycle
