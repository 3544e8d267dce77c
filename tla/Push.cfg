CONSTANTS
  Tickers = {"t", "u"}
  ChannelDefs <- MCChannels
  SecretsFiles <- MCSecrets
  AlertKey <- MCAlertKey
  Messages <- MCMessages
  Window = 1
  Threshold = 1
  MaxAttempts = 2
  FailThreshold = 2
  FailWindow = 4
  Period = 2
  Throttle = 1
  MaxClock = 5
  MaxMessages = 2
  MaxDisturbances = 1
SPECIFICATION Spec
INVARIANTS
  BurstBound
  ResultsAreTrue
  NoCrossTalk
  FailuresAreNoticed
PROPERTIES
  SuppressedInBurst
CHECK_DEADLOCK FALSE
