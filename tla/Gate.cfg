CONSTANTS
  Ascii = {"a", "A", "b", " "}
  WordChars = {"a", "b"}
  LowerCase <- MCLower
  Space = " "
  FirstParty = {"juchao"}
  AlwaysCritical = {"juchao"}
  SentimentRule = TRUE
  GrayLow = 40
  GrayHigh = 70
  Watchlists <- MCWatchlists
  Articles <- MCArticles
  Answers <- MCAnswers
  Ceiling = 5
  CallCosts = {1}
  PricedModels = {"deepseek", "haiku"}
  Tier2Model = "claude"
  CheapModel = "deepseek"
  ClaudeModels = {"claude"}
  HasAnthropic = FALSE
  HasBark = TRUE
  Throttle = 1
  DayLength = 2
  MaxClock = 3
  MaxCrashes = 1
  None = None
SPECIFICATION Spec
INVARIANTS
  EachLifeOneCeiling
  WarnedInTime
  NamedInMarkets
  FindsWhatIsMentioned
  RulesOnlyFate
