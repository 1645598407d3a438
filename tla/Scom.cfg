SPECIFICATION ScomSpec
CONSTANTS
  NumPages = 2
  MaxRules = 1
  Granula = 2
  MaxWorkers = 4
  NumHelpers = 1
  HostDelay = 1
  HostTimeout = 1
  MaxTime = 2
  MaxFaults = 1
  NumRulePages = 3
  RuleLists <- MCRuleLists
  SimpleRules <- MCSimpleRules
  LinkEntities <- MCEntities
  DefaultPorts <- MCDefaultPorts
  Answers <- MCAnswers
  Charsets <- MCCharsets
  Entities <- MCEntities
  ScomHost <- MCScomHost
  BodySizeMax = 1
INVARIANTS
  PendingIsLoaded
  CacheTruthful
  WorkersAccounted
  LoadsExact
PROPERTIES
  HostPolite
  StopReturns
  UnlimitedRulesExact
CHECK_DEADLOCK FALSE
