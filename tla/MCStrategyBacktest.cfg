SPECIFICATION StrategySpec
CONSTANTS
  None = None
  Inputs <- MCInputs
  Intents <- MCIntents
  Strategies <- MCStrategies
  Contexts <- MCContexts
  Duration = 5
  InitialEquity = 100
  FeeBps = 100
  SlippageBps = 500
  Tick = 2
  QuantityStep = 2
  MinQuantity = 2
  MinNotional = 8
INVARIANTS
  TradesAreTheStrategys
  CountsReconcile
