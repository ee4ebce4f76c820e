SPECIFICATION ExperimentSpec
CONSTANTS
  Symbols = {"volatile", "calm", "pair"}
  StartingEquity = 20
  Notionals = {8}
  Profits <- MCSwings
  MaxGross = 100
  MaxAsset = 50
  MaxCorrelated = 70
  MaxDrawdown = 30
  MaxLosses = 2
  MaxTradesPerHour = 2
  Hour = 1
  Day = 2
  Correlated <- MCCorrelated
  Target = 2
  Volatility <- MCVolatility
  MinMultiplier = 1
  MaxMultiplier = 3
  MaxTime = 3
  MaxCandidates = 3
  Sizes = {50}
  Modulus = 256
  Scale = 100
  TrainParts = {60}
  HoldoutParts = {5, 34}
  FoldCounts = {2, 5}
  Purges = {2, 40}
  Embargoes = {0, 2, 251}
  TrialCount = 3
  Lookback <- MCLookback
  Workers = {a, b}
  Scores = {1, 2}
  BoardSize = 2
PROPERTY
  ControlsAreEnforced
CHECK_DEADLOCK FALSE
