SPECIFICATION Spec
CONSTANTS
  Symbols = {a, b}
  Traded = a
  Absent = Absent
  Prices = {2, 3, 4}
  Capacity = 3
  Short = 2
  Long = 3
  MinReturn = 0
  RoundFactor = 100000000
  MaxTicks = 4
  Lookback = 2
  Threshold <- MCThreshold
  FastPeriod = 1
  SlowPeriod = 2
  RsiPeriod = 2
  Oversold = 30
  Buffer <- MCBuffer
  FastFrame = 1
  SlowFrame = 2
  EmaPeriod = 1
  EnsembleThreshold <- MCEnsembleThreshold
INVARIANTS
  ScannerFollowsMarket
  SignalsComeFromWindow
CHECK_DEADLOCK FALSE
