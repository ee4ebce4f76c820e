SPECIFICATION FairSpec
CONSTANTS
  Prices <- MCPrices
  Costs = 0
  Fee = 1
  StopLoss = 1
  TakeProfit = 2
  Trail = 1
  QueueSize = 2
  MaxPrices = 4
INVARIANTS
  QueueKeepsNewest
  TradesAddUp
  RequestEndsItsPosition
PROPERTIES
  StopFreezesOrders
  StopOnlyTightens
  StopReturns
CHECK_DEADLOCK FALSE
