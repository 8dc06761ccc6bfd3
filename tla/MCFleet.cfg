SPECIFICATION Spec
CONSTANTS
  MaxTotalInventory = 2
  MaxTotalNotional = 2
  MaxAccountLoss = 1
  N = 2
  Price <- MCPrice
  TradeQty = 1
  ScaledQty = 2
  RestorePosition = TRUE
  MaxLoss = 1
  MaxLaunches = 2
INVARIANTS
  TypeOK
  AccountLimit
PROPERTIES
  AccountLossStops
  FleetStops
CHECK_DEADLOCK FALSE
