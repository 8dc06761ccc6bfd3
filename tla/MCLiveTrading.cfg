SPECIFICATION Spec
VIEW MCView
CONSTANTS
  MaxOrders = 5
  MaxQty = 2
  MaxStray = 1
  StartSeesOrders = FALSE
  MaxRetries = 1
  BrokerIds <- MCSlots
  NoBroker = 0
  TradeIds = {}
  NoCum = NoCum
INVARIANTS
  TypeOK
  MirrorExact
  ExitsCovered
  SingleEntry
  LiveOrdersTracked
  FlattenHonest
  ExitDuty
