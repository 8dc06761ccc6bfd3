SPECIFICATION Spec
CONSTANTS
  MaxOrders = 5
  MaxQty = 2
  MaxStray = 0
  StartSeesOrders = TRUE
  MaxRetries = 1
  BrokerIds <- MCSlots
  NoBroker = 0
  TradeIds = {}
  NoCum = NoCum
PROPERTIES
  TickedOrderIsTracked
