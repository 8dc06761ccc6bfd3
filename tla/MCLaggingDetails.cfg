SPECIFICATION FeedSpec
CONSTANTS
  OrderQty = 5
  DetailsMayLag = TRUE
  BrokerIds = {b1}
  NoBroker = NoBroker
  TradeIds = {1, 2, 3, 4, 5}
  NoCum = NoCum
CHECK_DEADLOCK FALSE
INVARIANTS
  NeverAhead
