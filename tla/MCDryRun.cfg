SPECIFICATION FairSpec
CONSTANTS
  BrokerIds = {"sim"}
  NoBroker = NoBroker
  TradeIds = {1, 2, 3, 4}
  NoCum = NoCum
  MaxRetries = 2
  MaxQty = 3
INVARIANTS
  BooksAgree
  HaltFlattens
PROPERTIES
  ImplementsVenue
  GetsOut
CHECK_DEADLOCK FALSE
