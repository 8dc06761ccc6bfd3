SPECIFICATION Spec
CONSTANTS
  b1 = b1
  b2 = b2
  BrokerIds <- MCBrokerIds
  NoBroker = NoBroker
  TradeIds = {t1}
  NoCum = NoCum
  MaxOrders = 2
  MaxQty = 2
  MaxFinalHistory = 1
SYMMETRY Symmetry
CHECK_DEADLOCK FALSE
INVARIANTS
  TypeOK
  ActiveIsOpen
  FillsReportedOnce
  FilledIsWhole
  BrokerNamesResolve
  HistoryBounded
  IdsFresh
PROPERTIES
  ReopenedPartlyFilled
  FillsNeverUndone
