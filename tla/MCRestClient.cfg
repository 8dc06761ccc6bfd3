SPECIFICATION Spec
CONSTANTS
  Calls <- MCCalls
  LotBooks <- MCLotBooks
INVARIANTS
  SendsOnce
  ClosesExactly
