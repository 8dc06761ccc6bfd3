SPECIFICATION Spec
VIEW View
CONSTANTS
  Minute = 4
  Day = 4
  MaxEntriesPerMinute = 0
  MaxCancelsPerMinute = 0
  MaxRequotes = 0
  RequoteCooldown = 0
  StaleBoard = 0
  ApiErrorLimit = 2
  ApiCooling = 2
  LatencyBreachLimit = 2
  LossLimit = 2
  Cooling = 2
  DailyLossLimit = 3
  Cost = 1
  MaxInventory = 3
  Gains = {0, 1, 3}
  MaxLoss = 5
  Kinds = {"submit", "poll"}
  MaxTime = 7
INVARIANTS
  LossCountedOnce
PROPERTIES
  CoolingAfterLosses
  DailyLossStops
  CircuitsHoldEntries
