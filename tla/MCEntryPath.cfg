SPECIFICATION Spec
CONSTANTS
  Minute = 4
  Day = 100
  MaxEntriesPerMinute = 2
  MaxCancelsPerMinute = 3
  MaxRequotes = 2
  RequoteCooldown = 3
  StaleBoard = 2
  ApiErrorLimit = 0
  ApiCooling = 0
  LatencyBreachLimit = 0
  LossLimit = 0
  Cooling = 0
  DailyLossLimit = 0
  Cost = 0
  MaxInventory = 2
  Retreat = 0
  WideRetreat = 1
  ThinRetreat = 1
  MaxShift = 3
  Skew = 1
  StrongAlpha = 3
  ExitAlpha = 1
  DecayAlpha = 1
  WideSpread = 4
  MaxPending = 5
  MinAge = 1
  FairDrift = 6
  QuoteDrift = 1
  AllowShort = TRUE
  Policy = "adaptive"
  MakerScore = 6
  TakerScore = 9
  AggressiveScore = 0
  MakerConfirm = 2
  TakerConfirm = 1
  StrongConfirm = 2
  MinQuality = 0
  UrgencyScore = 2
  MakerMinEdge = 1
  AdaptiveMinEdge = 1
  AbnormalSpread = 6
  QueueSpread = 1
  AbnormalJump = 20
  JumpTicks = 6
  JumpCooldown = 2
  Boards <- MCBoards
  Delays <- MCDelays
  TradeQty = 2
  ScaleBy = 3
  ScaleScore = 11
  HalveQty = TRUE
  MaxSpread = 3
  MaxTime = 9
INVARIANTS
  TypeOK
  EntriesBounded
  RequotesBounded
PROPERTIES
  GapTakesQuoteBack
  ConfirmedEntry
CHECK_DEADLOCK FALSE
