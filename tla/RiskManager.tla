------------------------------ MODULE RiskManager ------------------------------
(***************************************************************************)
(* RiskManager and RequoteBudget (risk.py) as functions on a record.  A    *)
(* limit of 0 switches its gate off, as in the code.  Times are positive.  *)
(***************************************************************************)
EXTENDS Integers, Sequences

CONSTANTS
  Minute,              \* ONE_MINUTE_NS
  Day,                 \* length of a day: the date is now \div Day
  MaxEntriesPerMinute, \* max_entry_orders_per_minute
  MaxCancelsPerMinute, \* max_cancel_requests_per_minute
  MaxRequotes,         \* max_requotes_per_minute
  RequoteCooldown,     \* requote_cooldown_ms
  StaleBoard,          \* stale_board_ms
  ApiErrorLimit,       \* api_error_limit
  ApiCooling,          \* api_cooling_seconds
  LatencyBreachLimit,  \* latency_breach_limit
  LossLimit,           \* consecutive_loss_limit
  Cooling,             \* cooling_seconds
  DailyLossLimit,      \* daily_loss_limit
  Cost,                \* estimate_round_trip_cost of one lot
  MaxInventory         \* max_inventory_qty, in lots

ASSUME RiskAssumption ==
  /\ Minute \in Nat \ {0} /\ Day \in Nat \ {0}
  /\ {MaxEntriesPerMinute, MaxCancelsPerMinute, MaxRequotes, RequoteCooldown,
      StaleBoard, ApiErrorLimit, ApiCooling, LatencyBreachLimit, LossLimit,
      Cooling, DailyLossLimit, Cost, MaxInventory} \subseteq Nat

RequestKinds == {"submit", "cancel", "poll"}

UrgentReasons == {"abnormal_market", "spread_expanded", "stale_board"}

\* A RiskManager() as the constructor leaves it; no date is known yet.
NewRisk ==
  [streak |-> 0, coolUntil |-> 0, pnl |-> 0, date |-> -1,
   entries |-> <<>>, cancels |-> <<>>, requotes |-> <<>>, heldUntil |-> 0,
   apiErrors |-> 0, apiUntil |-> 0,
   breaches |-> [k \in RequestKinds |-> 0], latencyUntil |-> 0,
   softKill |-> FALSE, lastBoard |-> 0]

-------------------------------------------------------------------------------
(***************************************************************************)
(* Boards, rate windows and the requote budget.                            *)
(***************************************************************************)

UpdateBoardTs(r, now) == [r EXCEPT !.lastBoard = now]

IsStaleBoard(r, now) ==
  StaleBoard > 0 /\ r.lastBoard > 0 /\ now - r.lastBoard > StaleBoard

\* Trimming pops from the left until the first time that is still `young'.
FromFirst(times, young) ==
  IF young = {} THEN <<>>
  ELSE SubSeq(times, CHOOSE i \in young : \A j \in young : i <= j, Len(times))

\* Mutant: half the window.
TrimEarly(times, now) ==
  FromFirst(times, {i \in DOMAIN times : 2 * (now - times[i]) < Minute})

Trim(times, now) == FromFirst(times, {i \in DOMAIN times : now - times[i] < Minute})

RecordEntryOrder(r, now) == [r EXCEPT !.entries = Append(Trim(@, now), now)]

\* RequoteBudget.is_blocked: the answer, and what asking leaves behind.
BudgetBlocked(r, now) ==
  /\ MaxRequotes > 0
  /\ now < r.heldUntil \/ Len(Trim(r.requotes, now)) >= MaxRequotes

AfterBudgetAsked(r, now) ==
  IF MaxRequotes = 0 \/ now < r.heldUntil THEN r
  ELSE [r EXCEPT !.heldUntil = 0, !.requotes = Trim(@, now)]

\* Mutant: the cooldown is set when the budget is already exceeded.
HeldLate(r, now) ==
  IF MaxRequotes = 0 THEN r
  ELSE [r EXCEPT !.requotes = Append(Trim(@, now), now),
                 !.heldUntil = IF Len(Trim(r.requotes, now)) >= MaxRequotes
                                  /\ RequoteCooldown > 0
                               THEN now + RequoteCooldown ELSE @]

RecordRequote(r, now) ==
  IF MaxRequotes = 0 THEN r
  ELSE [r EXCEPT !.requotes = Append(Trim(@, now), now),
                 !.heldUntil = IF Len(Trim(r.requotes, now)) + 1 >= MaxRequotes
                                  /\ RequoteCooldown > 0
                               THEN now + RequoteCooldown ELSE @]

\* can_send_cancel_signal: why the cancel is held back, "" if it is not.
CancelHeld(r, reason, now) ==
  IF reason \in UrgentReasons THEN ""
  ELSE IF MaxCancelsPerMinute > 0 /\ Len(Trim(r.cancels, now)) >= MaxCancelsPerMinute
       THEN "cancel_rate_limit"
  ELSE IF BudgetBlocked(r, now) THEN "requote_budget_exhausted"
  ELSE ""

AfterCancelAsked(r, reason, now) ==
  IF reason \in UrgentReasons THEN r
  ELSE LET t == IF MaxCancelsPerMinute > 0 THEN [r EXCEPT !.cancels = Trim(@, now)] ELSE r
       IN  IF CancelHeld(r, reason, now) = "cancel_rate_limit" THEN t
           ELSE AfterBudgetAsked(t, now)

RecordCancelRequest(r, reason, now) ==
  IF reason \in UrgentReasons THEN r
  ELSE RecordRequote([r EXCEPT !.cancels = Append(Trim(@, now), now)], now)

-------------------------------------------------------------------------------
(***************************************************************************)
(* Circuits: API errors and REST latency.                                  *)
(***************************************************************************)

RecordApiSuccess(r) == [r EXCEPT !.apiErrors = 0, !.apiUntil = 0]

RecordApiError(r, now) ==
  IF ApiErrorLimit = 0 THEN r
  ELSE [r EXCEPT !.apiErrors = @ + 1,
                 !.apiUntil = IF r.apiErrors + 1 >= ApiErrorLimit
                              THEN now + ApiCooling ELSE @]

ApiCircuitOpen(r, now) ==
  ApiErrorLimit > 0 /\ r.apiUntil > 0 /\ now < r.apiUntil

\* The test itself closes a circuit whose time is over.
AfterApiTest(r, now) ==
  IF ApiErrorLimit > 0 /\ r.apiUntil > 0 /\ now >= r.apiUntil
  THEN RecordApiSuccess(r) ELSE r

LatencyCircuitOpen(r, now) ==
  LatencyBreachLimit > 0 /\ r.latencyUntil > 0 /\ now < r.latencyUntil

AfterLatencyTest(r, now) ==
  IF LatencyBreachLimit > 0 /\ r.latencyUntil > 0 /\ now >= r.latencyUntil
  THEN [r EXCEPT !.latencyUntil = 0, !.breaches = [k \in RequestKinds |-> 0]]
  ELSE r

\* Mutant: a fast answer closes the circuit, too.
LatencyForgiven(r, kind, slow, now) ==
  LET t == AfterLatencyTest(r, now)
      n == t.breaches[kind] + 1
  IN  IF LatencyBreachLimit = 0 THEN r
      ELSE IF ~slow THEN [t EXCEPT !.breaches[kind] = 0, !.latencyUntil = 0]
      ELSE IF LatencyCircuitOpen(r, now) THEN r
      ELSE [t EXCEPT !.breaches[kind] = n,
                     !.latencyUntil = IF n >= LatencyBreachLimit
                                      THEN now + ApiCooling ELSE @]

\* Nothing is counted while the circuit is open; a fast answer clears its kind.
RecordLatency(r, kind, slow, now) ==
  LET t == AfterLatencyTest(r, now)
      n == t.breaches[kind] + 1
  IN  IF LatencyBreachLimit = 0 \/ LatencyCircuitOpen(r, now) THEN r
      ELSE IF ~slow THEN [t EXCEPT !.breaches[kind] = 0]
      ELSE [t EXCEPT !.breaches[kind] = n,
                     !.latencyUntil = IF n >= LatencyBreachLimit
                                      THEN now + ApiCooling ELSE @]

-------------------------------------------------------------------------------
(***************************************************************************)
(* Results: daily PnL and the loss streak.                                 *)
(***************************************************************************)

EnsureDailyDate(r, now) ==
  IF r.date = now \div Day THEN r
  ELSE [r EXCEPT !.date = now \div Day, !.pnl = 0]

\* Mutant: the pause starts one loss too late.
PauseLate(r, won, now) ==
  IF won THEN [r EXCEPT !.streak = 0]
  ELSE [r EXCEPT !.streak = @ + 1,
                 !.coolUntil = IF LossLimit > 0 /\ r.streak >= LossLimit
                               THEN now + Cooling ELSE @]

RecordLossOutcome(r, won, now) ==
  IF won THEN [r EXCEPT !.streak = 0]
  ELSE [r EXCEPT !.streak = @ + 1,
                 !.coolUntil = IF LossLimit > 0 /\ r.streak + 1 >= LossLimit
                               THEN now + Cooling ELSE @]

NetPnl(gross, qty) == gross - Cost * qty

\* Mutant: a new day begins after its first result.
BookBeforeDate(r, gross, qty, now) ==
  EnsureDailyDate([r EXCEPT !.pnl = @ + NetPnl(gross, qty)], now)

BookPnl(r, gross, qty, now) ==
  [EnsureDailyDate(r, now) EXCEPT !.pnl = @ + NetPnl(gross, qty)]

RecordPartialPnl(r, gross, qty, now, countLoss) ==
  LET t == BookPnl(r, gross, qty, now)
  IN  IF countLoss /\ NetPnl(gross, qty) < 0 THEN RecordLossOutcome(t, FALSE, now) ELSE t

\* `total': the whole trade's result, which decides whether it was won.
RecordTradeResult(r, gross, qty, now, total, updateStreak) ==
  LET t == BookPnl(r, gross, qty, now)
  IN  IF updateStreak THEN RecordLossOutcome(t, total > 0, now) ELSE t

RestoreDailyPnl(r, pnl, now) == [EnsureDailyDate(r, now) EXCEPT !.pnl = pnl]

-------------------------------------------------------------------------------
(***************************************************************************)
(* The gate before an entry.  `quote' names what else is wrong with the    *)
(* board, the session or the notional, "" if nothing is.                   *)
(***************************************************************************)

Gate(r, reason) == [risk |-> r, reason |-> reason]

\* The streak ends when its cooling is over, before the gates that follow.
AfterCoolingTest(r) ==
  IF LossLimit > 0 /\ r.streak >= LossLimit THEN [r EXCEPT !.streak = 0] ELSE r

CanEnter(r, now, abnormal, quote, position) ==
  LET dated  == EnsureDailyDate(r, now)
      api    == AfterApiTest(dated, now)
      tested == AfterLatencyTest(api, now)
      rated  == IF MaxEntriesPerMinute > 0
                THEN [tested EXCEPT !.entries = Trim(@, now)] ELSE tested
      ready  == AfterCoolingTest(rated)
  IN  IF r.softKill THEN Gate(r, "kill_switch_soft")
      ELSE IF IsStaleBoard(r, now) THEN Gate(r, "stale_board")
      ELSE IF ApiCircuitOpen(dated, now) THEN Gate(dated, "api_circuit_open")
      ELSE IF LatencyCircuitOpen(api, now) THEN Gate(api, "latency_circuit_open")
      ELSE IF abnormal THEN Gate(tested, "market_abnormal")
      ELSE IF DailyLossLimit > 0 /\ tested.pnl <= -DailyLossLimit
           THEN Gate(tested, "daily_loss_limit")
      ELSE IF MaxEntriesPerMinute > 0 /\ Len(rated.entries) >= MaxEntriesPerMinute
           THEN Gate(rated, "order_rate_limit")
      ELSE IF LossLimit > 0 /\ rated.streak >= LossLimit /\ now < rated.coolUntil
           THEN Gate(rated, "consecutive_loss_cooling")
      ELSE IF quote # "" THEN Gate(ready, quote)
      ELSE IF position >= MaxInventory THEN Gate(ready, "inventory_limit")
      ELSE Gate(ready, "ok")

\* Mutant: the room that is left is not looked at.
QtyWithoutRoom(base, position, affordable) ==
  IF base < affordable THEN base ELSE affordable

\* order_qty, in lots; `affordable' is what max_notional leaves at this price.
OrderQty(base, position, affordable) ==
  LET room == IF position < MaxInventory THEN MaxInventory - position ELSE 0
      qty  == IF base < room THEN base ELSE room
  IN  IF qty < affordable THEN qty ELSE affordable

=============================================================================
