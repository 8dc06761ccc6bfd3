------------------------------- MODULE EntryPath -------------------------------
(***************************************************************************)
(* From a board to an entry order and to the request to take it back:      *)
(* CombinedMakerTakerStrategy.on_board with the entry policy and the risk  *)
(* manager.  Quantities are in lots.  The exit workflow is busy exactly    *)
(* while there is a position (module LiveTrading has it in full), and the  *)
(* broker is free to fill, cancel or reject the entry at any time.         *)
(***************************************************************************)
EXTENDS EntryPolicy, RiskManager

CONSTANTS
  Boards,     \* the boards that may come
  Delays,     \* the times that may pass before the next one
  TradeQty,   \* strategy.trade_qty
  ScaleBy,    \* scale_qty_multiplier
  ScaleScore, \* scale_qty_score_threshold, 0 without scale_qty_by_score
  HalveQty,   \* vol_aware_sizing
  MaxSpread,  \* max_spread_ticks
  MaxTime     \* bound on the clock

ASSUME EntryAssumption ==
  /\ Delays \subseteq Nat \ {0}
  /\ {TradeQty, ScaleBy, ScaleScore, MaxSpread} \subseteq Nat
  /\ MaxTime \in Nat \ {0}
  /\ HalveQty \in BOOLEAN
  /\ \A b \in Boards : b.affordable \in Int

VARIABLES
  now,       \* the time of the last board
  risk,      \* RiskManager
  filter,    \* mids of the market state detector and the jump filter
  confirm,   \* ConfirmationTracker
  entry,     \* the entry at work: _working_entry_side, _working_entry_price
  position,  \* position.qty
  result,    \* last_result: cancel signal, why it was held, why no entry
  chosen,    \* history: mode and side of the last choices, <<"", 0>> for none
  placed,    \* history: times of the last entries
  requoted   \* history: times of the last cancel signals without urgency

vars ==
  <<now, risk, filter, confirm, entry, position, result, chosen, placed, requoted>>

NoEntry == [mode |-> "", side |-> 0, qty |-> 0, price |-> 0, at |-> 0, confirm |-> 0]

Result(signal, held, blocked) == [signal |-> signal, held |-> held, blocked |-> blocked]

LongestConfirm ==
  AtLeast(1, AtLeast(MakerConfirm, AtLeast(TakerConfirm, StrongConfirm)))

\* The last n elements.
Latest(n, s) == IF Len(s) <= n THEN s ELSE SubSeq(s, Len(s) - n + 1, Len(s))

Init ==
  /\ now = 1
  /\ risk = NewRisk
  /\ filter = NewFilter
  /\ confirm = NewConfirmation
  /\ entry = NoEntry
  /\ position = 0
  /\ result = Result("", "", "")
  /\ chosen = <<>>
  /\ placed = <<>>
  /\ requoted = <<>>

-------------------------------------------------------------------------------
(***************************************************************************)
(* on_board, one action per way out.  `t' is the time of the board and `r' *)
(* the risk manager after update_board_ts.                                 *)
(***************************************************************************)

\* Mutant: the gap is measured after the board has been recorded.
BoardIsStaleLate(t) == IsStaleBoard(UpdateBoardTs(risk, t), t)

BoardIsStale(t) == IsStaleBoard(risk, t)

\* An entry works: should it be taken back?
WorkingBoard(b, t, r) ==
  LET desired == QuotePrice(b, entry.side, position)
      reason  == CancelReason(b, entry.side, entry.price, desired, t - entry.at,
                              MarketState(filter, b) = "ABNORMAL", BoardIsStale(t))
      held    == CancelHeld(r, reason, t)
      asked   == AfterCancelAsked(r, reason, t)
  IN  /\ entry # NoEntry
      /\ IF reason = ""
         THEN /\ risk' = r
              /\ result' = Result("", "", "working_entry")
              /\ UNCHANGED requoted
         ELSE IF held # ""
         THEN /\ risk' = asked
              /\ result' = Result("", held, "working_entry")
              /\ UNCHANGED requoted
         ELSE /\ risk' = RecordCancelRequest(asked, reason, t)
              /\ result' = Result(reason, "", "working_entry")
              /\ requoted' = IF reason \in UrgentReasons THEN requoted
                             ELSE Latest(MaxRequotes + 1, Append(requoted, t))
      /\ UNCHANGED <<confirm, entry, chosen, placed>>

\* A position waits for its exit.
BusyBoard(r) ==
  /\ entry = NoEntry
  /\ position > 0
  /\ risk' = r
  /\ result' = Result("", "", "lollipop_active")
  /\ UNCHANGED <<confirm, entry, chosen, placed, requoted>>

\* A board that gives no entry and starts the confirmation again.
Refuse(r, reason) ==
  /\ risk' = r
  /\ confirm' = NewConfirmation
  /\ result' = Result("", "", reason)
  /\ UNCHANGED <<entry, placed, requoted>>

JumpBoard(b, t, r) ==
  /\ entry = NoEntry /\ position = 0
  /\ JumpBlocked(AfterMid(filter, b, t), t)
  /\ Refuse(r, "jump_filter")
  /\ chosen' = <<>>

\* The account gate of AccountRiskController (module AccountRisk) says no.
AccountBoard(b, t, r) ==
  /\ entry = NoEntry /\ position = 0
  /\ ~JumpBlocked(AfterMid(filter, b, t), t)
  /\ Refuse(r, "account_risk")
  /\ UNCHANGED chosen

-------------------------------------------------------------------------------

\* trade_qty, halved in a volatile market if it is more than a lot.
CalmQty(b) ==
  IF HalveQty /\ b.volatile /\ TradeQty > 1
  THEN AtLeast(1, TradeQty \div 2) ELSE TradeQty

\* Scaled up for a taker of high score.
BaseQty(b, d) ==
  IF d.mode = "taker" /\ ScaleScore > 0 /\ d.score >= ScaleScore
  THEN CalmQty(b) * ScaleBy ELSE CalmQty(b)

\* What the gates after the streak have against the board.
QuoteFault(b) ==
  IF ~b.valid THEN "invalid_quote"
  ELSE IF b.aged THEN "stale_quote"
  ELSE IF Spread(b) > MaxSpread THEN "spread_too_wide"
  ELSE IF b.closed THEN "outside_session"
  ELSE ""

\* The price a maker works at; a market order has none.
EntryPrice(b, d) == IF d.mode = "maker" THEN QuotePrice(b, d.side, position) ELSE 0

EdgeTooLow(b, d) ==
  d.mode = "maker" /\ MakerMinEdge > 0 /\ QuoteEdge(b, d.side, position) < MakerMinEdge

\* _track_intent and record_entry_order.
PlaceEntry(b, d, qty, t, r) ==
  /\ entry' = [mode |-> d.mode, side |-> d.side, qty |-> qty, price |-> EntryPrice(b, d),
               at |-> t, confirm |-> d.confirm]
  /\ risk' = RecordEntryOrder(r, t)
  /\ confirm' = Observe(confirm, d)
  /\ result' = Result("", "", "")
  /\ placed' = Latest(MaxEntriesPerMinute + 1, Append(placed, t))
  /\ UNCHANGED requoted

FlatBoard(b, t, r) ==
  LET market == MarketState(filter, b)
      d      == SelectEntry(b, market, position)
      c      == Observe(confirm, d)
      qty    == OrderQty(BaseQty(b, d), position, b.affordable)
      gate   == CanEnter(r, t, market = "ABNORMAL", QuoteFault(b), position)
  IN  /\ entry = NoEntry /\ position = 0
      /\ ~JumpBlocked(AfterMid(filter, b, t), t)
      /\ chosen' = Latest(LongestConfirm,
                         Append(chosen, IF d.allow THEN <<d.mode, d.side>> ELSE <<"", 0>>))
      /\ IF ~d.allow \/ c.count < d.confirm
         THEN /\ risk' = r
              /\ confirm' = c
              /\ result' = Result("", "", IF d.allow THEN "confirming" ELSE d.reason)
              /\ UNCHANGED <<entry, placed, requoted>>
         ELSE IF qty <= 0 THEN Refuse(r, "qty_zero")
         ELSE IF gate.reason # "ok" THEN Refuse(gate.risk, gate.reason)
         ELSE IF EdgeTooLow(b, d) THEN Refuse(gate.risk, "maker_edge_too_low")
         ELSE PlaceEntry(b, d, qty, t, gate.risk)

OnBoard(b, t) ==
  LET r == UpdateBoardTs(risk, t)
  IN  /\ now' = t
      /\ filter' = AfterMid(filter, b, t)
      /\ UNCHANGED position
      /\ \/ WorkingBoard(b, t, r)
         \/ BusyBoard(r)
         \/ JumpBoard(b, t, r)
         \/ AccountBoard(b, t, r)
         \/ FlatBoard(b, t, r)

-------------------------------------------------------------------------------
(***************************************************************************)
(* What the broker tells, through the ledger, and a new process.           *)
(***************************************************************************)

EntryFill(n) ==
  /\ n <= entry.qty
  /\ entry' = IF n = entry.qty THEN NoEntry ELSE [entry EXCEPT !.qty = @ - n]
  /\ position' = position + n
  /\ UNCHANGED <<now, risk, filter, confirm, result, chosen, placed, requoted>>

\* Canceled, or rejected.
EntryEnds ==
  /\ entry # NoEntry
  /\ entry' = NoEntry
  /\ UNCHANGED <<now, risk, filter, confirm, position, result, chosen, placed, requoted>>

ExitFill(n) ==
  /\ n <= position
  /\ position' = position - n
  /\ UNCHANGED <<now, risk, filter, confirm, entry, result, chosen, placed, requoted>>

\* A new process knows the position but none of the windows.
Restart ==
  /\ risk' = NewRisk
  /\ filter' = NewFilter
  /\ confirm' = NewConfirmation
  /\ entry' = NoEntry
  /\ result' = Result("", "", "")
  /\ chosen' = <<>>
  /\ placed' = <<>>
  /\ requoted' = <<>>
  /\ UNCHANGED <<now, position>>

Next ==
  \/ \E b \in Boards, dt \in Delays : now + dt <= MaxTime /\ OnBoard(b, now + dt)
  \/ \E n \in 1 .. MaxInventory : EntryFill(n) \/ ExitFill(n)
  \/ EntryEnds
  \/ Restart

Spec == Init /\ [][Next]_vars

-------------------------------------------------------------------------------
(***************************************************************************)
(* Properties.                                                             *)
(***************************************************************************)

\* Every variable holds values of its kind: on_board, the fills and the windows
\* never leave a negative quantity, an unordered window or more than the inventory
\* limit between position and entry (order_qty, can_enter).
TypeOK ==
  /\ now \in 1 .. MaxTime
  /\ entry.side \in Sides \cup {0} /\ entry.qty \in 0 .. MaxInventory
  /\ position \in 0 .. MaxInventory
  /\ position + entry.qty <= MaxInventory
  /\ \A w \in {risk.entries, risk.cancels, risk.requotes, placed, requoted} :
       /\ \A i \in DOMAIN w : w[i] \in 1 .. now
       /\ \A i, j \in DOMAIN w : i < j => w[i] <= w[j]

\* No minute, wherever it starts, sees more entry orders of one process than
\* max_entry_orders_per_minute (can_enter, record_entry_order).
EntriesBounded ==
  MaxEntriesPerMinute > 0 =>
    \A i \in DOMAIN placed :
      i > MaxEntriesPerMinute => placed[i] - placed[i - MaxEntriesPerMinute] >= Minute

\* Quotes are not taken back for signals more often than the requote budget says in
\* any minute, and a budget used up is followed by its cooldown (RequoteBudget).
RequotesBounded ==
  MaxRequotes > 0 =>
    \A i \in DOMAIN requoted :
      i > MaxRequotes =>
        /\ requoted[i] - requoted[i - MaxRequotes] >= Minute
        /\ requoted[i - 1] - requoted[i - MaxRequotes] < Minute =>
             requoted[i] - requoted[i - 1] >= RequoteCooldown

\* A gap between boards takes the working quote back at the next one, whatever the
\* cancel windows and the budget say (calc_cancel_reason, can_send_cancel_signal).
GapTakesQuoteBack ==
  [][ StaleBoard > 0 /\ now' - now > StaleBoard /\ entry # NoEntry =>
        result'.signal # "" ]_vars

\* An entry follows as many boards in a row as its decision asks for that chose its
\* mode and side, with no jump and no refusal by the policy among them.  Boards that
\* come while an entry works or a position is held are not counted and do not
\* interrupt the row (ConfirmationTracker, on_board).
ConfirmedEntry ==
  [][ entry = NoEntry /\ entry' # NoEntry =>
        /\ Len(chosen') >= entry'.confirm
        /\ \A i \in DOMAIN chosen' :
             i > Len(chosen') - entry'.confirm =>
               chosen'[i] = <<entry'.mode, entry'.side>> ]_vars

=============================================================================
