------------------------------ MODULE OrderState ------------------------------
(***************************************************************************)
(* One order of the ledger (orders.py, OrderState in models.py) and what   *)
(* the ledger's methods do to it.  Prices are abstracted to what the code  *)
(* tests about them: `priced' says that avg_fill_price is positive and     *)
(* `anchored' that the intent's reference_price is.                        *)
(***************************************************************************)
EXTENDS Integers

CONSTANTS
  BrokerIds,  \* ids the broker gives to the orders it accepts
  NoBroker,   \* the empty broker_order_id
  TradeIds,   \* dedup keys of executions (trade_id, or ts:qty:price without one)
  NoCum       \* cum_qty = None in a BrokerOrderEvent

ASSUME NoCumAssumption == NoCum \notin Nat

FinalStatus == {"filled", "canceled", "rejected"}

OpenStatus ==
  {"new_pending", "working", "partially_filled", "cancel_pending", "unknown"}

Status == FinalStatus \cup OpenStatus

Order ==
  [qty : Nat \ {0}, cum : Nat, status : Status, priced : BOOLEAN,
   anchored : BOOLEAN, broker : BrokerIds \cup {NoBroker}, seen : SUBSET TradeIds]

OrderEvents ==
  [status : Status, cum : Nat \cup {NoCum}, priced : BOOLEAN,
   broker : BrokerIds \cup {NoBroker}]

FillEvents ==
  [trade : TradeIds, qty : Nat, priced : BOOLEAN, broker : BrokerIds \cup {NoBroker}]

IsFinal(o) == o.status \in FinalStatus

LeavesQty(o) == IF o.cum < o.qty THEN o.qty - o.cum ELSE 0

NewOrder(qty, anchored) ==
  [qty |-> qty, cum |-> 0, status |-> "new_pending", priced |-> FALSE,
   anchored |-> anchored, broker |-> NoBroker, seen |-> {}]

\* restore_order: a complete order is final, a started one is partially filled.
RestoredOrder(qty, anchored, status, cum, priced, broker) ==
  LET c == IF cum > qty THEN qty ELSE cum
  IN  [qty |-> qty, cum |-> c, anchored |-> anchored, broker |-> broker, seen |-> {},
       priced |-> priced /\ c > 0,
       status |-> IF c >= qty THEN "filled"
                  ELSE IF c > 0 /\ status \in {"new_pending", "working", "unknown"}
                       THEN "partially_filled"
                       ELSE status]

\* Mutant: a finished order is canceled too.
MarkAnyCancelPending(o) == [o EXCEPT !.status = "cancel_pending"]

MarkCancelPending(o) ==
  IF IsFinal(o) THEN o ELSE [o EXCEPT !.status = "cancel_pending"]

\* Mutant: only the map from broker ids learns the name.
WithoutBroker(o, b) == o

WithBroker(o, b) == IF b = NoBroker THEN o ELSE [o EXCEPT !.broker = b]

-------------------------------------------------------------------------------
(***************************************************************************)
(* Cumulative reports: BrokerOrderEvent.                                   *)
(***************************************************************************)

\* The cumulative quantity an order event claims, clamped to the order.
ClaimedCum(o, e) ==
  IF e.cum = NoCum
  THEN IF e.status = "filled" THEN o.qty ELSE o.cum
  ELSE IF e.cum > o.qty THEN o.qty ELSE e.cum

\* Mutants: the cumulative quantity is taken for the fill, or only the event's own
\* price counts.
WholeClaim(o, e) ==
  IF ClaimedCum(o, e) > o.cum /\ (e.priced \/ o.priced \/ o.anchored)
  THEN ClaimedCum(o, e)
  ELSE 0

PricedClaim(o, e) ==
  IF ClaimedCum(o, e) > o.cum /\ e.priced THEN ClaimedCum(o, e) - o.cum ELSE 0

\* The fill an order event adds: what it claims beyond what is known, unless no
\* price at all (the event's, the average so far, the reference) can value it.
OrderEventFill(o, e) ==
  IF ClaimedCum(o, e) > o.cum /\ (e.priced \/ o.priced \/ o.anchored)
  THEN ClaimedCum(o, e) - o.cum
  ELSE 0

\* Mutant: an old report takes fills back.
LatestClaim(o, e) == ClaimedCum(o, e)

CumAfterEvent(o, e) ==
  IF OrderEventFill(o, e) > 0 THEN ClaimedCum(o, e) ELSE o.cum

\* Mutant: any report reopens a finished order.
ReportedStatusAfterEvent(o, e) ==
  IF CumAfterEvent(o, e) >= o.qty THEN "filled"
  ELSE IF CumAfterEvent(o, e) > 0 THEN "partially_filled"
  ELSE e.status

StatusAfterEvent(o, e) ==
  IF CumAfterEvent(o, e) >= o.qty THEN "filled"
  ELSE IF e.status \in {"canceled", "rejected"} THEN e.status
  ELSE IF CumAfterEvent(o, e) > 0 THEN "partially_filled"
  ELSE IF IsFinal(o) THEN o.status
  ELSE e.status

AfterOrderEvent(o, e) ==
  [WithBroker(o, e.broker) EXCEPT
     !.cum = CumAfterEvent(o, e),
     !.status = StatusAfterEvent(o, e),
     !.priced = @ \/ OrderEventFill(o, e) > 0]

-------------------------------------------------------------------------------
(***************************************************************************)
(* Executions: BrokerFillEvent.                                            *)
(***************************************************************************)

\* Mutant: the same execution counts again.
FillAgain(o, e) ==
  IF ~e.priced \/ IsFinal(o) THEN 0
  ELSE IF e.qty < LeavesQty(o) THEN e.qty ELSE LeavesQty(o)

FillEventFill(o, e) ==
  IF ~e.priced \/ e.trade \in o.seen \/ IsFinal(o) THEN 0
  ELSE IF e.qty < LeavesQty(o) THEN e.qty ELSE LeavesQty(o)

AfterFillEvent(o, e) ==
  LET n == FillEventFill(o, e)
      w == WithBroker(o, e.broker)
  IN  IF n = 0 THEN w
      ELSE [w EXCEPT !.cum = @ + n,
                     !.status = IF o.cum + n >= o.qty THEN "filled"
                                ELSE "partially_filled",
                     !.priced = TRUE,
                     !.seen = @ \cup {e.trade}]

=============================================================================
