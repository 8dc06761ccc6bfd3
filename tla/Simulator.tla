------------------------------- MODULE Simulator -------------------------------
(***************************************************************************)
(* DryRunSimulator (simulator.py): the fill model of the dry run and the   *)
(* events it answers with.  Prices are abstracted to where the board       *)
(* stands: it crosses an order, its touch is `at' the order's price, or it *)
(* is away; `depth' is what a market order finds within its slippage.      *)
(***************************************************************************)
EXTENDS OrderState, Sequences

Places == {"crossed", "at", "away"}

\* SimulatedOrder: queue_ahead_qty is the size at the touch, 0 off the touch.
Queued(qty, ahead) == [leaves |-> qty, ahead |-> ahead]

Smaller(a, b) == IF a < b THEN a ELSE b

\* Mutant: a trade that clears the queue fills with all of its size.
MakerFillUncapped(o, place, traded) ==
  CASE place = "crossed" -> o.leaves
    [] place = "at" /\ traded > o.ahead -> traded
    [] OTHER -> 0

\* _maker_fill_qty: a crossed order fills, one at the touch by what the trades at its
\* price leave after the queue.
MakerFillQty(o, place, traded) ==
  CASE place = "crossed" -> o.leaves
    [] place = "at" /\ traded > o.ahead -> Smaller(o.leaves, traded - o.ahead)
    [] OTHER -> 0

AfterMakerFill(o, place, traded) ==
  [leaves |-> o.leaves - MakerFillQty(o, place, traded),
   ahead |-> IF place # "at" THEN o.ahead
             ELSE IF traded > o.ahead THEN 0 ELSE o.ahead - traded]

MarketFillQty(qty, depth) == Smaller(qty, depth)

-------------------------------------------------------------------------------
(***************************************************************************)
(* Events.  A fill is told apart by the order's executed quantity.         *)
(***************************************************************************)

OrderMessage(s, status, cum, priced) ==
  [slot |-> s, kind |-> "order",
   event |-> [status |-> status, cum |-> cum, priced |-> priced,
              broker |-> CHOOSE b \in BrokerIds : TRUE]]

FillMessage(s, n, total) ==
  [slot |-> s, kind |-> "fill",
   event |-> [trade |-> total, qty |-> n, priced |-> TRUE, broker |-> NoBroker]]

Ack(s) == OrderMessage(s, "working", NoCum, FALSE)

\* The end of a limit order names no quantity.
CancelMessage(s) == OrderMessage(s, "canceled", NoCum, FALSE)

\* _submit_market: the rest of a market order is canceled at once.
MarketMessages(s, qty, depth) ==
  LET n == MarketFillQty(qty, depth)
  IN  <<Ack(s)>>
      \o (IF n > 0 THEN <<FillMessage(s, n, n)>> ELSE <<>>)
      \o (IF n < qty THEN <<OrderMessage(s, "canceled", n, n > 0)>> ELSE <<>>)

=============================================================================
