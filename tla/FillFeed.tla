------------------------------- MODULE FillFeed -------------------------------
(***************************************************************************)
(* The two accounts of one order's fills that a poll merges: the execution *)
(* details, one BrokerFillEvent each, and then the cumulative quantity, in *)
(* one BrokerOrderEvent (order_snapshot in execution/parsers.py,           *)
(* poll_order_events in execution/executor.py).  A response may be old,    *)
(* and the broker goes on while its events are applied one by one.  The    *)
(* order is one of OrderLedger: the names keep the two modules apart.      *)
(***************************************************************************)
EXTENDS OrderState, Sequences, Functions

CONSTANTS
  OrderQty,        \* bound: shares of the order
  DetailsMayLag    \* whether details may be missing that the total includes

ASSUME FeedAssumption == OrderQty \in Nat \ {0} /\ DetailsMayLag \in BOOLEAN

\* The ids of the executions: no more than the shares, numbered as they come.
FeedIds == TradeIds = 1 .. OrderQty

VARIABLES
  executions,   \* quantities executed at the broker, oldest first
  ended,        \* the broker has canceled or expired the order
  order,        \* the order in the ledger; its cum went to the position
  response,     \* the response whose events are being applied
  place         \* place of the next of its details, 0 without a response

feedVars == <<executions, ended, order, response, place>>

\* Shares of the first m executions.
Executed(m) == SumFunctionOnSet(executions, 1 .. m)

NoResponse == [m |-> 0, shown |-> {}, final |-> FALSE]

FeedTypeOK ==
  /\ executions \in Seq(1 .. OrderQty)
  /\ ended \in BOOLEAN
  /\ order \in Order
  /\ response \in [m : 0 .. Len(executions), shown : SUBSET (1 .. Len(executions)),
                   final : BOOLEAN]
  /\ place \in 0 .. response.m + 1

FeedInit ==
  /\ executions = << >>
  /\ ended = FALSE
  /\ order \in {[NewOrder(OrderQty, TRUE) EXCEPT !.status = "working", !.broker = b] :
                  b \in BrokerIds}
  /\ response = NoResponse
  /\ place = 0

Execute(q) ==
  /\ ~ended
  /\ Executed(Len(executions)) + q <= OrderQty
  /\ executions' = Append(executions, q)
  /\ UNCHANGED <<ended, order, response, place>>

End ==
  /\ ~ended
  /\ ended' = TRUE
  /\ UNCHANGED <<executions, order, response, place>>

\* The responses a poll may get: total of the first m executions, the details
\* shown, and whether the order is over, which is only said with the full total.
Responses ==
  {r \in [m : 0 .. Len(executions), shown : SUBSET (1 .. Len(executions)), final : BOOLEAN] :
     /\ IF DetailsMayLag THEN r.shown \subseteq 1 .. r.m ELSE r.shown = 1 .. r.m
     /\ r.final => ended /\ r.m = Len(executions)}

\* Mutant: an order that is over gets a status of its own.
SnapshotStatusExpired(r) ==
  IF r.final THEN "expired" ELSE IF Executed(r.m) = 0 THEN "working" ELSE "partially_filled"

\* The status order_snapshot derives from a response.
SnapshotStatus(r) ==
  CASE Executed(r.m) >= OrderQty -> "filled"
    [] Executed(r.m) < OrderQty /\ r.final -> "canceled"
    [] Executed(r.m) \in 1 .. OrderQty - 1 /\ ~r.final -> "partially_filled"
    [] OTHER -> "working"

\* The fill event of the i-th execution.
Detail(i) ==
  [trade |-> i, qty |-> executions[i], priced |-> TRUE, broker |-> order.broker]

\* A poll asks for an open order only, and when the events of the last one are applied.
Poll(r) ==
  /\ place = 0 /\ ~IsFinal(order)
  /\ response' = r
  /\ place' = 1
  /\ UNCHANGED <<executions, ended, order>>

\* The details go first, oldest first.
ApplyDetail ==
  /\ place \in 1 .. response.m
  /\ place' = place + 1
  /\ order' = IF place \in response.shown THEN AfterFillEvent(order, Detail(place)) ELSE order
  /\ UNCHANGED <<executions, ended, response>>

\* The event of the total.
Total(r) ==
  [status |-> SnapshotStatus(r), cum |-> Executed(r.m), priced |-> r.m > 0,
   broker |-> order.broker]

\* Then the total goes.
ApplyTotal ==
  /\ place = response.m + 1
  /\ order' = AfterOrderEvent(order, Total(response))
  /\ response' = NoResponse
  /\ place' = 0
  /\ UNCHANGED <<executions, ended>>

FeedNext ==
  \/ \E q \in 1 .. OrderQty : Execute(q)
  \/ End
  \/ \E r \in Responses : Poll(r)
  \/ ApplyDetail
  \/ ApplyTotal

FeedSpec == FeedInit /\ [][FeedNext]_feedVars

-------------------------------------------------------------------------------

\* "Position updates are handled by the strategy only after this ledger reports a
\* real fill delta" (orders.py:24-26): what the ledger has reported is never more
\* than what was executed, whichever responses were old and in whatever order.
NeverAhead == order.cum <= Executed(Len(executions))

\* An order that is over is not polled again: by then the ledger has every share.
FinalIsExact == IsFinal(order) => order.cum = Executed(Len(executions))

=============================================================================
