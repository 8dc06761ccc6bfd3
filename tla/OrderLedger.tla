------------------------------ MODULE OrderLedger ------------------------------
(***************************************************************************)
(* OrderLedger (orders.py): every order from intent to final status.  The  *)
(* broker side is unconstrained: order and fill events of any content      *)
(* reach the ledger late, twice, out of order or never.                    *)
(***************************************************************************)
EXTENDS OrderState, Sequences

CONSTANTS
  MaxOrders,        \* bound: orders ever added or restored
  MaxQty,           \* bound: shares of one order
  MaxFinalHistory   \* max_final_history

ASSUME BoundsAssumption ==
  MaxOrders \in Nat /\ MaxQty \in Nat /\ MaxFinalHistory \in Nat

ASSUME NoBrokerAssumption == NoBroker \notin BrokerIds

ClientIds == 1 .. MaxOrders

\* What the model keeps for an id the ledger does not hold.
Absent == NewOrder(1, FALSE)

VARIABLES
  known,        \* keys of _orders
  orders,       \* values of _orders; Absent off `known'
  active,       \* _active_ids
  finalIds,     \* _final_ids
  clientOf,     \* _broker_to_client, on the broker ids it holds
  nextSeq,      \* _next_sequence
  restoring,    \* reconciliation still fills the new ledger
  reported,     \* history: total fill handed to the strategy, per order
  restoredCum   \* history: quantity already filled when the order was restored

vars ==
  <<known, orders, active, finalIds, clientOf, nextSeq, restoring, reported, restoredCum>>

TypeOK ==
  /\ known \subseteq ClientIds
  /\ orders \in [ClientIds -> Order]
  /\ \A c \in ClientIds \ known : orders[c] = Absent
  /\ active \subseteq ClientIds
  /\ finalIds \in Seq(ClientIds)
  /\ clientOf \in [BrokerIds -> ClientIds \cup {0}]
  /\ nextSeq \in 1 .. MaxOrders + 1
  /\ restoring \in BOOLEAN
  /\ reported \in [ClientIds -> Nat]
  /\ restoredCum \in [ClientIds -> Nat]

Init ==
  /\ known = {}
  /\ orders = [c \in ClientIds |-> Absent]
  /\ active = {}
  /\ finalIds = << >>
  /\ clientOf = [b \in BrokerIds |-> 0]
  /\ nextSeq = 1
  /\ restoring = TRUE
  /\ reported = [c \in ClientIds |-> 0]
  /\ restoredCum = [c \in ClientIds |-> 0]

\* The broker ids an event about order c can carry: the one it has, or, while it
\* has none, none or one that names no other order.
BrokerIdsFor(c) ==
  IF orders[c].broker = NoBroker
  THEN {NoBroker} \cup {b \in BrokerIds : clientOf[b] = 0}
  ELSE {orders[c].broker}

\* A report only says "filled" of an order whose whole quantity it claims.
Coherent(o, e) == e.status = "filled" => ClaimedCum(o, e) = o.qty

-------------------------------------------------------------------------------
(***************************************************************************)
(* _sync_active and _trim_final_history, for the order c that becomes o.   *)
(***************************************************************************)

ActiveAfter(c, o) == IF IsFinal(o) THEN active \ {c} ELSE active \cup {c}

HistoryAfter(c, o) ==
  IF IsFinal(o) /\ c \in active THEN Append(finalIds, c) ELSE finalIds

\* Mutant: the loop stops one id too early.
OverflowLate(h) ==
  IF Len(h) > MaxFinalHistory + 1 THEN Len(h) - MaxFinalHistory - 1 ELSE 0

\* How many of the oldest ids the trim loop pops.
Overflow(h) == IF Len(h) > MaxFinalHistory THEN Len(h) - MaxFinalHistory ELSE 0

\* The orders it forgets: an id that became active again is only dropped from
\* the history.
Trimmed(c, o) ==
  LET h == HistoryAfter(c, o)
  IN  {h[i] : i \in 1 .. Overflow(h)} \ ActiveAfter(c, o)

\* Mutant: the execution ids of a forgotten order stay behind.
FillIdsStay(o) == [Absent EXCEPT !.seen = o.seen]

\* What the ledger keeps of an order it forgets.
Forgotten(o) == Absent

\* Records o as the state of order c and the fill n reported for it.
Store(c, o, n) ==
  LET gone == Trimmed(c, o)
      upd  == [orders EXCEPT ![c] = o]
      map  == [b \in BrokerIds |-> IF b = o.broker THEN c ELSE clientOf[b]]
      h    == HistoryAfter(c, o)
  IN  /\ known' = (known \cup {c}) \ gone
      /\ orders' = [d \in ClientIds |-> IF d \in gone THEN Forgotten(upd[d]) ELSE upd[d]]
      /\ active' = ActiveAfter(c, o)
      /\ finalIds' = SubSeq(h, Overflow(h) + 1, Len(h))
      /\ clientOf' = [b \in BrokerIds |->
                        IF \E d \in gone : upd[d].broker = b THEN 0 ELSE map[b]]
      /\ reported' = [d \in ClientIds |->
                        IF d \in gone THEN 0 ELSE IF d = c THEN reported[c] + n
                        ELSE reported[d]]

-------------------------------------------------------------------------------
(***************************************************************************)
(* The ledger's operations.                                                *)
(***************************************************************************)

\* add_intent under a fresh id from next_client_order_id.
AddIntent(qty, anchored) ==
  /\ nextSeq <= MaxOrders
  /\ nextSeq' = nextSeq + 1
  /\ restoring' = FALSE
  /\ known' = known \cup {nextSeq}
  /\ orders' = [orders EXCEPT ![nextSeq] = NewOrder(qty, anchored)]
  /\ active' = active \cup {nextSeq}
  /\ reported' = [reported EXCEPT ![nextSeq] = 0]
  /\ restoredCum' = [restoredCum EXCEPT ![nextSeq] = 0]
  /\ UNCHANGED <<finalIds, clientOf>>

\* Mutant: ids go on from where they were.
SequenceStays(c) == nextSeq

\* _bump_sequence_from_id.
BumpedSequence(c) == IF c >= nextSeq THEN c + 1 ELSE nextSeq

\* restore_order of a broker's open order that carries the id c; ids handed out
\* later are beyond it.  Reconciliation restores into a new ledger, before any
\* other operation, so no history is trimmed.
RestoreOrder(c, qty, anchored, status, cum, priced, b) ==
  LET o == RestoredOrder(qty, anchored, status, cum, priced, b)
  IN  /\ restoring
      /\ c \notin known
      /\ b \in BrokerIds => clientOf[b] = 0
      /\ known' = known \cup {c}
      /\ orders' = [orders EXCEPT ![c] = o]
      /\ active' = ActiveAfter(c, o)
      /\ clientOf' = [x \in BrokerIds |-> IF x = b THEN c ELSE clientOf[x]]
      /\ nextSeq' = BumpedSequence(c)
      /\ reported' = [reported EXCEPT ![c] = 0]
      /\ restoredCum' = [restoredCum EXCEPT ![c] = o.cum]
      /\ UNCHANGED <<finalIds, restoring>>

CancelRequest(c) ==
  /\ c \in known
  /\ orders' = [orders EXCEPT ![c] = MarkCancelPending(@)]
  /\ restoring' = FALSE
  /\ UNCHANGED <<known, active, finalIds, clientOf, nextSeq, reported, restoredCum>>

ApplyOrderEvent(c, e) ==
  /\ c \in known
  /\ e.broker \in BrokerIdsFor(c)
  /\ Coherent(orders[c], e)
  /\ Store(c, AfterOrderEvent(orders[c], e), OrderEventFill(orders[c], e))
  /\ restoring' = FALSE
  /\ UNCHANGED <<nextSeq, restoredCum>>

\* An event that adds nothing leaves the order where it is: apply_fill_event
\* returns before _sync_active.
ApplyFillEvent(c, e) ==
  LET o == AfterFillEvent(orders[c], e)
      n == FillEventFill(orders[c], e)
  IN  /\ c \in known
      /\ e.broker \in BrokerIdsFor(c)
      /\ IF n > 0
         THEN Store(c, o, n)
         ELSE /\ orders' = [orders EXCEPT ![c] = o]
              /\ clientOf' = [b \in BrokerIds |-> IF b = e.broker THEN c ELSE clientOf[b]]
              /\ UNCHANGED <<known, active, finalIds, reported>>
      /\ restoring' = FALSE
      /\ UNCHANGED <<nextSeq, restoredCum>>

Quantities == 1 .. MaxQty

\* Bound: the statuses of the events and restored orders of the runs; the ledger
\* treats every other open status as it treats one of these.
RestoredStatus == {"working", "cancel_pending"}
ReportedStatus == FinalStatus \cup RestoredStatus

Next ==
  \/ \E q \in Quantities, a \in BOOLEAN : AddIntent(q, a)
  \/ \E c \in ClientIds, q \in Quantities, a, p \in BOOLEAN, s \in RestoredStatus,
        n \in 0 .. MaxQty, b \in BrokerIds \cup {NoBroker} :
       RestoreOrder(c, q, a, s, n, p, b)
  \/ \E c \in ClientIds : CancelRequest(c)
  \/ \E c \in known, s \in ReportedStatus, n \in 0 .. MaxQty \cup {NoCum}, p \in BOOLEAN :
       \E b \in BrokerIdsFor(c) :
         ApplyOrderEvent(c, [status |-> s, cum |-> n, priced |-> p, broker |-> b])
  \/ \E c \in known, t \in TradeIds, n \in Quantities, p \in BOOLEAN :
       \E b \in BrokerIdsFor(c) :
         ApplyFillEvent(c, [trade |-> t, qty |-> n, priced |-> p, broker |-> b])

Spec == Init /\ [][Next]_vars

-------------------------------------------------------------------------------
(***************************************************************************)
(* Properties.                                                             *)
(***************************************************************************)

\* The hot-path scan of open orders misses none and offers no finished one: the
\* active ids are exactly the orders held that are not final, whatever order
\* events came in (_sync_active, mark_cancel_pending, restore_order).
ActiveIsOpen == active = {c \in known : ~IsFinal(orders[c])}

\* Every share counted as filled was handed to the strategy once, as one delta of
\* one event: cumulative and per-execution reports, in any mix, never make the
\* ledger and the position disagree (apply_order_event, apply_fill_event).
FillsReportedOnce ==
  \A c \in known : orders[c].cum = restoredCum[c] + reported[c] /\ orders[c].cum <= orders[c].qty

\* An order is only closed as filled with shares missing when no price whatever
\* could value them; otherwise the position has them all.
FilledIsWhole ==
  \A c \in known :
    orders[c].status = "filled" /\ orders[c].cum < orders[c].qty
      => ~orders[c].anchored /\ ~orders[c].priced /\ orders[c].cum = 0

\* Every order the broker has named is found under that name, and a name leads to
\* no other order, also after old orders were trimmed and their names dropped.
BrokerNamesResolve ==
  /\ \A c \in known : orders[c].broker # NoBroker => clientOf[orders[c].broker] = c
  /\ \A b \in BrokerIds :
       clientOf[b] # 0 => clientOf[b] \in known /\ orders[clientOf[b]].broker = b

\* The memory of finished orders is bounded: each one the ledger still holds is in
\* a history of at most max_final_history ids, except those restored complete.
HistoryBounded ==
  /\ Len(finalIds) <= MaxFinalHistory
  /\ \A c \in known : IsFinal(orders[c]) /\ restoredCum[c] < orders[c].qty
                        => \E i \in 1 .. Len(finalIds) : finalIds[i] = c

\* A new order never takes the id of one the ledger holds, restored or its own.
IdsFresh == \A c \in known : c < nextSeq

\* A finished order comes back only partly filled: by a late report of one that ended
\* with some of its shares, or by the late report that brings the first share of one that
\* ended with none, and the strategy is told of that share in the same step
\* (apply_order_event).
ReopenedPartlyFilled ==
  [][\A c \in known \cap known' :
       IsFinal(orders[c]) /\ ~IsFinal(orders'[c]) =>
         /\ orders'[c].status = "partially_filled"
         /\ 0 < orders'[c].cum /\ orders'[c].cum < orders'[c].qty
         /\ orders[c].cum > 0 \/ reported'[c] > reported[c]]_vars

\* A filled quantity never shrinks while the order is held.
FillsNeverUndone ==
  [][\A c \in known \cap known' : orders[c].cum <= orders'[c].cum]_vars

=============================================================================
