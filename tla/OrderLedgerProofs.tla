--------------------------- MODULE OrderLedgerProofs ---------------------------
(***************************************************************************)
(* What holds of the ledger for any number of orders, quantities, broker   *)
(* ids and executions, and any history bound.                              *)
(***************************************************************************)
EXTENDS OrderLedger, FillFeed, SumTheorems, TLAPS

-------------------------------------------------------------------------------
(***************************************************************************)
(* What one event does to one order.                                       *)
(***************************************************************************)

\* An order event keeps an order well formed, adds exactly the fill it returns and
\* never goes beyond the order's quantity (_apply_cumulative_fill).
LEMMA OrderEventEffect ==
  ASSUME NEW o \in Order, NEW e \in OrderEvents
  PROVE  /\ AfterOrderEvent(o, e) \in Order
         /\ OrderEventFill(o, e) \in Nat
         /\ AfterOrderEvent(o, e).cum = o.cum + OrderEventFill(o, e)
         /\ AfterOrderEvent(o, e).qty = o.qty
         /\ AfterOrderEvent(o, e).anchored = o.anchored
         /\ AfterOrderEvent(o, e).broker = IF e.broker = NoBroker THEN o.broker ELSE e.broker
         /\ o.cum <= o.qty => AfterOrderEvent(o, e).cum <= o.qty
<1>1. ClaimedCum(o, e) \in Nat /\ (o.cum <= o.qty => ClaimedCum(o, e) <= o.qty)
  BY DEF ClaimedCum, Order, OrderEvents
<1>2. OrderEventFill(o, e) \in Nat
  BY <1>1 DEF OrderEventFill, Order
<1>3. /\ CumAfterEvent(o, e) = o.cum + OrderEventFill(o, e)
      /\ CumAfterEvent(o, e) \in Nat
      /\ o.cum <= o.qty => CumAfterEvent(o, e) <= o.qty
  BY <1>1, <1>2 DEF CumAfterEvent, OrderEventFill, Order
<1>4. StatusAfterEvent(o, e) \in Status
  BY DEF StatusAfterEvent, Order, OrderEvents, Status, FinalStatus, OpenStatus
<1>5. WithBroker(o, e.broker) \in Order
  BY DEF WithBroker, Order, OrderEvents
<1>6. (WithBroker(o, e.broker).priced \/ OrderEventFill(o, e) > 0) \in BOOLEAN
  OBVIOUS
<1> QED
  BY <1>2, <1>3, <1>4, <1>5, <1>6 DEF AfterOrderEvent, WithBroker, Order

\* A fill event does too, and an event that adds nothing only names the order
\* (apply_fill_event, _apply_incremental_fill).
LEMMA FillEventEffect ==
  ASSUME NEW o \in Order, NEW e \in FillEvents
  PROVE  /\ AfterFillEvent(o, e) \in Order
         /\ FillEventFill(o, e) \in Nat
         /\ AfterFillEvent(o, e).cum = o.cum + FillEventFill(o, e)
         /\ AfterFillEvent(o, e).qty = o.qty
         /\ AfterFillEvent(o, e).anchored = o.anchored
         /\ AfterFillEvent(o, e).broker = IF e.broker = NoBroker THEN o.broker ELSE e.broker
         /\ o.cum <= o.qty => AfterFillEvent(o, e).cum <= o.qty
         /\ FillEventFill(o, e) = 0 => AfterFillEvent(o, e) = WithBroker(o, e.broker)
         /\ FillEventFill(o, e) > 0 => AfterFillEvent(o, e).status =
              IF AfterFillEvent(o, e).cum >= o.qty THEN "filled" ELSE "partially_filled"
<1>1. LeavesQty(o) \in Nat /\ o.cum + LeavesQty(o) \in Nat
      /\ (o.cum <= o.qty => o.cum + LeavesQty(o) = o.qty)
  BY DEF LeavesQty, Order
<1>2. FillEventFill(o, e) \in Nat /\ FillEventFill(o, e) <= LeavesQty(o)
  BY <1>1 DEF FillEventFill, FillEvents
<1>3. WithBroker(o, e.broker) \in Order
  BY DEF WithBroker, Order, FillEvents
<1>4. (o.seen \cup {e.trade}) \in SUBSET TradeIds
  BY DEF Order, FillEvents
<1>5. {"filled", "partially_filled"} \subseteq Status
  BY DEF Status, FinalStatus, OpenStatus
<1>6. CASE FillEventFill(o, e) = 0
  BY <1>2, <1>3, <1>6 DEF AfterFillEvent, WithBroker, Order
<1>7. CASE FillEventFill(o, e) > 0
  <2> DEFINE w == WithBroker(o, e.broker)
             s == IF o.cum + FillEventFill(o, e) >= o.qty THEN "filled" ELSE "partially_filled"
             r == [w EXCEPT !.cum = @ + FillEventFill(o, e), !.status = s,
                            !.priced = TRUE, !.seen = @ \cup {e.trade}]
  <2>1. AfterFillEvent(o, e) = r
    BY <1>7, <1>2 DEF AfterFillEvent
  <2>2. /\ w \in Order /\ w.cum = o.cum /\ w.qty = o.qty /\ w.seen = o.seen
        /\ w.anchored = o.anchored
        /\ w.broker = IF e.broker = NoBroker THEN o.broker ELSE e.broker
    BY <1>3 DEF WithBroker, Order
  <2>3. s \in Status /\ o.cum \in Nat /\ o.qty \in Nat
    BY <1>5 DEF Order
  <2> HIDE DEF w, s
  <2>4. r \in Order
    <3>1. w.cum + FillEventFill(o, e) \in Nat /\ (w.seen \cup {e.trade}) \in SUBSET TradeIds
      BY <1>2, <1>4, <2>2, <2>3
    <3> QED
      BY <2>2, <2>3, <3>1 DEF Order
  <2>5. /\ r.cum = o.cum + FillEventFill(o, e) /\ r.qty = o.qty /\ r.status = s
        /\ r.anchored = o.anchored
        /\ r.broker = IF e.broker = NoBroker THEN o.broker ELSE e.broker
    BY <2>2 DEF Order
  <2>6. r.status = IF r.cum >= o.qty THEN "filled" ELSE "partially_filled"
    BY <2>5 DEF s
  <2> QED
    BY <1>1, <1>2, <1>7, <2>1, <2>3, <2>4, <2>5, <2>6
<1> QED
  BY <1>2, <1>6, <1>7

\* _coerce and clamp of restore_order: the restored order is well formed, holds no
\* more than its quantity, and is final only if it is complete.
LEMMA RestoredEffect ==
  ASSUME NEW q \in Nat \ {0}, NEW a \in BOOLEAN, NEW s \in RestoredStatus, NEW n \in Nat,
         NEW p \in BOOLEAN, NEW b \in BrokerIds \cup {NoBroker}
  PROVE  /\ RestoredOrder(q, a, s, n, p, b) \in Order
         /\ RestoredOrder(q, a, s, n, p, b).cum <= q
         /\ RestoredOrder(q, a, s, n, p, b).qty = q
         /\ RestoredOrder(q, a, s, n, p, b).broker = b
         /\ IsFinal(RestoredOrder(q, a, s, n, p, b))
              <=> RestoredOrder(q, a, s, n, p, b).cum = q
BY DEF RestoredOrder, Order, Status, FinalStatus, OpenStatus, IsFinal, RestoredStatus

-------------------------------------------------------------------------------
(***************************************************************************)
(* The history of finished orders.                                         *)
(***************************************************************************)

\* The history after an order was appended, or not, and the oldest ids were popped
\* is a list of ids no longer than the bound (_trim_final_history).
LEMMA HistoryEffect ==
  ASSUME TypeOK, NEW c \in ClientIds, NEW o \in Order
  PROVE  /\ HistoryAfter(c, o) \in Seq(ClientIds)
         /\ Overflow(HistoryAfter(c, o)) \in 0 .. Len(HistoryAfter(c, o))
         /\ Len(HistoryAfter(c, o)) - Overflow(HistoryAfter(c, o)) <= MaxFinalHistory
         /\ Trimmed(c, o) \subseteq ClientIds \ ActiveAfter(c, o)
         /\ ActiveAfter(c, o) \subseteq ClientIds
<1>1. HistoryAfter(c, o) \in Seq(ClientIds)
  BY DEF TypeOK, HistoryAfter
<1>2. /\ Overflow(HistoryAfter(c, o)) \in 0 .. Len(HistoryAfter(c, o))
      /\ Len(HistoryAfter(c, o)) - Overflow(HistoryAfter(c, o)) <= MaxFinalHistory
  BY <1>1, BoundsAssumption DEF Overflow
<1>3. \A i \in 1 .. Overflow(HistoryAfter(c, o)) : HistoryAfter(c, o)[i] \in ClientIds
  BY <1>1, <1>2
<1> QED
  BY <1>1, <1>2, <1>3 DEF Trimmed, ActiveAfter, TypeOK

-------------------------------------------------------------------------------
(***************************************************************************)
(* The inductive invariant: the ledger's safety invariants need each other.*)
(* Names resolve only while forgotten orders are absent, the history holds *)
(* an order only because it left the active set, and so on.                *)
(***************************************************************************)

LedgerInv ==
  /\ TypeOK
  /\ ActiveIsOpen
  /\ FillsReportedOnce
  /\ FilledIsWhole
  /\ BrokerNamesResolve
  /\ HistoryBounded
  /\ IdsFresh

\* The filled quantity of one order is accounted for.
Whole(o) == o.status = "filled" /\ o.cum < o.qty => ~o.anchored /\ ~o.priced /\ o.cum = 0

\* A new ledger is consistent (OrderLedger.__init__).
LEMMA InitInv == Init => LedgerInv
<1> SUFFICES ASSUME Init PROVE LedgerInv
  OBVIOUS
<1>1. Absent \in Order
  BY DEF Absent, NewOrder, Order, Status, OpenStatus
<1>2. TypeOK
  BY <1>1, BoundsAssumption DEF Init, TypeOK, ClientIds
<1> QED
  BY <1>2, BoundsAssumption DEF Init, LedgerInv, ActiveIsOpen, FillsReportedOnce,
     FilledIsWhole, BrokerNamesResolve, HistoryBounded, IdsFresh

\* Storing a well-formed successor of order c, with the fill it adds, keeps the
\* ledger consistent, also when older orders are trimmed for it.
LEMMA StoreInv ==
  ASSUME LedgerInv, NEW c \in known, NEW o \in Order, NEW n \in Nat,
         o.cum = orders[c].cum + n, o.cum <= o.qty, o.qty = orders[c].qty, Whole(o),
         \/ o.broker = orders[c].broker
         \/ orders[c].broker = NoBroker /\ o.broker \in BrokerIds /\ clientOf[o.broker] = 0,
         Store(c, o, n), restoring' \in BOOLEAN, UNCHANGED <<nextSeq, restoredCum>>
  PROVE  LedgerInv'
<1> DEFINE gone == Trimmed(c, o)
           h == HistoryAfter(c, o)
           k == Overflow(h)
           upd == [orders EXCEPT ![c] = o]
<1>1. c \in ClientIds /\ known \subseteq ClientIds /\ orders \in [ClientIds -> Order]
  BY DEF LedgerInv, TypeOK
<1>2. /\ h \in Seq(ClientIds) /\ k \in 0 .. Len(h) /\ Len(h) - k <= MaxFinalHistory
      /\ gone \subseteq ClientIds \ ActiveAfter(c, o) /\ ActiveAfter(c, o) \subseteq ClientIds
      /\ gone = {h[i] : i \in 1 .. k} \ ActiveAfter(c, o)
  BY <1>1, HistoryEffect DEF LedgerInv, Trimmed
<1>3. /\ known' = (known \cup {c}) \ gone
      /\ orders' = [d \in ClientIds |-> IF d \in gone THEN Absent ELSE upd[d]]
      /\ active' = ActiveAfter(c, o)
      /\ finalIds' = SubSeq(h, k + 1, Len(h))
      /\ clientOf' = [b \in BrokerIds |->
                        IF \E d \in gone : upd[d].broker = b THEN 0
                        ELSE IF b = o.broker THEN c ELSE clientOf[b]]
      /\ reported' = [d \in ClientIds |->
                        IF d \in gone THEN 0 ELSE IF d = c THEN reported[c] + n
                        ELSE reported[d]]
  BY DEF Store, Forgotten
<1>4. /\ Len(finalIds') = Len(h) - k
      /\ \A i \in 1 .. Len(h) - k : finalIds'[i] = h[i + k]
      /\ finalIds' \in Seq(ClientIds)
  BY <1>2, <1>3
<1>5. Absent \in Order
  BY DEF Absent, NewOrder, Order, Status, OpenStatus
<1>6. /\ upd \in [ClientIds -> Order] /\ upd[c] = o
      /\ \A d \in ClientIds \ {c} : upd[d] = orders[d]
  BY <1>1
<1> HIDE DEF gone, h, k, upd
<1>7. TypeOK'
  <2>1. orders' \in [ClientIds -> Order]
    BY <1>3, <1>5, <1>6
  <2>2. \A d \in ClientIds \ known' : orders'[d] = Absent
    BY <1>1, <1>3, <1>6 DEF LedgerInv, TypeOK
  <2>3. clientOf' \in [BrokerIds -> ClientIds \cup {0}]
    BY <1>1, <1>3 DEF LedgerInv, TypeOK
  <2>4. reported' \in [ClientIds -> Nat]
    BY <1>1, <1>3 DEF LedgerInv, TypeOK
  <2> QED
    BY <1>1, <1>2, <1>3, <1>4, <2>1, <2>2, <2>3, <2>4 DEF LedgerInv, TypeOK
<1>8. ActiveIsOpen'
  BY <1>1, <1>2, <1>3, <1>6 DEF LedgerInv, ActiveIsOpen, ActiveAfter, IsFinal
<1>9. FillsReportedOnce'
  <2> SUFFICES ASSUME NEW d \in known'
               PROVE  orders'[d].cum = restoredCum'[d] + reported'[d]
                      /\ orders'[d].cum <= orders'[d].qty
    BY DEF FillsReportedOnce
  <2>1. d \in known /\ d \in ClientIds /\ d \notin gone
    BY <1>1, <1>3
  <2>2. orders[d].cum = restoredCum[d] + reported[d] /\ orders[d].cum <= orders[d].qty
    BY <2>1 DEF LedgerInv, FillsReportedOnce
  <2>3. reported[d] \in Nat /\ restoredCum[d] \in Nat
    BY <2>1 DEF LedgerInv, TypeOK
  <2>4. CASE d = c
    BY <1>3, <1>6, <2>1, <2>2, <2>3, <2>4
  <2>5. CASE d # c
    BY <1>3, <1>6, <2>1, <2>2, <2>5
  <2> QED
    BY <2>4, <2>5
<1>10. FilledIsWhole'
  BY <1>1, <1>3, <1>6 DEF LedgerInv, FilledIsWhole, Whole
<1>11. BrokerNamesResolve'
  <2>1. \A d \in known : orders[d].broker # NoBroker => clientOf[orders[d].broker] = d
    BY DEF LedgerInv, BrokerNamesResolve
  <2>2. \A b \in BrokerIds :
          clientOf[b] # 0 => clientOf[b] \in known /\ orders[clientOf[b]].broker = b
    BY DEF LedgerInv, BrokerNamesResolve
  <2>3. \A d \in ClientIds \ known : orders[d].broker = NoBroker
    BY DEF LedgerInv, TypeOK, Absent, NewOrder
  <2>4. o.broker \in BrokerIds \cup {NoBroker} /\ \A d \in ClientIds : orders[d].broker \in BrokerIds \cup {NoBroker}
    BY <1>1 DEF Order
  <2>5. \A d \in known \ {c} : orders[d].broker \in BrokerIds => orders[d].broker # o.broker
    BY <1>1, <2>1, NoBrokerAssumption DEF ClientIds
  <2>6. ASSUME NEW d \in known', orders'[d].broker # NoBroker
        PROVE  clientOf'[orders'[d].broker] = d
    <3>1. d \in known /\ d \in ClientIds /\ d \notin gone /\ orders'[d] = upd[d]
      BY <1>1, <1>3
    <3>2. upd[d].broker \in BrokerIds
      BY <1>6, <2>4, <2>6, <3>1
    <3>3. \A x \in gone : upd[x].broker # upd[d].broker
      BY <1>2, <1>6, <2>1, <2>3, <2>5, <3>1, <3>2, NoBrokerAssumption
    <3>4. (IF upd[d].broker = o.broker THEN c ELSE clientOf[upd[d].broker]) = d
      BY <1>6, <2>1, <2>5, <3>1, <3>2, NoBrokerAssumption
    <3> QED
      BY <1>3, <3>1, <3>2, <3>3, <3>4
  <2>7. ASSUME NEW b \in BrokerIds, clientOf'[b] # 0
        PROVE  clientOf'[b] \in known' /\ orders'[clientOf'[b]].broker = b
    <3>1. /\ \A x \in gone : upd[x].broker # b
          /\ clientOf'[b] = IF b = o.broker THEN c ELSE clientOf[b]
      BY <1>3, <2>7
    <3>2. CASE b = o.broker
      BY <1>1, <1>3, <1>6, <3>1, <3>2
    <3>3. CASE b # o.broker
      <4>1. clientOf[b] \in known /\ orders[clientOf[b]].broker = b /\ clientOf'[b] = clientOf[b]
        BY <2>2, <2>7, <3>1, <3>3
      <4>2. clientOf[b] # c
        BY <3>3, <4>1, NoBrokerAssumption, <2>4
      <4> QED
        BY <1>1, <1>3, <1>6, <3>1, <4>1, <4>2
    <3> QED
      BY <3>2, <3>3
  <2> QED
    BY <2>6, <2>7 DEF BrokerNamesResolve
<1>12. HistoryBounded'
  <2>1. Len(finalIds') <= MaxFinalHistory
    BY <1>2, <1>4
  <2>2. ASSUME NEW d \in known', IsFinal(orders'[d]), restoredCum'[d] < orders'[d].qty
        PROVE  \E i \in 1 .. Len(finalIds') : finalIds'[i] = d
    <3>1. /\ d \in known /\ d \in ClientIds /\ d \notin gone /\ orders'[d] = upd[d]
          /\ d \notin ActiveAfter(c, o) /\ restoredCum' = restoredCum
      BY <1>1, <1>3, <1>7, <1>8, <2>2 DEF ActiveIsOpen
    <3>2. \E i \in 1 .. Len(h) : h[i] = d
      <4>1. CASE d = c /\ c \in active
        <5>1. h = Append(finalIds, c)
          BY <1>3, <1>6, <2>2, <3>1, <4>1 DEF h, HistoryAfter
        <5> QED
          BY <4>1, <5>1 DEF LedgerInv, TypeOK
      <4>2. CASE d # c \/ c \notin active
        <5>1. IsFinal(orders[d]) /\ restoredCum[d] < orders[d].qty
          BY <1>1, <1>6, <2>2, <3>1, <4>2 DEF LedgerInv, ActiveIsOpen
        <5>2. PICK i \in 1 .. Len(finalIds) : finalIds[i] = d
          BY <3>1, <5>1 DEF LedgerInv, HistoryBounded
        <5>3. finalIds \in Seq(ClientIds)
          BY DEF LedgerInv, TypeOK
        <5> QED
          BY <1>1, <5>2, <5>3 DEF h, HistoryAfter
      <4> QED
        BY <4>1, <4>2
    <3>3. PICK i \in 1 .. Len(h) : h[i] = d
      BY <3>2
    <3>4. i > k
      BY <1>2, <3>1, <3>3
    <3>5. i - k \in 1 .. Len(h) - k /\ finalIds'[i - k] = d
      BY <1>2, <1>4, <3>3, <3>4
    <3> QED
      BY <1>4, <3>5
  <2> QED
    BY <2>1, <2>2 DEF HistoryBounded
<1>13. IdsFresh'
  BY <1>1, <1>3 DEF LedgerInv, IdsFresh
<1> QED
  BY <1>7, <1>8, <1>9, <1>10, <1>11, <1>12, <1>13 DEF LedgerInv

\* Adding an intent keeps the invariant: its id is new and it starts empty.
LEMMA AddIntentInv ==
  ASSUME LedgerInv, NEW q \in Nat \ {0}, NEW a \in BOOLEAN, AddIntent(q, a)
  PROVE  LedgerInv'
<1>1. nextSeq \in ClientIds /\ nextSeq \notin known /\ nextSeq \in Nat
  BY BoundsAssumption DEF LedgerInv, TypeOK, AddIntent, ClientIds, IdsFresh
<1>2. /\ NewOrder(q, a) \in Order /\ NewOrder(q, a).cum = 0 /\ NewOrder(q, a).qty = q
      /\ NewOrder(q, a).broker = NoBroker /\ NewOrder(q, a).status = "new_pending"
  BY DEF NewOrder, Order, Status, OpenStatus
<1>3. ~IsFinal(NewOrder(q, a))
  BY <1>2 DEF IsFinal, FinalStatus
<1>4. /\ known' = known \cup {nextSeq} /\ active' = active \cup {nextSeq}
      /\ orders' = [orders EXCEPT ![nextSeq] = NewOrder(q, a)]
      /\ reported' = [reported EXCEPT ![nextSeq] = 0]
      /\ restoredCum' = [restoredCum EXCEPT ![nextSeq] = 0]
      /\ nextSeq' = nextSeq + 1 /\ nextSeq <= MaxOrders /\ restoring' = FALSE
      /\ finalIds' = finalIds /\ clientOf' = clientOf
  BY DEF AddIntent
<1>5. /\ orders'[nextSeq] = NewOrder(q, a)
      /\ \A d \in ClientIds \ {nextSeq} : orders'[d] = orders[d]
      /\ orders' \in [ClientIds -> Order]
  BY <1>1, <1>2, <1>4 DEF LedgerInv, TypeOK
<1>6. TypeOK'
  <2>1. nextSeq' \in 1 .. MaxOrders + 1
    BY <1>1, <1>4, BoundsAssumption
  <2>2. \A d \in ClientIds \ known' : orders'[d] = Absent
    BY <1>1, <1>4, <1>5 DEF LedgerInv, TypeOK
  <2>3. reported' \in [ClientIds -> Nat] /\ restoredCum' \in [ClientIds -> Nat]
    BY <1>4 DEF LedgerInv, TypeOK
  <2> QED
    BY <1>1, <1>4, <1>5, <2>1, <2>2, <2>3 DEF LedgerInv, TypeOK
<1>7. ActiveIsOpen'
  BY <1>1, <1>3, <1>4, <1>5, <1>6 DEF LedgerInv, TypeOK, ActiveIsOpen, IsFinal
<1>8. FillsReportedOnce'
  BY <1>1, <1>2, <1>4, <1>5 DEF LedgerInv, TypeOK, FillsReportedOnce
<1>9. FilledIsWhole'
  BY <1>1, <1>2, <1>4, <1>5 DEF LedgerInv, TypeOK, FilledIsWhole
<1>10. BrokerNamesResolve'
  BY <1>1, <1>2, <1>4, <1>5, NoBrokerAssumption DEF LedgerInv, TypeOK, BrokerNamesResolve
<1>11. HistoryBounded'
  BY <1>1, <1>3, <1>4, <1>5 DEF LedgerInv, TypeOK, HistoryBounded, IsFinal
<1>12. IdsFresh'
  BY <1>1, <1>4 DEF LedgerInv, TypeOK, IdsFresh, ClientIds
<1> QED
  BY <1>6, <1>7, <1>8, <1>9, <1>10, <1>11, <1>12 DEF LedgerInv

\* Restoring an order keeps the invariant: what it had filled before counts as
\* restored, not as reported.
LEMMA RestoreInv ==
  ASSUME LedgerInv, NEW c \in ClientIds, NEW q \in Nat \ {0}, NEW a \in BOOLEAN,
         NEW s \in RestoredStatus, NEW n \in Nat, NEW p \in BOOLEAN,
         NEW b \in BrokerIds \cup {NoBroker}, RestoreOrder(c, q, a, s, n, p, b)
  PROVE  LedgerInv'
<1> DEFINE o == RestoredOrder(q, a, s, n, p, b)
<1>1. /\ o \in Order /\ o.cum <= q /\ o.qty = q /\ o.broker = b
      /\ IsFinal(o) <=> o.cum = q
  BY RestoredEffect
<1>2. /\ c \notin known /\ known' = known \cup {c} /\ active' = ActiveAfter(c, o)
      /\ b \in BrokerIds => clientOf[b] = 0
      /\ orders' = [orders EXCEPT ![c] = o]
      /\ clientOf' = [x \in BrokerIds |-> IF x = b THEN c ELSE clientOf[x]]
      /\ nextSeq' = IF c >= nextSeq THEN c + 1 ELSE nextSeq
      /\ reported' = [reported EXCEPT ![c] = 0]
      /\ restoredCum' = [restoredCum EXCEPT ![c] = o.cum]
      /\ finalIds' = finalIds /\ restoring' = restoring
  BY DEF RestoreOrder, BumpedSequence
<1> HIDE DEF o
<1>3. /\ orders'[c] = o /\ orders' \in [ClientIds -> Order]
      /\ \A d \in ClientIds \ {c} : orders'[d] = orders[d]
      /\ restoredCum' \in [ClientIds -> Nat] /\ restoredCum'[c] = o.cum
      /\ reported' \in [ClientIds -> Nat] /\ reported'[c] = 0
      /\ o.cum \in Nat
  BY <1>1, <1>2 DEF LedgerInv, TypeOK, Order
<1>4. TypeOK'
  <2>1. clientOf' \in [BrokerIds -> ClientIds \cup {0}]
    BY <1>2 DEF LedgerInv, TypeOK
  <2>2. nextSeq' \in 1 .. MaxOrders + 1
    BY <1>2, BoundsAssumption DEF LedgerInv, TypeOK, ClientIds
  <2>3. \A d \in ClientIds \ known' : orders'[d] = Absent
    BY <1>2, <1>3 DEF LedgerInv, TypeOK
  <2> QED
    BY <1>2, <1>3, <2>1, <2>2, <2>3 DEF LedgerInv, TypeOK, ActiveAfter
<1>5. ActiveIsOpen'
  BY <1>2, <1>3 DEF LedgerInv, TypeOK, ActiveIsOpen, ActiveAfter, IsFinal
<1>6. FillsReportedOnce'
  BY <1>1, <1>2, <1>3 DEF LedgerInv, TypeOK, FillsReportedOnce
<1>7. FilledIsWhole'
  <2>1. o.status = "filled" => o.cum = q
    BY <1>1 DEF IsFinal, FinalStatus
  <2> QED
    BY <1>1, <1>2, <1>3, <2>1 DEF LedgerInv, TypeOK, FilledIsWhole
<1>8. BrokerNamesResolve'
  <2>1. \A d \in known : d # 0 /\ d # c /\ orders'[d] = orders[d]
    BY <1>2, <1>3 DEF LedgerInv, TypeOK, ClientIds
  <2>2. \A d \in known : orders[d].broker \in BrokerIds \cup {NoBroker}
    BY DEF LedgerInv, TypeOK, Order
  <2> QED
    BY <1>1, <1>2, <1>3, <2>1, <2>2, NoBrokerAssumption DEF LedgerInv, TypeOK, BrokerNamesResolve
<1>9. HistoryBounded'
  BY <1>1, <1>2, <1>3 DEF LedgerInv, TypeOK, HistoryBounded, IsFinal
<1>10. IdsFresh'
  BY <1>2, BoundsAssumption DEF LedgerInv, TypeOK, IdsFresh, ClientIds
<1> QED
  BY <1>4, <1>5, <1>6, <1>7, <1>8, <1>9, <1>10 DEF LedgerInv

\* Asking for a cancel changes the status of an open order and nothing else.
LEMMA CancelRequestInv ==
  ASSUME LedgerInv, NEW c \in ClientIds, CancelRequest(c)
  PROVE  LedgerInv'
<1> DEFINE o == MarkCancelPending(orders[c])
<1>1. /\ o \in Order /\ o.cum = orders[c].cum /\ o.qty = orders[c].qty
      /\ o.broker = orders[c].broker /\ o.anchored = orders[c].anchored
      /\ o.priced = orders[c].priced /\ (IsFinal(o) <=> IsFinal(orders[c]))
      /\ IsFinal(o) => o = orders[c]
  BY DEF LedgerInv, TypeOK, MarkCancelPending, Order, IsFinal, Status, FinalStatus, OpenStatus
<1>2. /\ c \in known /\ orders' = [orders EXCEPT ![c] = o]
      /\ UNCHANGED <<known, active, finalIds, clientOf, nextSeq, reported, restoredCum>>
      /\ restoring' = FALSE
  BY DEF CancelRequest
<1> HIDE DEF o
<1>3. /\ orders'[c] = o /\ orders' \in [ClientIds -> Order]
      /\ \A d \in ClientIds \ {c} : orders'[d] = orders[d]
  BY <1>1, <1>2 DEF LedgerInv, TypeOK
<1>4. TypeOK'
  BY <1>2, <1>3 DEF LedgerInv, TypeOK
<1>5. ActiveIsOpen'
  BY <1>1, <1>2, <1>3 DEF LedgerInv, TypeOK, ActiveIsOpen, IsFinal
<1>6. FillsReportedOnce' /\ IdsFresh'
  BY <1>1, <1>2, <1>3 DEF LedgerInv, TypeOK, FillsReportedOnce, IdsFresh
<1>7. FilledIsWhole'
  <2>1. o.status = "filled" => o = orders[c]
    BY <1>1 DEF IsFinal, FinalStatus
  <2> QED
    BY <1>1, <1>2, <1>3, <2>1 DEF LedgerInv, TypeOK, FilledIsWhole
<1>8. BrokerNamesResolve'
  BY <1>1, <1>2, <1>3 DEF LedgerInv, TypeOK, BrokerNamesResolve
<1>9. HistoryBounded'
  <2>1. \A d \in known : /\ IsFinal(orders'[d]) <=> IsFinal(orders[d])
                         /\ orders'[d].qty = orders[d].qty
    BY <1>1, <1>2, <1>3 DEF LedgerInv, TypeOK, IsFinal
  <2> QED
    BY <1>2, <2>1 DEF LedgerInv, HistoryBounded, IsFinal
<1> QED
  BY <1>4, <1>5, <1>6, <1>7, <1>8, <1>9 DEF LedgerInv

\* An order event of any content keeps the invariant.
LEMMA OrderEventInv ==
  ASSUME LedgerInv, NEW c \in known, NEW e \in OrderEvents, ApplyOrderEvent(c, e)
  PROVE  LedgerInv'
<1> DEFINE o == AfterOrderEvent(orders[c], e)
           n == OrderEventFill(orders[c], e)
<1>1. orders[c] \in Order /\ orders[c].cum <= orders[c].qty /\ Whole(orders[c])
  BY DEF LedgerInv, TypeOK, FillsReportedOnce, FilledIsWhole, Whole
<1>2. /\ o \in Order /\ n \in Nat /\ o.cum = orders[c].cum + n /\ o.cum <= o.qty
      /\ o.qty = orders[c].qty
      /\ o.broker = IF e.broker = NoBroker THEN orders[c].broker ELSE e.broker
  BY <1>1, OrderEventEffect
<1>3. Whole(o)
  <2>1. /\ o.cum = CumAfterEvent(orders[c], e)
        /\ o.status = StatusAfterEvent(orders[c], e)
        /\ o.anchored = orders[c].anchored /\ (o.priced <=> orders[c].priced \/ n > 0)
    BY <1>1 DEF AfterOrderEvent, WithBroker, Order
  <2>2. Coherent(orders[c], e)
    BY DEF ApplyOrderEvent
  <2>3. orders[c].cum \in Nat /\ orders[c].qty \in Nat /\ ClaimedCum(orders[c], e) \in Nat
    BY <1>1 DEF Order, ClaimedCum, OrderEvents
  <2> SUFFICES ASSUME o.status = "filled", o.cum < o.qty
               PROVE  ~o.anchored /\ ~o.priced /\ o.cum = 0
    BY DEF Whole
  <2>4. CumAfterEvent(orders[c], e) < orders[c].qty /\ CumAfterEvent(orders[c], e) = 0
        /\ StatusAfterEvent(orders[c], e) = "filled"
    BY <1>2, <2>1, <2>3 DEF StatusAfterEvent
  <2>5. n = 0 /\ orders[c].cum = 0
    BY <1>2, <2>1, <2>3, <2>4
  <2>6. CASE orders[c].status = "filled"
    BY <1>1, <1>2, <2>1, <2>5, <2>6 DEF Whole
  <2>7. CASE orders[c].status # "filled"
    <3>1. e.status = "filled"
      BY <2>3, <2>4, <2>7 DEF StatusAfterEvent
    <3>2. ClaimedCum(orders[c], e) > orders[c].cum
      BY <1>2, <2>2, <2>3, <2>4, <2>5, <3>1 DEF Coherent
    <3> QED
      BY <2>1, <2>3, <2>5, <3>2, <1>2 DEF OrderEventFill
  <2> QED
    BY <2>6, <2>7
<1>4. \/ o.broker = orders[c].broker
      \/ orders[c].broker = NoBroker /\ o.broker \in BrokerIds /\ clientOf[o.broker] = 0
  BY <1>2 DEF ApplyOrderEvent, BrokerIdsFor
<1>5. /\ Store(c, o, n) /\ restoring' \in BOOLEAN /\ UNCHANGED <<nextSeq, restoredCum>>
  BY DEF ApplyOrderEvent
<1> HIDE DEF o, n
<1> QED
  BY <1>2, <1>3, <1>4, <1>5, StoreInv

\* An execution keeps the invariant, a duplicate or a late one included.
LEMMA FillEventInv ==
  ASSUME LedgerInv, NEW c \in known, NEW e \in FillEvents, ApplyFillEvent(c, e)
  PROVE  LedgerInv'
<1> DEFINE o == AfterFillEvent(orders[c], e)
           n == FillEventFill(orders[c], e)
<1>1. orders[c] \in Order /\ orders[c].cum <= orders[c].qty /\ Whole(orders[c])
  BY DEF LedgerInv, TypeOK, FillsReportedOnce, FilledIsWhole, Whole
<1>2. /\ o \in Order /\ n \in Nat /\ o.cum = orders[c].cum + n /\ o.cum <= o.qty
      /\ o.qty = orders[c].qty /\ o.anchored = orders[c].anchored
      /\ o.broker = IF e.broker = NoBroker THEN orders[c].broker ELSE e.broker
      /\ n = 0 => o = WithBroker(orders[c], e.broker)
      /\ n > 0 => o.status = IF o.cum >= o.qty THEN "filled" ELSE "partially_filled"
  BY <1>1, FillEventEffect
<1>3. \/ o.broker = orders[c].broker
      \/ orders[c].broker = NoBroker /\ o.broker \in BrokerIds /\ clientOf[o.broker] = 0
  BY <1>2 DEF ApplyFillEvent, BrokerIdsFor
<1>4. /\ IF n > 0
         THEN Store(c, o, n)
         ELSE /\ orders' = [orders EXCEPT ![c] = o]
              /\ clientOf' = [b \in BrokerIds |-> IF b = e.broker THEN c ELSE clientOf[b]]
              /\ UNCHANGED <<known, active, finalIds, reported>>
      /\ restoring' = FALSE /\ UNCHANGED <<nextSeq, restoredCum>>
      /\ e.broker \in BrokerIdsFor(c)
  BY DEF ApplyFillEvent
<1> HIDE DEF o, n
<1>5. CASE n > 0
  <2>1. Whole(o)
    BY <1>2, <1>5 DEF Whole, Order
  <2> QED
    BY <1>2, <1>3, <1>4, <1>5, <2>1, StoreInv
<1>6. CASE n = 0
  <2>1. /\ o.status = orders[c].status /\ o.cum = orders[c].cum /\ o.priced = orders[c].priced
        /\ o.anchored = orders[c].anchored /\ o.qty = orders[c].qty
    BY <1>1, <1>2, <1>6 DEF WithBroker, Order
  <2>2. /\ orders'[c] = o /\ orders' \in [ClientIds -> Order]
        /\ \A d \in ClientIds \ {c} : orders'[d] = orders[d]
        /\ clientOf' = [b \in BrokerIds |-> IF b = e.broker THEN c ELSE clientOf[b]]
        /\ UNCHANGED <<known, active, finalIds, reported, nextSeq, restoredCum>>
        /\ c \in ClientIds
    BY <1>2, <1>4, <1>6 DEF LedgerInv, TypeOK
  <2>3. TypeOK'
    BY <1>4, <2>2 DEF LedgerInv, TypeOK
  <2>4. /\ \A d \in known : /\ orders'[d].status = orders[d].status
                            /\ orders'[d].cum = orders[d].cum
                            /\ orders'[d].qty = orders[d].qty
                            /\ orders'[d].priced = orders[d].priced
                            /\ orders'[d].anchored = orders[d].anchored
    BY <2>1, <2>2 DEF LedgerInv, TypeOK
  <2>5. ActiveIsOpen' /\ FillsReportedOnce' /\ FilledIsWhole' /\ IdsFresh' /\ HistoryBounded'
    BY <2>2, <2>4 DEF LedgerInv, ActiveIsOpen, FillsReportedOnce, FilledIsWhole, IdsFresh,
       HistoryBounded, IsFinal
  <2>6. BrokerNamesResolve'
    <3>1. \A d \in known : d # 0 /\ d \in ClientIds
      BY DEF LedgerInv, TypeOK, ClientIds
    <3>2. \A d \in known : orders[d].broker \in BrokerIds \cup {NoBroker}
      BY DEF LedgerInv, TypeOK, Order
    <3>3. e.broker \in BrokerIds \cup {NoBroker}
      BY DEF FillEvents
    <3>4. \/ e.broker = NoBroker
          \/ e.broker = orders[c].broker
          \/ orders[c].broker = NoBroker /\ clientOf[e.broker] = 0
      BY <1>4 DEF BrokerIdsFor
    <3>5. \A d \in known : orders[d].broker # NoBroker => clientOf[orders[d].broker] = d
      BY DEF LedgerInv, BrokerNamesResolve
    <3>6. \A b \in BrokerIds :
            clientOf[b] # 0 => clientOf[b] \in known /\ orders[clientOf[b]].broker = b
      BY DEF LedgerInv, BrokerNamesResolve
    <3>7. ASSUME NEW d \in known, orders'[d].broker # NoBroker
          PROVE  clientOf'[orders'[d].broker] = d
      BY <1>2, <2>2, <3>1, <3>2, <3>3, <3>4, <3>5, <3>7, NoBrokerAssumption
    <3>8. ASSUME NEW b \in BrokerIds, clientOf'[b] # 0
          PROVE  clientOf'[b] \in known /\ orders'[clientOf'[b]].broker = b
      <4>1. CASE b = e.broker
        BY <1>2, <2>2, <3>8, <4>1, NoBrokerAssumption
      <4>2. CASE b # e.broker
        <5>1. clientOf'[b] = clientOf[b] /\ clientOf[b] \in known /\ orders[clientOf[b]].broker = b
          BY <2>2, <3>6, <3>8, <4>2
        <5>2. clientOf[b] = c => e.broker = NoBroker
          BY <3>4, <4>2, <5>1, NoBrokerAssumption
        <5> QED
          BY <1>2, <2>2, <3>1, <5>1, <5>2
      <4> QED
        BY <4>1, <4>2
    <3> QED
      BY <2>2, <3>7, <3>8 DEF BrokerNamesResolve
  <2> QED
    BY <2>3, <2>5, <2>6 DEF LedgerInv
<1> QED
  BY <1>2, <1>5, <1>6

-------------------------------------------------------------------------------
(***************************************************************************)
(* The theorems.                                                           *)
(***************************************************************************)

\* Every step of the ledger keeps its invariant.
LEMMA NextInv == LedgerInv /\ [Next]_vars => LedgerInv'
<1> SUFFICES ASSUME LedgerInv, [Next]_vars PROVE LedgerInv'
  OBVIOUS
<1>1. ASSUME NEW q \in Quantities, NEW a \in BOOLEAN, AddIntent(q, a)
      PROVE  LedgerInv'
  BY <1>1, AddIntentInv, BoundsAssumption DEF Quantities
<1>2. ASSUME NEW c \in ClientIds, NEW q \in Quantities, NEW a \in BOOLEAN, NEW p \in BOOLEAN,
             NEW s \in RestoredStatus, NEW n \in 0 .. MaxQty,
             NEW b \in BrokerIds \cup {NoBroker}, RestoreOrder(c, q, a, s, n, p, b)
      PROVE  LedgerInv'
  <2>1. q \in Nat \ {0} /\ n \in Nat
    BY BoundsAssumption DEF Quantities
  <2> QED
    BY <1>2, <2>1, RestoreInv
<1>3. ASSUME NEW c \in ClientIds, CancelRequest(c)
      PROVE  LedgerInv'
  BY <1>3, CancelRequestInv
<1>4. ASSUME NEW c \in known, NEW s \in ReportedStatus, NEW n \in 0 .. MaxQty \cup {NoCum},
             NEW p \in BOOLEAN, NEW b \in BrokerIdsFor(c),
             ApplyOrderEvent(c, [status |-> s, cum |-> n, priced |-> p, broker |-> b])
      PROVE  LedgerInv'
  <2>1. c \in ClientIds /\ orders[c] \in Order
    BY DEF LedgerInv, TypeOK
  <2>2. b \in BrokerIds \cup {NoBroker}
    BY <2>1 DEF BrokerIdsFor, Order
  <2>3. n \in Nat \cup {NoCum} /\ s \in Status
    BY BoundsAssumption DEF ReportedStatus, RestoredStatus, Status, OpenStatus
  <2>4. [status |-> s, cum |-> n, priced |-> p, broker |-> b] \in OrderEvents
    BY <2>2, <2>3 DEF OrderEvents
  <2> QED
    BY <1>4, <2>4, OrderEventInv
<1>5. ASSUME NEW c \in known, NEW t \in TradeIds, NEW n \in Quantities, NEW p \in BOOLEAN,
             NEW b \in BrokerIdsFor(c),
             ApplyFillEvent(c, [trade |-> t, qty |-> n, priced |-> p, broker |-> b])
      PROVE  LedgerInv'
  <2>1. c \in ClientIds /\ orders[c] \in Order
    BY DEF LedgerInv, TypeOK
  <2>2. b \in BrokerIds \cup {NoBroker}
    BY <2>1 DEF BrokerIdsFor, Order
  <2>3. n \in Nat
    BY BoundsAssumption DEF Quantities
  <2>4. [trade |-> t, qty |-> n, priced |-> p, broker |-> b] \in FillEvents
    BY <2>2, <2>3 DEF FillEvents
  <2> QED
    BY <1>5, <2>4, FillEventInv
<1>6. CASE UNCHANGED vars
  BY <1>6 DEF vars, LedgerInv, TypeOK, ActiveIsOpen, FillsReportedOnce, FilledIsWhole,
     BrokerNamesResolve, HistoryBounded, IdsFresh, IsFinal
<1> QED
  BY <1>1, <1>2, <1>3, <1>4, <1>5, <1>6 DEF Next

\* The ledger's invariant holds in every reachable state.
THEOREM Invariance == Spec => []LedgerInv
<1>1. Init => LedgerInv
  BY InitInv
<1>2. LedgerInv /\ [Next]_vars => LedgerInv'
  BY NextInv
<1> QED
  BY <1>1, <1>2, PTL DEF Spec

\* Every part of the ledger keeps its type: a forgotten order leaves nothing behind,
\* neither its execution ids (orders.py:212) nor its history.
THEOREM TypeCorrect == Spec => []TypeOK
BY Invariance, PTL DEF LedgerInv

\* The active ids are exactly the open orders, however many orders and events.
THEOREM ActiveIds == Spec => []ActiveIsOpen
BY Invariance, PTL DEF LedgerInv

\* No mix of cumulative and per-execution reports, late, repeated or reordered,
\* makes the filled quantity of an order differ from what the strategy was told.
THEOREM FillAccounting == Spec => []FillsReportedOnce
BY Invariance, PTL DEF LedgerInv

\* An order closed as filled has all its shares in the position, unless nothing at
\* all could value the missing ones.
THEOREM WholeFills == Spec => []FilledIsWhole
BY Invariance, PTL DEF LedgerInv

\* A fresh id is beyond every id the ledger holds, restored or its own.
THEOREM FreshIds == Spec => []IdsFresh
BY Invariance, PTL DEF LedgerInv

\* A broker order id leads to the one order that carries it, through any trimming.
THEOREM NameResolution == Spec => []BrokerNamesResolve
BY Invariance, PTL DEF LedgerInv

\* Finished orders are remembered within the bound.
THEOREM BoundedHistory == Spec => []HistoryBounded
BY Invariance, PTL DEF LedgerInv

-------------------------------------------------------------------------------
(***************************************************************************)
(* What a step may never do.                                               *)
(***************************************************************************)

\* The successor state of an order that stays in the ledger: itself, or what one
\* operation made of it.
LEMMA StoredOrder ==
  ASSUME LedgerInv, NEW c \in known, NEW o \in Order, NEW n \in Nat, Store(c, o, n)
  PROVE  \A d \in known \cap known' : orders'[d] = IF d = c THEN o ELSE orders[d]
<1> DEFINE gone == Trimmed(c, o)
           upd == [orders EXCEPT ![c] = o]
<1>1. /\ known' = (known \cup {c}) \ gone
      /\ orders' = [d \in ClientIds |-> IF d \in gone THEN Absent ELSE upd[d]]
  BY DEF Store, Forgotten
<1> HIDE DEF gone
<1> QED
  BY <1>1 DEF LedgerInv, TypeOK

\* The order record is only ever moved by these four operations.
Moved(o, p) ==
  \/ p = o
  \/ p = MarkCancelPending(o)
  \/ \E e \in OrderEvents : p = AfterOrderEvent(o, e)
  \/ \E e \in FillEvents : p = AfterFillEvent(o, e)

\* Whatever step is taken, an order the ledger keeps moves by one of the operations.
LEMMA StepMovesOrders ==
  LedgerInv /\ [Next]_vars => \A d \in known \cap known' : Moved(orders[d], orders'[d])
<1> SUFFICES ASSUME LedgerInv, [Next]_vars
             PROVE  \A d \in known \cap known' : Moved(orders[d], orders'[d])
  OBVIOUS
<1>1. known \subseteq ClientIds /\ orders \in [ClientIds -> Order]
  BY DEF LedgerInv, TypeOK
<1>2. ASSUME NEW q \in Quantities, NEW a \in BOOLEAN, AddIntent(q, a)
      PROVE  \A d \in known \cap known' : orders'[d] = orders[d]
  <2>1. nextSeq \notin known /\ orders' = [orders EXCEPT ![nextSeq] = NewOrder(q, a)]
    BY <1>2 DEF AddIntent, LedgerInv, TypeOK, IdsFresh
  <2> QED
    BY <1>1, <2>1
<1>3. ASSUME NEW c \in ClientIds, NEW q \in Quantities, NEW a \in BOOLEAN, NEW p \in BOOLEAN,
             NEW s \in RestoredStatus, NEW n \in 0 .. MaxQty,
             NEW b \in BrokerIds \cup {NoBroker}, RestoreOrder(c, q, a, s, n, p, b)
      PROVE  \A d \in known \cap known' : orders'[d] = orders[d]
  <2>1. c \notin known /\ orders' = [orders EXCEPT ![c] = RestoredOrder(q, a, s, n, p, b)]
    BY <1>3 DEF RestoreOrder, BumpedSequence
  <2> QED
    BY <1>1, <2>1
<1>4. ASSUME NEW c \in ClientIds, CancelRequest(c)
      PROVE  \A d \in known \cap known' :
               orders'[d] = orders[d] \/ orders'[d] = MarkCancelPending(orders[d])
  BY <1>1, <1>4 DEF CancelRequest
<1>5. ASSUME NEW c \in known, NEW s \in ReportedStatus, NEW n \in 0 .. MaxQty \cup {NoCum},
             NEW p \in BOOLEAN, NEW b \in BrokerIdsFor(c),
             ApplyOrderEvent(c, [status |-> s, cum |-> n, priced |-> p, broker |-> b])
      PROVE  \A d \in known \cap known' :
               orders'[d] = orders[d] \/ \E e \in OrderEvents : orders'[d] = AfterOrderEvent(orders[d], e)
  <2> DEFINE e == [status |-> s, cum |-> n, priced |-> p, broker |-> b]
  <2>1. b \in BrokerIds \cup {NoBroker}
    BY <1>1 DEF BrokerIdsFor, Order
  <2>2. n \in Nat \cup {NoCum} /\ s \in Status
    BY BoundsAssumption DEF ReportedStatus, RestoredStatus, Status, OpenStatus
  <2>3. e \in OrderEvents
    BY <2>1, <2>2 DEF OrderEvents
  <2>4. Store(c, AfterOrderEvent(orders[c], e), OrderEventFill(orders[c], e))
    BY <1>5 DEF ApplyOrderEvent
  <2> HIDE DEF e
  <2>5. AfterOrderEvent(orders[c], e) \in Order /\ OrderEventFill(orders[c], e) \in Nat
    BY <1>1, <2>3, OrderEventEffect
  <2> QED
    BY <2>3, <2>4, <2>5, StoredOrder
<1>6. ASSUME NEW c \in known, NEW t \in TradeIds, NEW n \in Quantities, NEW p \in BOOLEAN,
             NEW b \in BrokerIdsFor(c),
             ApplyFillEvent(c, [trade |-> t, qty |-> n, priced |-> p, broker |-> b])
      PROVE  \A d \in known \cap known' :
               orders'[d] = orders[d] \/ \E e \in FillEvents : orders'[d] = AfterFillEvent(orders[d], e)
  <2> DEFINE e == [trade |-> t, qty |-> n, priced |-> p, broker |-> b]
  <2>1. b \in BrokerIds \cup {NoBroker}
    BY <1>1 DEF BrokerIdsFor, Order
  <2>2. e \in FillEvents
    BY <2>1, BoundsAssumption DEF FillEvents, Quantities
  <2>3. /\ FillEventFill(orders[c], e) > 0
             => Store(c, AfterFillEvent(orders[c], e), FillEventFill(orders[c], e))
        /\ ~(FillEventFill(orders[c], e) > 0)
             => orders' = [orders EXCEPT ![c] = AfterFillEvent(orders[c], e)]
    BY <1>6 DEF ApplyFillEvent
  <2> HIDE DEF e
  <2>4. AfterFillEvent(orders[c], e) \in Order /\ FillEventFill(orders[c], e) \in Nat
    BY <1>1, <2>2, FillEventEffect
  <2>5. CASE FillEventFill(orders[c], e) > 0
    BY <2>2, <2>3, <2>4, <2>5, StoredOrder
  <2>6. CASE ~(FillEventFill(orders[c], e) > 0)
    BY <1>1, <2>2, <2>3, <2>6
  <2> QED
    BY <2>5, <2>6
<1>7. CASE UNCHANGED vars
  BY <1>7 DEF vars, Moved
<1> QED
  BY <1>2, <1>3, <1>4, <1>5, <1>6, <1>7 DEF Next, Moved

\* What was filled stays filled.
THEOREM FillsStay == Spec => FillsNeverUndone
<1>1. LedgerInv /\ [Next]_vars =>
        [\A c \in known \cap known' : orders[c].cum <= orders'[c].cum]_vars
  <2> SUFFICES ASSUME LedgerInv, [Next]_vars, NEW c \in known \cap known'
               PROVE  orders[c].cum <= orders'[c].cum
    OBVIOUS
  <2>1. Moved(orders[c], orders'[c])
    BY StepMovesOrders
  <2>2. orders[c] \in Order /\ orders[c].cum \in Nat
    BY DEF LedgerInv, TypeOK, Order
  <2>3. CASE orders'[c] = orders[c] \/ orders'[c] = MarkCancelPending(orders[c])
    BY <2>2, <2>3 DEF MarkCancelPending, Order
  <2>4. ASSUME NEW e \in OrderEvents, orders'[c] = AfterOrderEvent(orders[c], e)
        PROVE  orders[c].cum <= orders'[c].cum
    BY <2>2, <2>4, OrderEventEffect
  <2>5. ASSUME NEW e \in FillEvents, orders'[c] = AfterFillEvent(orders[c], e)
        PROVE  orders[c].cum <= orders'[c].cum
    BY <2>2, <2>5, FillEventEffect
  <2> QED
    BY <2>1, <2>3, <2>4, <2>5 DEF Moved
<1> QED
  BY <1>1, Invariance, PTL DEF Spec, FillsNeverUndone

\* What restored orders came with does not change while the ledger holds them.
LEMMA RestoredStays ==
  LedgerInv /\ [Next]_vars => \A d \in known \cap known' : restoredCum'[d] = restoredCum[d]
<1> SUFFICES ASSUME LedgerInv, [Next]_vars
             PROVE  \A d \in known \cap known' : restoredCum'[d] = restoredCum[d]
  OBVIOUS
<1>1. known \subseteq ClientIds /\ restoredCum \in [ClientIds -> Nat]
  BY DEF LedgerInv, TypeOK
<1>2. ASSUME NEW q \in Quantities, NEW a \in BOOLEAN, AddIntent(q, a)
      PROVE  \A d \in known \cap known' : restoredCum'[d] = restoredCum[d]
  <2>1. nextSeq \notin known /\ restoredCum' = [restoredCum EXCEPT ![nextSeq] = 0]
    BY <1>2 DEF AddIntent, LedgerInv, TypeOK, IdsFresh
  <2> QED
    BY <1>1, <2>1
<1>3. ASSUME NEW c \in ClientIds, NEW q \in Quantities, NEW a \in BOOLEAN, NEW p \in BOOLEAN,
             NEW s \in RestoredStatus, NEW n \in 0 .. MaxQty,
             NEW b \in BrokerIds \cup {NoBroker}, RestoreOrder(c, q, a, s, n, p, b)
      PROVE  \A d \in known \cap known' : restoredCum'[d] = restoredCum[d]
  <2> DEFINE o == RestoredOrder(q, a, s, n, p, b)
  <2>1. c \notin known /\ restoredCum' = [restoredCum EXCEPT ![c] = o.cum]
    BY <1>3 DEF RestoreOrder, BumpedSequence
  <2> HIDE DEF o
  <2> QED
    BY <1>1, <2>1
<1>4. ASSUME NEW c, CancelRequest(c) PROVE restoredCum' = restoredCum
  BY <1>4 DEF CancelRequest
<1>5. ASSUME NEW c, NEW e, ApplyOrderEvent(c, e) PROVE restoredCum' = restoredCum
  BY <1>5 DEF ApplyOrderEvent
<1>6. ASSUME NEW c, NEW e, ApplyFillEvent(c, e) PROVE restoredCum' = restoredCum
  BY <1>6 DEF ApplyFillEvent
<1>7. CASE UNCHANGED vars
  BY <1>7 DEF vars
<1> QED
  BY <1>2, <1>3, <1>4, <1>5, <1>6, <1>7 DEF Next

\* For all quantities and histories: a finished order comes back only partly filled, with
\* what it had or with a share the strategy is told of in the same step.
THEOREM ReopenedHasShares == Spec => ReopenedPartlyFilled
<1>1. LedgerInv /\ LedgerInv' /\ [Next]_vars =>
        [\A c \in known \cap known' :
           IsFinal(orders[c]) /\ ~IsFinal(orders'[c]) =>
             /\ orders'[c].status = "partially_filled"
             /\ 0 < orders'[c].cum /\ orders'[c].cum < orders'[c].qty
             /\ orders[c].cum > 0 \/ reported'[c] > reported[c]]_vars
  <2> SUFFICES ASSUME LedgerInv, LedgerInv', [Next]_vars, NEW c \in known \cap known',
                      IsFinal(orders[c]), ~IsFinal(orders'[c])
               PROVE  /\ orders'[c].status = "partially_filled"
                      /\ 0 < orders'[c].cum /\ orders'[c].cum < orders'[c].qty
                      /\ orders[c].cum > 0 \/ reported'[c] > reported[c]
    OBVIOUS
  <2>1. Moved(orders[c], orders'[c])
    BY StepMovesOrders
  <2>2. orders[c] \in Order /\ orders[c].cum \in Nat /\ orders[c].qty \in Nat
    BY DEF LedgerInv, TypeOK, Order
  <2>3. orders'[c] # orders[c] /\ orders'[c] # MarkCancelPending(orders[c])
    BY DEF MarkCancelPending
  <2>4. ASSUME NEW e \in OrderEvents, orders'[c] = AfterOrderEvent(orders[c], e)
        PROVE  /\ orders'[c].status = "partially_filled"
               /\ 0 < orders'[c].cum /\ orders'[c].cum < orders'[c].qty
    <3>1. /\ orders'[c].cum = CumAfterEvent(orders[c], e)
          /\ orders'[c].status = StatusAfterEvent(orders[c], e)
          /\ orders'[c].qty = orders[c].qty
      BY <2>2, <2>4 DEF AfterOrderEvent, WithBroker, Order
    <3>2. orders'[c].cum \in Nat
      BY <2>2, <2>4, OrderEventEffect DEF Order
    <3>3. StatusAfterEvent(orders[c], e) \notin FinalStatus
      BY <3>1 DEF IsFinal
    <3>4. /\ ~(CumAfterEvent(orders[c], e) >= orders[c].qty)
          /\ CumAfterEvent(orders[c], e) > 0
          /\ StatusAfterEvent(orders[c], e) = "partially_filled"
      BY <3>3 DEF StatusAfterEvent, IsFinal, FinalStatus
    <3> QED
      BY <2>2, <3>1, <3>2, <3>4
  <2>5. ASSUME NEW e \in FillEvents, orders'[c] = AfterFillEvent(orders[c], e)
        PROVE  FALSE
    <3>1. FillEventFill(orders[c], e) = 0
      BY DEF FillEventFill
    <3>2. orders'[c].status = orders[c].status
      BY <2>2, <2>5, <3>1 DEF AfterFillEvent, WithBroker, Order
    <3> QED
      BY <3>2 DEF IsFinal
  <2>6. /\ orders'[c].status = "partially_filled"
        /\ 0 < orders'[c].cum /\ orders'[c].cum < orders'[c].qty
    BY <2>1, <2>3, <2>4, <2>5 DEF Moved
  <2>7. reported[c] = orders[c].cum - restoredCum[c]
    <3>1. /\ orders[c].cum = restoredCum[c] + reported[c]
          /\ restoredCum[c] \in Nat /\ reported[c] \in Nat
      BY DEF LedgerInv, TypeOK, FillsReportedOnce
    <3> QED
      BY <3>1
  <2>8. reported'[c] = orders'[c].cum - restoredCum[c]
    <3>1. /\ orders'[c].cum = restoredCum'[c] + reported'[c]
          /\ restoredCum'[c] \in Nat /\ reported'[c] \in Nat
      BY DEF LedgerInv, TypeOK, FillsReportedOnce
    <3>2. restoredCum'[c] = restoredCum[c]
      BY RestoredStays
    <3> QED
      BY <3>1, <3>2
  <2>9. restoredCum[c] \in Nat /\ orders'[c].cum \in Nat
    BY DEF LedgerInv, TypeOK, Order
  <2> QED
    BY <2>2, <2>6, <2>7, <2>8, <2>9
<1> QED
  BY <1>1, Invariance, PTL DEF Spec, ReopenedPartlyFilled

-------------------------------------------------------------------------------
(***************************************************************************)
(* The two accounts of an order's fills: FillFeed, with an order of the    *)
(* ledger.                                                                 *)
(***************************************************************************)

\* What holds of the constants of a feed.
FeedBounds == OrderQty \in Nat \ {0} /\ FeedIds

\* Shares of the first n executions of s.
Shares(s, n) == SumFunctionOnSet(s, 1 .. n)

\* An execution adds its quantity, and one more of them leaves the others alone.
LEMMA SharesAdd ==
  ASSUME FeedBounds, NEW s \in Seq(1 .. OrderQty)
  PROVE  /\ Shares(s, 0) = 0
         /\ \A n \in 0 .. Len(s) : Shares(s, n) \in Nat
         /\ \A n \in 0 .. Len(s) - 1 :
              s[n + 1] \in 1 .. OrderQty /\ Shares(s, n + 1) = s[n + 1] + Shares(s, n)
<1>1. OrderQty \in Nat
  BY DEF FeedBounds
<1>2. \A i \in 1 .. Len(s) : s[i] \in Nat /\ s[i] \in Int /\ s[i] \in 1 .. OrderQty
  BY <1>1
<1>3. \A n \in 0 .. Len(s) : IsFiniteSet(1 .. n) /\ 1 .. n \subseteq 1 .. Len(s)
  BY FS_Interval
<1>4. Shares(s, 0) = 0
  <2>1. 1 .. 0 = {}
    OBVIOUS
  <2> QED
    BY <2>1, SumOfNothing DEF Shares
<1>5. ASSUME NEW n \in 0 .. Len(s) PROVE Shares(s, n) \in Nat
  <2>1. \A i \in 1 .. n : s[i] \in Nat
    BY <1>2, <1>3
  <2> QED
    BY <1>3, <2>1, SumIsNat DEF Shares
<1>6. ASSUME NEW n \in 0 .. Len(s) - 1
      PROVE  s[n + 1] \in 1 .. OrderQty /\ Shares(s, n + 1) = s[n + 1] + Shares(s, n)
  <2>1. n \in 0 .. Len(s) /\ n + 1 \in 1 .. Len(s)
    OBVIOUS
  <2>2. 1 .. n + 1 = (1 .. n) \cup {n + 1} /\ n + 1 \notin 1 .. n
    BY <2>1
  <2>3. \A i \in (1 .. n) \cup {n + 1} : s[i] \in Int
    BY <1>2, <1>3, <2>1
  <2>4. IsFiniteSet(1 .. n)
    BY <1>3, <2>1
  <2>5. SumFunctionOnSet(s, (1 .. n) \cup {n + 1}) = s[n + 1] + SumFunctionOnSet(s, 1 .. n)
    BY <2>2, <2>3, <2>4, SumWith
  <2> QED
    BY <1>2, <2>1, <2>2, <2>5 DEF Shares
<1> QED
  BY <1>4, <1>5, <1>6

\* The total grows with every execution.
LEMMA SharesGrow ==
  ASSUME FeedBounds, NEW s \in Seq(1 .. OrderQty), NEW k \in 0 .. Len(s)
  PROVE  \A n \in 0 .. Len(s) : k <= n => Shares(s, n) >= Shares(s, k) + (n - k)
<1> DEFINE T == {n \in 0 .. Len(s) : k <= n /\ ~(Shares(s, n) >= Shares(s, k) + (n - k))}
<1>1. ASSUME T # {} PROVE FALSE
  <2>1. PICK n \in T : \A i \in T : n <= i
    <3>1. T \subseteq Nat
      OBVIOUS
    <3> HIDE DEF T
    <3> QED
      BY <1>1, <3>1, LeastNatural
  <2>2. /\ n \in 0 .. Len(s) /\ k <= n
        /\ ~(Shares(s, n) >= Shares(s, k) + (n - k))
    OBVIOUS
  <2>3. Shares(s, n) \in Nat /\ Shares(s, k) \in Nat
    BY <2>2, SharesAdd
  <2>4. n # k
    BY <2>2, <2>3
  <2>5. PICK i : i = n - 1
    OBVIOUS
  <2>6. i \in 0 .. Len(s) - 1 /\ i \in 0 .. Len(s) /\ k <= i /\ n = i + 1 /\ ~(n <= i)
    BY <2>2, <2>4, <2>5
  <2>7. Shares(s, i) >= Shares(s, k) + (i - k)
    <3>1. i \notin T
      <4> HIDE DEF T
      <4> QED
        BY <2>1, <2>6
    <3> QED
      BY <2>6, <3>1
  <2>8. Shares(s, n) = s[n] + Shares(s, i) /\ s[n] \in 1 .. OrderQty /\ Shares(s, i) \in Nat
    BY <2>6, SharesAdd
  <2>9. s[n] >= 1 /\ s[n] \in Int
    BY <2>8 DEF FeedBounds
  <2> QED
    BY <2>2, <2>3, <2>6, <2>7, <2>8, <2>9
<1> QED
  BY <1>1

\* A further execution leaves the totals before it.
LEMMA SharesAppend ==
  ASSUME FeedBounds, NEW s \in Seq(1 .. OrderQty), NEW q \in 1 .. OrderQty
  PROVE  /\ Append(s, q) \in Seq(1 .. OrderQty) /\ Len(Append(s, q)) = Len(s) + 1
         /\ \A n \in 0 .. Len(s) : Shares(Append(s, q), n) = Shares(s, n)
         /\ Shares(Append(s, q), Len(s) + 1) = q + Shares(s, Len(s))
<1>1. /\ Append(s, q) \in Seq(1 .. OrderQty) /\ Len(Append(s, q)) = Len(s) + 1
      /\ \A i \in 1 .. Len(s) : Append(s, q)[i] = s[i]
      /\ Append(s, q)[Len(s) + 1] = q
  OBVIOUS
<1>2. PICK t : t = Append(s, q)
  OBVIOUS
<1>3. ASSUME NEW n \in 0 .. Len(s) PROVE Shares(t, n) = Shares(s, n)
  <2>1. IsFiniteSet(1 .. n) /\ \A i \in 1 .. n : t[i] = s[i]
    BY <1>1, <1>2, FS_Interval
  <2> QED
    BY <2>1, SumOfEqual DEF Shares
<1>4. Shares(t, Len(s) + 1) = q + Shares(s, Len(s))
  <2>1. Len(s) \in 0 .. Len(t) - 1 /\ t \in Seq(1 .. OrderQty) /\ Len(s) \in 0 .. Len(s)
    BY <1>1, <1>2
  <2>2. Shares(t, Len(s) + 1) = t[Len(s) + 1] + Shares(t, Len(s))
    BY <2>1, SharesAdd
  <2> QED
    BY <1>1, <1>2, <1>3, <2>1, <2>2
<1> QED
  BY <1>1, <1>2, <1>3, <1>4

\* The order o has been told of the first n executions of s, and is over only when that
\* is all there is and ever will be; e says that the broker has ended the order.
Knows(s, e, o, n) ==
  /\ o \in Order /\ o.qty = OrderQty
  /\ n \in 0 .. Len(s)
  /\ o.cum = Shares(s, n) /\ o.seen = 1 .. n
  /\ Shares(s, Len(s)) <= OrderQty
  /\ IsFinal(o) => n = Len(s) /\ (e \/ Shares(s, n) = OrderQty)
  /\ Shares(s, n) = OrderQty => IsFinal(o)

\* A detail the order has not seen is the next execution, and is counted in full; one
\* it has seen changes nothing.
LEMMA DetailKnown ==
  ASSUME FeedBounds, NEW s \in Seq(1 .. OrderQty), NEW e, NEW o, NEW n, Knows(s, e, o, n),
         NEW i \in 1 .. Len(s), i <= n + 1,
         NEW d, d = [trade |-> i, qty |-> s[i], priced |-> TRUE, broker |-> o.broker]
  PROVE  \E k : k >= i /\ Knows(s, e, AfterFillEvent(o, d), k)
<1>1. o \in Order /\ n \in 0 .. Len(s) /\ i \in Nat /\ OrderQty \in Nat
  BY DEF Knows, FeedBounds
<1>2. WithBroker(o, d.broker) = o
  BY <1>1 DEF WithBroker, Order
<1>3. CASE i <= n
  <2>1. i \in o.seen
    BY <1>1, <1>3 DEF Knows
  <2>2. FillEventFill(o, d) = 0
    BY <2>1 DEF FillEventFill
  <2>3. AfterFillEvent(o, d) = o
    BY <1>2, <2>2 DEF AfterFillEvent
  <2>4. n >= i
    BY <1>1, <1>3
  <2> QED
    BY <2>3, <2>4
<1>4. CASE ~(i <= n)
  <2>1. i = n + 1 /\ n \in 0 .. Len(s) - 1 /\ n # Len(s)
    BY <1>1, <1>4
  <2>2. ~IsFinal(o) /\ i \notin o.seen /\ o.seen = 1 .. n
    BY <1>1, <2>1 DEF Knows
  <2>3. Shares(s, i) = s[i] + Shares(s, n) /\ s[i] \in 1 .. OrderQty
    BY <2>1, SharesAdd
  <2>4. Shares(s, n) \in Nat /\ Shares(s, i) \in Nat /\ Shares(s, Len(s)) \in Nat
    BY <1>1, SharesAdd
  <2>5. Shares(s, Len(s)) >= Shares(s, i) + (Len(s) - i) /\ Shares(s, Len(s)) <= OrderQty
    <3>1. i \in 0 .. Len(s) /\ Len(s) \in 0 .. Len(s) /\ i <= Len(s)
      OBVIOUS
    <3> QED
      BY <3>1, SharesGrow DEF Knows
  <2>6. o.cum = Shares(s, n) /\ o.qty = OrderQty
    BY DEF Knows
  <2>7. FillEventFill(o, d) = s[i] /\ s[i] > 0 /\ s[i] \in Nat
    <3>1. LeavesQty(o) = OrderQty - Shares(s, n)
      BY <1>1, <2>3, <2>4, <2>5, <2>6 DEF LeavesQty
    <3>2. d.qty = s[i] /\ d.trade = i /\ d.priced = TRUE
      OBVIOUS
    <3>3. s[i] \in Nat /\ s[i] > 0
      BY <1>1, <2>3
    <3>4. s[i] <= LeavesQty(o)
      <4>1. i \in Nat /\ Len(s) \in Nat /\ i <= Len(s)
        OBVIOUS
      <4>2. Shares(s, i) <= OrderQty
        BY <1>1, <2>4, <2>5, <4>1
      <4> QED
        BY <1>1, <2>3, <2>4, <3>1, <3>3, <4>2
    <3>5. LeavesQty(o) \in Nat
      BY <1>1, <2>3, <2>4, <3>1, <3>3, <3>4
    <3>6. s[i] < LeavesQty(o) \/ s[i] = LeavesQty(o)
      BY <3>3, <3>4, <3>5
    <3>7. FillEventFill(o, d) = IF s[i] < LeavesQty(o) THEN s[i] ELSE LeavesQty(o)
      BY <2>2, <3>2 DEF FillEventFill
    <3> QED
      BY <3>3, <3>6, <3>7
  <2>8. PICK x : x = AfterFillEvent(o, d)
    OBVIOUS
  <2>9. PICK st : st = IF o.cum + s[i] >= o.qty THEN "filled" ELSE "partially_filled"
    OBVIOUS
  <2>10. x = [o EXCEPT !.cum = @ + s[i], !.status = st, !.priced = TRUE,
                       !.seen = @ \cup {i}]
    BY <1>2, <2>7, <2>8, <2>9 DEF AfterFillEvent
  <2>11. /\ o.cum + s[i] = Shares(s, i) /\ o.cum + s[i] \in Nat
    BY <2>3, <2>4, <2>6, <2>7
  <2>12. o.seen \cup {i} = 1 .. i /\ o.seen \cup {i} \in SUBSET TradeIds
    <3>1. o.seen \cup {i} = 1 .. i
      BY <1>1, <2>1, <2>2
    <3>2. i <= OrderQty
      <4>1. Shares(s, i) >= i
        <5>1. 0 \in 0 .. Len(s) /\ i \in 0 .. Len(s) /\ 0 <= i
          OBVIOUS
        <5>2. Shares(s, i) >= Shares(s, 0) + (i - 0) /\ Shares(s, 0) = 0
          BY <5>1, SharesGrow, SharesAdd
        <5> QED
          BY <2>4, <5>2
      <4> QED
        BY <1>1, <2>4, <2>5, <4>1
    <3> QED
      BY <1>1, <3>1, <3>2 DEF FeedBounds, FeedIds
  <2>13. st \in Status
    BY <2>9 DEF Status, FinalStatus, OpenStatus
  <2>14. x \in Order /\ x.qty = OrderQty /\ x.cum = Shares(s, i) /\ x.seen = 1 .. i
         /\ x.status = st
    BY <1>1, <2>6, <2>10, <2>11, <2>12, <2>13 DEF Order
  <2>15. IsFinal(x) <=> Shares(s, i) >= OrderQty
    BY <2>6, <2>9, <2>11, <2>14 DEF IsFinal, FinalStatus
  <2>16. Shares(s, i) >= OrderQty => i = Len(s) /\ Shares(s, i) = OrderQty
    BY <1>1, <2>4, <2>5
  <2>17. Shares(s, i) = OrderQty => Shares(s, i) >= OrderQty
    BY <1>1
  <2>18. i \in 0 .. Len(s) /\ i >= i
    OBVIOUS
  <2>19. Knows(s, e, x, i)
    BY <2>5, <2>14, <2>15, <2>16, <2>17, <2>18 DEF Knows
  <2> QED
    BY <2>8, <2>18, <2>19
<1> QED
  BY <1>3, <1>4

\* After its details a total adds nothing; that of an order that is over ends it.
LEMMA TotalKnown ==
  ASSUME FeedBounds, NEW s \in Seq(1 .. OrderQty), NEW e, NEW o, NEW n, Knows(s, e, o, n),
         NEW m \in 0 .. n, NEW t \in OrderEvents, t.cum = Shares(s, m), t.broker = o.broker,
         t.status \in {"filled", "canceled", "partially_filled", "working"},
         t.status = "filled" => Shares(s, m) = OrderQty,
         t.status = "canceled" => e /\ m = Len(s)
  PROVE  Knows(s, e, AfterOrderEvent(o, t), n)
<1>1. o \in Order /\ n \in 0 .. Len(s) /\ OrderQty \in Nat /\ m \in 0 .. Len(s) /\ m <= n
  BY DEF Knows, FeedBounds
<1>2. WithBroker(o, t.broker) = o
  BY <1>1 DEF WithBroker, Order
<1>3. /\ Shares(s, n) \in Nat /\ Shares(s, m) \in Nat /\ Shares(s, Len(s)) \in Nat
      /\ Shares(s, m) <= Shares(s, n) /\ Shares(s, n) <= OrderQty
  <2>1. /\ Shares(s, n) \in Nat /\ Shares(s, m) \in Nat /\ Shares(s, Len(s)) \in Nat
    BY <1>1, SharesAdd
  <2>2. Shares(s, n) >= Shares(s, m) + (n - m)
    BY <1>1, SharesGrow
  <2>3. Shares(s, Len(s)) >= Shares(s, n) + (Len(s) - n)
    BY <1>1, SharesGrow
  <2>4. Shares(s, Len(s)) <= OrderQty
    BY DEF Knows
  <2> QED
    BY <1>1, <2>1, <2>2, <2>3, <2>4
<1>4. o.cum = Shares(s, n) /\ o.qty = OrderQty
  BY DEF Knows
<1>5. OrderEventFill(o, t) = 0 /\ CumAfterEvent(o, t) = o.cum
  <2>1. ~(ClaimedCum(o, t) > o.cum)
    BY <1>1, <1>3, <1>4, NoCumAssumption DEF ClaimedCum
  <2> QED
    BY <2>1 DEF OrderEventFill, CumAfterEvent
<1>6. PICK x, st : x = AfterOrderEvent(o, t) /\ st = StatusAfterEvent(o, t)
  OBVIOUS
<1>7. x = [o EXCEPT !.cum = o.cum, !.status = st, !.priced = @ \/ FALSE]
  <2>1. ~(OrderEventFill(o, t) > 0)
    BY <1>5
  <2> QED
    BY <1>2, <1>5, <1>6, <2>1 DEF AfterOrderEvent
<1>8. st \in Status
  BY <1>1, <1>6 DEF StatusAfterEvent, Order, OrderEvents, Status, FinalStatus, OpenStatus
<1>9. x \in Order /\ x.qty = o.qty /\ x.cum = o.cum /\ x.seen = o.seen /\ x.status = st
  BY <1>1, <1>7, <1>8 DEF Order
<1>10. CASE Shares(s, n) = OrderQty
  <2>1. st = "filled"
    BY <1>1, <1>4, <1>5, <1>6, <1>10 DEF StatusAfterEvent
  <2>2. n = Len(s)
    BY <1>10 DEF Knows
  <2>3. IsFinal(x)
    BY <1>9, <2>1 DEF IsFinal, FinalStatus
  <2> QED
    BY <1>4, <1>6, <1>9, <1>10, <2>2, <2>3 DEF Knows
<1>11. CASE Shares(s, n) # OrderQty
  <2>1. ~(CumAfterEvent(o, t) >= o.qty) /\ t.status # "filled"
    BY <1>1, <1>3, <1>4, <1>5, <1>11
  <2>2. CASE t.status = "canceled"
    <3>1. e /\ n = Len(s)
      BY <1>1, <2>2
    <3> QED
      BY <1>4, <1>6, <1>9, <1>11, <3>1 DEF Knows
  <2>3. CASE t.status # "canceled"
    <3>1. st \in {"partially_filled", "working"} \/ (IsFinal(o) /\ st = o.status)
      BY <1>6, <2>1, <2>3 DEF StatusAfterEvent
    <3>2. IsFinal(x) => IsFinal(o)
      BY <1>9, <3>1 DEF IsFinal, FinalStatus
    <3> QED
      BY <1>4, <1>6, <1>9, <1>11, <3>2 DEF Knows
  <2> QED
    BY <2>2, <2>3
<1> QED
  BY <1>10, <1>11

\* The shares executed are those of the executions.
LEMMA ExecutedShares == \A n : Executed(n) = Shares(executions, n)
BY DEF Executed, Shares

\* What holds of the feed however old or incomplete the details are.
FeedTyped ==
  /\ FeedBounds
  /\ FeedTypeOK
  /\ Shares(executions, Len(executions)) <= OrderQty

\* The total of a response is a sound order event: "filled" is said of the whole order
\* and "canceled" of one that the broker has ended.
LEMMA TotalIsEvent ==
  ASSUME FeedTyped
  PROVE  /\ Total(response) \in OrderEvents
         /\ Total(response).cum = Shares(executions, response.m)
         /\ Total(response).broker = order.broker
         /\ Total(response).status \in {"filled", "canceled", "partially_filled", "working"}
         /\ Total(response).status = "filled" => Shares(executions, response.m) >= OrderQty
         /\ Total(response).status = "canceled" => response.final
<1>1. PICK n : n = Shares(executions, response.m)
  OBVIOUS
<1>2. n \in Nat /\ OrderQty \in Nat /\ response.final \in BOOLEAN /\ response.m \in Nat
  BY <1>1, SharesAdd DEF FeedTyped, FeedTypeOK, FeedBounds
<1>3. order.broker \in BrokerIds \cup {NoBroker}
  BY ExecutedShares DEF FeedTyped, FeedTypeOK, Order
<1>4. PICK st : st = SnapshotStatus(response)
  OBVIOUS
<1>5. Executed(response.m) = n
  BY <1>1, ExecutedShares
<1>6. /\ st \in {"filled", "canceled", "partially_filled", "working"}
      /\ st = "filled" => n >= OrderQty
      /\ st = "canceled" => response.final
  <2>1. CASE n >= OrderQty
    BY <1>2, <1>4, <1>5, <2>1 DEF SnapshotStatus
  <2>2. CASE n < OrderQty /\ response.final
    BY <1>2, <1>4, <1>5, <2>2 DEF SnapshotStatus
  <2>3. CASE n < OrderQty /\ ~response.final
    BY <1>2, <1>4, <1>5, <2>3 DEF SnapshotStatus
  <2> QED
    BY <1>2, <2>1, <2>2, <2>3
<1>7. PICK b : b = (response.m > 0)
  OBVIOUS
<1>8. Total(response) = [status |-> st, cum |-> n, priced |-> b, broker |-> order.broker]
  BY <1>4, <1>5, <1>7 DEF Total
<1>9. b \in BOOLEAN
  BY <1>7
<1>10. Total(response) \in OrderEvents
  BY <1>2, <1>3, <1>6, <1>8, <1>9 DEF OrderEvents, Status, FinalStatus, OpenStatus
<1> QED
  BY <1>1, <1>6, <1>8, <1>10

\* The detail at the place reached is a sound fill event.
LEMMA DetailIsEvent ==
  ASSUME FeedTyped, NEW i \in 1 .. response.m
  PROVE  /\ i \in 1 .. Len(executions)
         /\ Detail(i) = [trade |-> i, qty |-> executions[i], priced |-> TRUE,
                              broker |-> order.broker]
         /\ Detail(i) \in FillEvents
<1>1. i \in 1 .. Len(executions) /\ OrderQty \in Nat /\ TradeIds = 1 .. OrderQty
  BY DEF FeedTyped, FeedTypeOK, FeedBounds, FeedIds
<1>2. executions \in Seq(1 .. OrderQty) /\ Len(executions) \in Nat
  BY DEF FeedTyped, FeedTypeOK
<1>3. executions[i] \in 1 .. OrderQty
  BY <1>1, <1>2
<1>4. i \in TradeIds
  <2>1. 0 \in 0 .. Len(executions) /\ Len(executions) \in 0 .. Len(executions)
    BY <1>2
  <2>2. /\ Shares(executions, Len(executions)) >=
            Shares(executions, 0) + (Len(executions) - 0)
        /\ Shares(executions, 0) = 0 /\ Shares(executions, Len(executions)) \in Nat
    <3>1. FeedBounds
      BY DEF FeedTyped
    <3>2. 0 <= Len(executions)
      BY <1>2
    <3>3. Shares(executions, Len(executions)) >=
            Shares(executions, 0) + (Len(executions) - 0)
      BY <1>2, <2>1, <3>1, <3>2, SharesGrow
    <3>4. Shares(executions, 0) = 0 /\ Shares(executions, Len(executions)) \in Nat
      BY <1>2, <2>1, <3>1, SharesAdd
    <3> QED
      BY <3>3, <3>4
  <2>3. Len(executions) <= OrderQty
    BY <1>1, <1>2, <2>2 DEF FeedTyped
  <2> QED
    BY <1>1, <1>2, <2>3
<1>5. order.broker \in BrokerIds \cup {NoBroker}
  BY ExecutedShares DEF FeedTyped, FeedTypeOK, Order
<1>6. executions[i] \in Nat
  BY <1>1, <1>3
<1> QED
  BY <1>1, <1>4, <1>5, <1>6 DEF Detail, FillEvents

\* The feed starts with an order nothing is known of.
LEMMA FeedStarts == FeedBounds /\ FeedInit => FeedTyped /\ \E n : Knows(executions, ended, order, n)
<1> SUFFICES ASSUME FeedBounds, FeedInit
             PROVE  FeedTyped /\ \E n : Knows(executions, ended, order, n)
  OBVIOUS
<1>1. OrderQty \in Nat \ {0} /\ OrderQty \in Nat /\ ~(0 = OrderQty)
  BY DEF FeedBounds
<1>2. PICK b \in BrokerIds :
        order = [NewOrder(OrderQty, TRUE) EXCEPT !.status = "working", !.broker = b]
  BY DEF FeedInit
<1>3. order = [qty |-> OrderQty, cum |-> 0, status |-> "working", priced |-> FALSE,
             anchored |-> TRUE, broker |-> b, seen |-> {}]
  BY <1>2 DEF NewOrder
<1>4. order \in Order /\ order.qty = OrderQty /\ order.cum = 0 /\ order.seen = {} /\ ~IsFinal(order)
  BY <1>1, <1>3 DEF Order, Status, OpenStatus, FinalStatus, IsFinal
<1>5. /\ executions = <<>> /\ executions \in Seq(1 .. OrderQty) /\ Len(executions) = 0
      /\ ended = FALSE /\ place = 0
      /\ response = [m |-> 0, shown |-> {}, final |-> FALSE]
  <2>1. /\ executions = <<>> /\ ended = FALSE /\ place = 0
        /\ response = [m |-> 0, shown |-> {}, final |-> FALSE]
    BY DEF FeedInit, NoResponse
  <2>2. \A s : s = <<>> => s \in Seq(1 .. OrderQty) /\ Len(s) = 0
    OBVIOUS
  <2> QED
    BY <2>1, <2>2
<1>6. Shares(executions, 0) = 0
  BY <1>5, SharesAdd
<1>7. FeedTypeOK
  <2>1. response \in [m : 0 .. Len(executions), shown : SUBSET (1 .. Len(executions)),
                      final : BOOLEAN]
    BY <1>5
  <2>2. place \in 0 .. response.m + 1
    BY <1>5
  <2> QED
    BY <1>4, <1>5, <2>1, <2>2, ExecutedShares DEF FeedTypeOK
<1>8. FeedTyped
  BY <1>1, <1>5, <1>6, <1>7 DEF FeedTyped
<1>9. Knows(executions, ended, order, 0)
  <2>1. 0 \in 0 .. Len(executions) /\ order.seen = 1 .. 0
    BY <1>4, <1>5
  <2>2. Shares(executions, Len(executions)) <= OrderQty
    BY <1>1, <1>5, <1>6
  <2> QED
    BY <1>1, <1>4, <1>6, <2>1, <2>2 DEF Knows
<1> QED
  BY <1>8, <1>9

\* An execution fits into the order.
LEMMA ExecuteTotals ==
  ASSUME FeedTyped, NEW q \in 1 .. OrderQty, Execute(q)
  PROVE  /\ executions' \in Seq(1 .. OrderQty) /\ Len(executions') = Len(executions) + 1
         /\ \A n \in 0 .. Len(executions) : Shares(executions', n) = Shares(executions, n)
         /\ Shares(executions', Len(executions')) <= OrderQty
         /\ Shares(executions, Len(executions)) < OrderQty
<1>1. executions \in Seq(1 .. OrderQty) /\ FeedBounds /\ OrderQty \in Nat
  BY DEF FeedTyped, FeedTypeOK, FeedBounds
<1>2. /\ executions' = Append(executions, q)
      /\ Shares(executions, Len(executions)) + q <= OrderQty
  BY ExecutedShares DEF Execute
<1>3. PICK t : t = Append(executions, q)
  OBVIOUS
<1>4. /\ t \in Seq(1 .. OrderQty) /\ Len(t) = Len(executions) + 1
      /\ \A n \in 0 .. Len(executions) : Shares(t, n) = Shares(executions, n)
      /\ Shares(t, Len(executions) + 1) = q + Shares(executions, Len(executions))
  BY <1>1, <1>3, SharesAppend
<1>5. Shares(executions, Len(executions)) \in Nat
  <2>1. Len(executions) \in 0 .. Len(executions)
    BY <1>1
  <2> QED
    BY <1>1, <2>1, SharesAdd
<1>6. /\ Shares(t, Len(t)) <= OrderQty
      /\ Shares(executions, Len(executions)) < OrderQty
  BY <1>1, <1>2, <1>4, <1>5
<1>7. executions' = t
  BY <1>2, <1>3
<1> QED
  BY <1>4, <1>6, <1>7

\* Types do not depend on the age of a response or on what its details show.
LEMMA FeedTypedStep == FeedTyped /\ [FeedNext]_feedVars => FeedTyped'
<1> SUFFICES ASSUME FeedTyped, [FeedNext]_feedVars PROVE FeedTyped'
  OBVIOUS
<1>1. FeedBounds /\ FeedBounds'
  BY DEF FeedTyped, FeedBounds
<1>2. /\ executions \in Seq(1 .. OrderQty) /\ Len(executions) \in Nat /\ ended \in BOOLEAN
      /\ order \in Order
      /\ response \in [m : 0 .. Len(executions), shown : SUBSET (1 .. Len(executions)),
                       final : BOOLEAN]
      /\ place \in 0 .. response.m + 1
      /\ Shares(executions, Len(executions)) <= OrderQty
  BY ExecutedShares DEF FeedTyped, FeedTypeOK
<1>3. ASSUME executions' = executions, ended' \in BOOLEAN, order' \in Order,
             response' \in [m : 0 .. Len(executions), shown : SUBSET (1 .. Len(executions)),
                            final : BOOLEAN],
             place' \in 0 .. response'.m + 1
      PROVE  FeedTyped'
  <2>1. FeedTypeOK'
    BY <1>2, <1>3, ExecutedShares DEF FeedTypeOK, Order, Status,
       FinalStatus, OpenStatus
  <2>2. Shares(executions, Len(executions))' <= OrderQty
    BY <1>2, <1>3 DEF Shares
  <2> QED
    BY <1>1, <2>1, <2>2 DEF FeedTyped
<1>4. ASSUME NEW q \in 1 .. OrderQty, Execute(q) PROVE FeedTyped'
  <2>1. /\ executions' \in Seq(1 .. OrderQty) /\ Len(executions') = Len(executions) + 1
        /\ Shares(executions', Len(executions')) <= OrderQty
    BY <1>4, ExecuteTotals
  <2>2. UNCHANGED <<ended, order, response, place>>
    BY <1>4 DEF Execute
  <2>3. response \in [m : 0 .. Len(executions'), shown : SUBSET (1 .. Len(executions')),
                      final : BOOLEAN]
    <3>1. /\ 0 .. Len(executions) \subseteq 0 .. Len(executions')
          /\ 1 .. Len(executions) \subseteq 1 .. Len(executions')
      BY <1>2, <2>1
    <3>2. response.m \in 0 .. Len(executions') /\ response.shown \subseteq 1 .. Len(executions')
      BY <1>2, <3>1
    <3> QED
      BY <1>2, <3>2
  <2>4. FeedTypeOK'
    BY <1>2, <2>1, <2>2, <2>3, ExecutedShares DEF FeedTypeOK, Order, Status,
       FinalStatus, OpenStatus
  <2>5. Shares(executions, Len(executions))' <= OrderQty
    BY <2>1 DEF Shares
  <2> QED
    BY <1>1, <2>4, <2>5 DEF FeedTyped
<1>5. CASE End
  BY <1>2, <1>3, <1>5 DEF End
<1>6. ASSUME NEW r \in Responses, Poll(r) PROVE FeedTyped'
  <2>1. r \in [m : 0 .. Len(executions), shown : SUBSET (1 .. Len(executions)), final : BOOLEAN]
    BY DEF Responses
  <2>2. 1 \in 0 .. r.m + 1
    BY <1>2, <2>1
  <2> QED
    BY <1>2, <1>3, <1>6, <2>1, <2>2 DEF Poll
<1>7. CASE ApplyDetail
  <2>1. /\ place \in 1 .. response.m /\ place' = place + 1
        /\ UNCHANGED <<executions, ended, response>>
        /\ order' = IF place \in response.shown
                  THEN AfterFillEvent(order, Detail(place)) ELSE order
    BY <1>7, ExecutedShares DEF ApplyDetail
  <2>2. Detail(place) \in FillEvents
    BY <2>1, DetailIsEvent
  <2>3. order' \in Order
    BY <1>2, <2>1, <2>2, FillEventEffect
  <2>4. place' \in 0 .. response'.m + 1
    BY <1>2, <2>1
  <2> QED
    BY <1>2, <1>3, <2>1, <2>3, <2>4
<1>8. CASE ApplyTotal
  <2>1. /\ order' = AfterOrderEvent(order, Total(response))
        /\ response' = [m |-> 0, shown |-> {}, final |-> FALSE] /\ place' = 0
        /\ UNCHANGED <<executions, ended>>
    BY <1>8, ExecutedShares DEF ApplyTotal, NoResponse
  <2>2. order' \in Order
    BY <1>2, <2>1, TotalIsEvent, OrderEventEffect
  <2> QED
    BY <1>2, <1>3, <2>1, <2>2
<1>9. CASE UNCHANGED feedVars
  BY <1>2, <1>3, <1>9 DEF feedVars
<1> QED
  BY <1>4, <1>5, <1>6, <1>7, <1>8, <1>9 DEF FeedNext

\* With complete details the order knows a prefix of the executions, at least as far as
\* the response has been applied.
FeedInv ==
  /\ FeedTyped
  /\ ~DetailsMayLag
  /\ \E n : Knows(executions, ended, order, n) /\ place <= n + 1
  /\ place > 0 => /\ response.shown = 1 .. response.m
                  /\ response.final => ended /\ response.m = Len(executions)

\* Every step keeps it: a detail goes to the next execution, a total adds nothing.
LEMMA FeedInvStep == FeedInv /\ [FeedNext]_feedVars => FeedInv'
<1> SUFFICES ASSUME FeedInv, [FeedNext]_feedVars PROVE FeedInv'
  OBVIOUS
<1>1. FeedTyped /\ FeedTyped' /\ ~DetailsMayLag /\ FeedBounds
  BY FeedTypedStep DEF FeedInv, FeedTyped
<1>2. PICK n : Knows(executions, ended, order, n) /\ place <= n + 1
  BY DEF FeedInv
<1>3. /\ executions \in Seq(1 .. OrderQty) /\ Len(executions) \in Nat
      /\ n \in 0 .. Len(executions) /\ OrderQty \in Nat
      /\ response.m \in 0 .. Len(executions) /\ place \in 0 .. response.m + 1
      /\ response.final \in BOOLEAN
  BY <1>1, <1>2 DEF FeedTyped, FeedTypeOK, Knows, FeedBounds
<1>4. place > 0 => /\ response.shown = 1 .. response.m
                   /\ response.final => ended /\ response.m = Len(executions)
  BY DEF FeedInv
<1>5. ASSUME NEW k, Knows(executions', ended', order', k), place' <= k + 1,
             place' > 0 => /\ response'.shown = 1 .. response'.m
                           /\ response'.final => ended' /\ response'.m = Len(executions')
      PROVE  FeedInv'
  <2>1. Knows(executions, ended, order, k)'
    BY <1>5 DEF Knows, Shares, IsFinal, Order
  <2> QED
    BY <1>1, <1>5, <2>1 DEF FeedInv
<1>6. ASSUME NEW q \in 1 .. OrderQty, Execute(q) PROVE FeedInv'
  <2>1. /\ Len(executions') = Len(executions) + 1
        /\ \A i \in 0 .. Len(executions) : Shares(executions', i) = Shares(executions, i)
        /\ Shares(executions', Len(executions')) <= OrderQty
        /\ Shares(executions, Len(executions)) < OrderQty
    BY <1>1, <1>6, ExecuteTotals
  <2>2. ~ended /\ UNCHANGED <<ended, order, response, place>>
    BY <1>6 DEF Execute
  <2>3. ~IsFinal(order) /\ Shares(executions, n) # OrderQty
    <3>1. Shares(executions, Len(executions)) # OrderQty
      BY <1>3, <2>1
    <3> QED
      BY <1>2, <2>2, <3>1 DEF Knows
  <2>4. n \in 0 .. Len(executions') /\ Shares(executions', n) = Shares(executions, n)
    BY <1>3, <2>1
  <2>5. Knows(executions', ended', order', n)
    BY <1>2, <2>1, <2>2, <2>3, <2>4 DEF Knows
  <2> QED
    BY <1>2, <1>4, <1>5, <2>2, <2>5
<1>7. CASE End
  <2>1. ended' = TRUE /\ UNCHANGED <<executions, order, response, place>>
    BY <1>7 DEF End
  <2>2. Knows(executions', ended', order', n)
    BY <1>2, <2>1 DEF Knows
  <2> QED
    BY <1>2, <1>4, <1>5, <2>1, <2>2
<1>8. ASSUME NEW r \in Responses, Poll(r) PROVE FeedInv'
  <2>1. response' = r /\ place' = 1 /\ UNCHANGED <<executions, ended, order>>
    BY <1>8 DEF Poll
  <2>2. r.shown = 1 .. r.m /\ (r.final => ended /\ r.m = Len(executions))
    BY <1>1 DEF Responses
  <2>3. place' <= n + 1
    BY <1>3, <2>1
  <2> QED
    BY <1>2, <1>5, <2>1, <2>2, <2>3
<1>9. CASE ApplyDetail
  <2>1. /\ place \in 1 .. response.m /\ place' = place + 1
        /\ UNCHANGED <<executions, ended, response>>
        /\ order' = IF place \in response.shown
                  THEN AfterFillEvent(order, Detail(place)) ELSE order
    BY <1>9, ExecutedShares DEF ApplyDetail
  <2>2. place > 0 /\ place \in response.shown
    BY <1>3, <1>4, <2>1
  <2>3. /\ place \in 1 .. Len(executions)
        /\ Detail(place) = [trade |-> place, qty |-> executions[place], priced |-> TRUE,
                                 broker |-> order.broker]
    BY <1>1, <2>1, DetailIsEvent
  <2>4. PICK k : k >= place /\ Knows(executions, ended, AfterFillEvent(order, Detail(place)), k)
    BY <1>1, <1>2, <1>3, <2>3, DetailKnown
  <2>5. k \in 0 .. Len(executions)
    BY <2>4 DEF Knows
  <2>6. place' <= k + 1
    BY <1>3, <2>1, <2>4, <2>5
  <2> QED
    BY <1>4, <1>5, <2>1, <2>2, <2>4, <2>6
<1>10. CASE ApplyTotal
  <2>1. /\ place = response.m + 1
        /\ order' = AfterOrderEvent(order, Total(response))
        /\ place' = 0 /\ UNCHANGED <<executions, ended>>
    BY <1>10, ExecutedShares DEF ApplyTotal
  <2>2. response.m \in 0 .. n /\ place > 0
    BY <1>2, <1>3, <2>1
  <2>3. PICK t : t = Total(response)
    OBVIOUS
  <2>4. /\ t \in OrderEvents /\ t.cum = Shares(executions, response.m)
        /\ t.broker = order.broker
        /\ t.status \in {"filled", "canceled", "partially_filled", "working"}
        /\ t.status = "filled" => Shares(executions, response.m) >= OrderQty
        /\ t.status = "canceled" => response.final
    BY <1>1, <2>3, TotalIsEvent
  <2>5. Shares(executions, response.m) <= OrderQty /\ Shares(executions, response.m) \in Nat
    <3>1. Len(executions) \in 0 .. Len(executions) /\ response.m <= Len(executions)
      BY <1>3
    <3>2. Shares(executions, Len(executions)) >=
            Shares(executions, response.m) + (Len(executions) - response.m)
      BY <1>1, <1>3, <3>1, SharesGrow
    <3>3. /\ Shares(executions, response.m) \in Nat
          /\ Shares(executions, Len(executions)) \in Nat
      BY <1>1, <1>3, <3>1, SharesAdd
    <3>4. Shares(executions, Len(executions)) <= OrderQty
      BY <1>1 DEF FeedTyped
    <3> QED
      BY <1>3, <3>1, <3>2, <3>3, <3>4
  <2>6. t.status = "filled" => Shares(executions, response.m) = OrderQty
    BY <1>3, <2>4, <2>5
  <2>7. t.status = "canceled" => ended /\ response.m = Len(executions)
    BY <1>4, <2>2, <2>4
  <2>8. Knows(executions, ended, AfterOrderEvent(order, t), n)
    BY <1>1, <1>2, <1>3, <2>2, <2>4, <2>6, <2>7, TotalKnown
  <2>9. place' <= n + 1 /\ ~(place' > 0)
    BY <1>3, <2>1
  <2> QED
    BY <1>5, <2>1, <2>3, <2>8, <2>9
<1>11. CASE UNCHANGED feedVars
  <2>1. UNCHANGED <<executions, ended, order, response, place>>
    BY <1>11 DEF feedVars
  <2>2. Knows(executions', ended', order', n)
    BY <1>2, <2>1
  <2> QED
    BY <1>2, <1>4, <1>5, <2>1, <2>2
<1> QED
  BY <1>6, <1>7, <1>8, <1>9, <1>10, <1>11 DEF FeedNext

\* For every quantity and whatever the age of the responses and the gaps in their
\* details, the order of a feed stays well formed and its executions within the order.
THEOREM FeedTypeCorrect == FeedIds /\ FeedSpec => []FeedTypeOK
<1>1. FeedIds /\ FeedInit => FeedTyped
  BY FeedStarts, FeedAssumption DEF FeedBounds
<1>2. FeedTyped => FeedTypeOK
  BY DEF FeedTyped
<1> QED
  BY <1>1, <1>2, FeedTypedStep, PTL DEF FeedSpec

\* The invariant holds from the start.
LEMMA FeedInvInit == FeedIds /\ ~DetailsMayLag /\ FeedInit => FeedInv
<1> SUFFICES ASSUME FeedIds, ~DetailsMayLag, FeedInit PROVE FeedInv
  OBVIOUS
<1>1. FeedTyped
  BY FeedStarts, FeedAssumption DEF FeedBounds
<1>2. PICK n : Knows(executions, ended, order, n)
  BY FeedStarts, FeedAssumption DEF FeedBounds
<1>3. place = 0 /\ n \in 0 .. Len(executions)
  BY <1>2 DEF FeedInit, Knows
<1>4. place <= n + 1 /\ ~(place > 0)
  BY <1>3
<1> QED
  BY <1>1, <1>2, <1>4 DEF FeedInv

\* What the order knows is never more than what was executed.
LEMMA FeedInvGives == FeedInv => NeverAhead /\ FinalIsExact
<1> SUFFICES ASSUME FeedInv PROVE NeverAhead /\ FinalIsExact
  OBVIOUS
<1>1. PICK n : Knows(executions, ended, order, n)
  BY DEF FeedInv
<1>2. /\ FeedBounds /\ executions \in Seq(1 .. OrderQty)
      /\ n \in 0 .. Len(executions) /\ order.cum = Shares(executions, n)
      /\ IsFinal(order) => n = Len(executions)
  BY <1>1 DEF FeedInv, FeedTyped, FeedTypeOK, Knows
<1>3. Len(executions) \in 0 .. Len(executions) /\ n <= Len(executions)
  BY <1>2
<1>4. /\ Shares(executions, Len(executions)) >= Shares(executions, n) + (Len(executions) - n)
      /\ Shares(executions, Len(executions)) \in Nat /\ Shares(executions, n) \in Nat
  BY <1>2, <1>3, SharesGrow, SharesAdd
<1>5. order.cum <= Shares(executions, Len(executions))
  BY <1>2, <1>3, <1>4
<1> QED
  BY <1>2, <1>5, ExecutedShares DEF NeverAhead, FinalIsExact

\* As long as a response shows a detail for every share of its total, the ledger never
\* reports a share nobody executed: for every quantity, every age of the responses and
\* every order in which executions and polls come (poll_order_events, orders.py:166-188).
THEOREM FeedNeverAhead ==
  FeedIds /\ ~DetailsMayLag /\ FeedSpec => []NeverAhead
<1>1. FeedInv => NeverAhead
  BY FeedInvGives
<1> QED
  BY <1>1, FeedInvInit, FeedInvStep, PTL DEF FeedSpec

\* And an order that is over, and so not polled again, has every share.
THEOREM FeedFinalIsExact ==
  FeedIds /\ ~DetailsMayLag /\ FeedSpec => []FinalIsExact
<1>1. FeedInv => FinalIsExact
  BY FeedInvGives
<1> QED
  BY <1>1, FeedInvInit, FeedInvStep, PTL DEF FeedSpec

===============================================================================
