------------------------------ MODULE DryRunProofs ------------------------------
(***************************************************************************)
(* The dry run, for all quantities, numbers of retries and ways a board    *)
(* may go: the simulator's books agree with the ledger's, a hard kill      *)
(* flattens, and simulator and ledger together implement Venue.            *)
(***************************************************************************)
EXTENDS DryRun, SequenceTheorems, TLAPS

-------------------------------------------------------------------------------
(***************************************************************************)
(* The inductive invariant.                                                *)
(***************************************************************************)

Stages ==
  {"board", "decide", "exitCancel", "release", "deferred", "entryCancel", "entry",
   "exit", "cancelAll", "flattenTick", "flatten", "halted"}

Kinds == {"", "limit", "market"}

Plans ==
  [exitCancel : BOOLEAN, entryCancel : BOOLEAN, entry : Kinds, exit : Kinds]

\* The stage goes with the plan: an entry is submitted in its own stage only, and the
\* stages that replace an exit have nothing else to submit.
StageOk ==
  /\ pc \in Stages /\ plan \in Plans
  /\ todo \subseteq InBook
  /\ todo # {} => pc = "decide"
  /\ pc \in {"exitCancel", "release", "deferred"} => plan.entry = "" /\ plan.exit = ""
  /\ pc = "entryCancel" => plan.entry = ""
  /\ pc = "entry" => plan.entry # "" /\ plan.exit = ""
  /\ pc = "exit" => plan.exit # ""
  /\ pc \in {"exitCancel", "deferred", "flattenTick", "flatten"} => inbox = <<>>

OrderFields == {"qty", "cum", "status", "priced", "anchored", "broker", "seen"}

\* An order of the ledger: one that is complete is final, and the executions seen are
\* numbered by what they added up to.
OrderOk(o) ==
  /\ DOMAIN o = OrderFields
  /\ o.qty \in 0 .. MaxQty /\ o.cum \in 0 .. o.qty
  /\ o.anchored = TRUE
  /\ ~IsFinal(o) => o.cum < o.qty
  /\ o.seen \subseteq 0 .. o.cum

OrdersOk == DOMAIN orders = Slots /\ \A s \in Slots : OrderOk(orders[s])

Executions ==
  {FillMessage(s, n, t) : s \in Slots, n \in 1 .. MaxQty, t \in 1 .. MaxQty}

Reports ==
  {OrderMessage(s, st, c, priced) :
     s \in Slots, st \in {"working", "canceled"}, c \in {NoCum} \cup 0 .. MaxQty,
     priced \in BOOLEAN}

Messages == Executions \cup Reports

IsFill(m, s) == m.kind = "fill" /\ m.slot = s

IsAck(m, s) == m.kind = "order" /\ m.slot = s /\ m.event.status = "working"

IsEnd(m, s) == m.kind = "order" /\ m.slot = s /\ m.event.status = "canceled"

HasEnd(s) == \E i \in DOMAIN inbox : IsEnd(inbox[i], s)

\* Every message is about an order at work that has been submitted.  There is one
\* execution of it at most, numbered by what is known afterwards; the acknowledgement
\* comes first; the end comes last, ends a rest and names nothing that is not told yet.
InboxOk ==
  /\ inbox \in Seq(Messages)
  /\ \A i \in DOMAIN inbox : inbox[i].slot \in Active /\ inbox[i].slot \notin ToSubmit
  /\ \A i \in DOMAIN inbox, s \in Slots : IsFill(inbox[i], s) =>
       /\ inbox[i].event.trade = orders[s].cum + inbox[i].event.qty
       /\ orders[s].cum + inbox[i].event.qty <= orders[s].qty
       /\ \A j \in DOMAIN inbox : IsFill(inbox[j], s) => j = i
  /\ \A i \in DOMAIN inbox, s \in Slots : IsAck(inbox[i], s) =>
       i = 1 /\ inbox[i].event.cum = NoCum
  /\ \A i \in DOMAIN inbox, s \in Slots : IsEnd(inbox[i], s) =>
       /\ i = Len(inbox) /\ s \notin InBook
       /\ orders[s].cum + PendingFills(s) < orders[s].qty
       /\ inbox[i].event.cum \in {NoCum, orders[s].cum + PendingFills(s)}
  /\ todo # {} =>
       \A i \in DOMAIN inbox : inbox[i].kind = "fill" /\ inbox[i].slot \notin todo

\* The simulator has what the ledger has but for what the inbox says; what it no longer
\* has the inbox will finish.
BookOk(s) ==
  /\ s \in InBook =>
       /\ s \in Active /\ s \notin ToSubmit
       /\ book[s].leaves >= 1
       /\ orders[s].cum + PendingFills(s) + book[s].leaves = orders[s].qty
  /\ s \in ToSubmit => s \in Active /\ orders[s].cum = 0
  /\ s \in Active /\ s \notin InBook /\ s \notin ToSubmit =>
       HasEnd(s) \/ orders[s].cum + PendingFills(s) = orders[s].qty

BooksOk ==
  /\ book \in [Slots -> [leaves : Nat, ahead : Nat]]
  /\ \A s \in Slots : BookOk(s)

Rest(s) == orders[s].qty - orders[s].cum

\* An open position has a workflow, an exit asks for no more than the position, one
\* that has been forced for exactly that, and a workflow that has asked for a forced
\* exit has it on its way or waits for the end of the one it replaces.
PositionOk ==
  /\ position \in 0 .. MaxQty
  /\ lollipop \in [phase : Phases, retry : Nat, forced : BOOLEAN]
  /\ position > 0 => lollipop.phase # "IDLE"
  /\ "entry" \in Active => position + Rest("entry") <= MaxQty
  /\ "exit" \in Active => Rest("exit") <= position /\ lollipop.phase \in {"ACTIVE", "TIMEOUT"}
  /\ "exit" \in ToSubmit => orders["exit"].qty = position

ForcedOk ==
  /\ lollipop.forced \/ "exit" \in ToSubmit =>
       pc # "decide" /\ \A i \in DOMAIN inbox : ~IsFill(inbox[i], "entry")
  /\ lollipop.forced =>
       /\ lollipop.phase = "TIMEOUT" /\ "exit" \in Active
       /\ \/ pc = "exitCancel"
          \/ "exit" \notin InBook /\ (Rest("exit") = position \/ HasEnd("exit"))
  /\ lollipop.forced /\ pc \in {"entryCancel", "exit"} => plan.exit # "limit"

\* After a hard kill nothing is queued, and what is left of the position is the rest of
\* the one order that was to close it.
HaltOk ==
  /\ pc \in {"flattenTick", "flatten", "halted"} => InBook = {} /\ "entry" \notin Active
  /\ pc \in {"flatten", "halted"} /\ position > 0 => position = Rest("exit")

DryInv ==
  StageOk /\ OrdersOk /\ InboxOk /\ BooksOk /\ PositionOk /\ ForcedOk /\ HaltOk

-------------------------------------------------------------------------------
(***************************************************************************)
(* Orders: what the ledger makes of what the simulator says.               *)
(***************************************************************************)

\* A new order has nothing executed and is at work.
LEMMA NewOrderOk ==
  ASSUME NEW n \in 1 .. MaxQty
  PROVE  LET o == NewOrder(n, TRUE)
         IN  OrderOk(o) /\ o.qty = n /\ o.cum = 0 /\ ~IsFinal(o)
BY DryRunAssumption DEF NewOrder, OrderOk, OrderFields, IsFinal, FinalStatus

\* Asking for a cancel changes nothing but the status, and ends nothing.
LEMMA CancelKeeps ==
  ASSUME NEW o, OrderOk(o), ~IsFinal(o)
  PROVE  LET x == MarkCancelPending(o)
         IN  OrderOk(x) /\ x.qty = o.qty /\ x.cum = o.cum /\ ~IsFinal(x)
<1> DEFINE x == MarkCancelPending(o)
<1>1. x = [o EXCEPT !.status = "cancel_pending"]
  BY DEF MarkCancelPending
<1>2. /\ DOMAIN x = OrderFields /\ x.qty = o.qty /\ x.cum = o.cum
      /\ x.anchored = o.anchored /\ x.seen = o.seen /\ x.status = "cancel_pending"
  BY <1>1 DEF OrderOk, OrderFields
<1> QED
  BY <1>2 DEF OrderOk, IsFinal, FinalStatus

\* An execution numbered by the executed quantity is new, counts whole, and fills the
\* order or leaves it at work.
LEMMA FillEffect ==
  ASSUME NEW o, OrderOk(o), ~IsFinal(o), NEW e, NEW n \in 1 .. MaxQty,
         e.qty = n, e.trade = o.cum + n, e.priced = TRUE, e.broker = NoBroker,
         o.cum + n <= o.qty
  PROVE  LET x == AfterFillEvent(o, e)
         IN  /\ FillEventFill(o, e) = n
             /\ OrderOk(x) /\ x.qty = o.qty /\ x.cum = o.cum + n
             /\ x.status # "canceled" /\ (IsFinal(x) <=> o.cum + n = o.qty)
<1> DEFINE x == AfterFillEvent(o, e)
<1>1. o.qty \in Nat /\ o.cum \in Nat /\ o.qty <= MaxQty /\ DOMAIN o = OrderFields
  BY DryRunAssumption DEF OrderOk
<1>2. e.trade \notin o.seen
  BY <1>1 DEF OrderOk
<1>3. LeavesQty(o) = o.qty - o.cum
  BY <1>1 DEF LeavesQty
<1>4. FillEventFill(o, e) = n
  BY <1>1, <1>2, <1>3 DEF FillEventFill
<1>5. x = [o EXCEPT !.cum = @ + n,
                    !.status = IF o.cum + n >= o.qty THEN "filled" ELSE "partially_filled",
                    !.priced = TRUE, !.seen = @ \cup {e.trade}]
  BY <1>4 DEF AfterFillEvent, WithBroker
<1>6. /\ DOMAIN x = OrderFields /\ x.qty = o.qty /\ x.cum = o.cum + n
      /\ x.anchored = o.anchored /\ x.seen = o.seen \cup {e.trade}
      /\ x.status = IF o.cum + n >= o.qty THEN "filled" ELSE "partially_filled"
  BY <1>1, <1>5 DEF OrderFields
<1>7. IsFinal(x) <=> o.cum + n = o.qty
  BY <1>1, <1>6 DEF IsFinal, FinalStatus
<1>8. x.seen \subseteq 0 .. x.cum
  BY <1>1, <1>6 DEF OrderOk
<1> HIDE DEF x
<1>9. OrderOk(x)
  BY <1>1, <1>6, <1>7, <1>8 DEF OrderOk
<1> QED
  BY <1>4, <1>6, <1>7, <1>9 DEF x

\* A report that claims no more than is known adds nothing; a working one leaves the
\* order at work, a cancel ends it.
LEMMA ReportEffect ==
  ASSUME NEW o, OrderOk(o), ~IsFinal(o), NEW e, e.status \in {"working", "canceled"},
         e.cum \in {NoCum, o.cum}
  PROVE  LET x == AfterOrderEvent(o, e)
         IN  /\ OrderEventFill(o, e) = 0
             /\ OrderOk(x) /\ x.qty = o.qty /\ x.cum = o.cum
             /\ (IsFinal(x) <=> e.status = "canceled")
             /\ (x.status = "canceled" <=> e.status = "canceled")
<1> DEFINE x == AfterOrderEvent(o, e)
<1>1. o.qty \in Nat /\ o.cum \in Nat /\ o.cum < o.qty /\ DOMAIN o = OrderFields
  BY DryRunAssumption DEF OrderOk
<1>2. ClaimedCum(o, e) = o.cum
  BY <1>1 DEF ClaimedCum
<1>3. OrderEventFill(o, e) = 0
  BY <1>1, <1>2 DEF OrderEventFill
<1>4. CumAfterEvent(o, e) = o.cum
  BY <1>3 DEF CumAfterEvent
<1>5. StatusAfterEvent(o, e)
        = IF e.status = "canceled" THEN "canceled"
          ELSE IF o.cum > 0 THEN "partially_filled" ELSE "working"
  BY <1>1, <1>4 DEF StatusAfterEvent
<1> DEFINE w == WithBroker(o, e.broker)
<1>6. DOMAIN w = OrderFields /\ w.qty = o.qty /\ w.anchored = o.anchored /\ w.seen = o.seen
  BY <1>1 DEF WithBroker, OrderFields
<1> HIDE DEF w
<1>7. x = [w EXCEPT !.cum = CumAfterEvent(o, e), !.status = StatusAfterEvent(o, e),
                    !.priced = @ \/ OrderEventFill(o, e) > 0]
  BY DEF AfterOrderEvent, w
<1>8. /\ DOMAIN x = OrderFields /\ x.qty = o.qty /\ x.anchored = o.anchored
      /\ x.seen = o.seen /\ x.cum = CumAfterEvent(o, e)
      /\ x.status = StatusAfterEvent(o, e)
  BY <1>6, <1>7, Zenon DEF OrderFields
<1> HIDE DEF x
<1>9. (IsFinal(x) <=> e.status = "canceled") /\ (x.status = "canceled" <=> e.status = "canceled")
  BY <1>5, <1>8 DEF IsFinal, FinalStatus
<1>10. OrderOk(x)
  BY <1>1, <1>4, <1>8 DEF OrderOk
<1> QED
  BY <1>3, <1>4, <1>8, <1>9, <1>10 DEF x

-------------------------------------------------------------------------------
(***************************************************************************)
(* Messages, and the execution a sequence of them still has to tell.       *)
(***************************************************************************)

Pending(b, s) ==
  LET pending == {i \in DOMAIN b : b[i].slot = s /\ b[i].kind = "fill"}
  IN  IF pending = {} THEN 0 ELSE b[CHOOSE i \in pending : TRUE].event.qty

\* What is pending in the inbox, by the name that goes for any sequence of messages.
LEMMA PendingIs == \A s : PendingFills(s) = Pending(inbox, s)
BY DEF PendingFills, Pending

\* The fields of a message.
LEMMA MessageFields ==
  ASSUME NEW m \in Messages
  PROVE  /\ m.slot \in Slots /\ m.kind \in {"fill", "order"}
         /\ m.kind = "fill" =>
              /\ m.event.qty \in 1 .. MaxQty
              /\ m.event.priced = TRUE /\ m.event.broker = NoBroker
         /\ m.kind = "order" => m.event.status \in {"working", "canceled"}
<1>1. CASE m \in Executions
  <2>1. PICK s \in Slots, n \in 1 .. MaxQty, t \in 1 .. MaxQty : m = FillMessage(s, n, t)
    BY <1>1 DEF Executions
  <2> QED
    BY <2>1 DEF FillMessage
<1>2. CASE m \in Reports
  <2>1. PICK s \in Slots, st \in {"working", "canceled"}, c \in {NoCum} \cup 0 .. MaxQty,
             priced \in BOOLEAN : m = OrderMessage(s, st, c, priced)
    BY <1>2 DEF Reports
  <2>2. m.slot = s /\ m.kind = "order" /\ m.event.status = st
    BY <2>1 DEF OrderMessage
  <2> QED
    BY <2>2
<1> QED
  BY <1>1, <1>2 DEF Messages

\* A message is one, and has its fields.
LEMMA FillFields ==
  ASSUME NEW s \in Slots, NEW n \in 1 .. MaxQty, NEW t \in 1 .. MaxQty
  PROVE  LET m == FillMessage(s, n, t)
         IN  /\ m \in Messages /\ m.kind = "fill" /\ m.slot = s
             /\ m.event.qty = n /\ m.event.trade = t
<1>1. FillMessage(s, n, t) \in Messages
  BY DEF Messages, Executions
<1> QED
  BY <1>1 DEF FillMessage

\* The fields of an order event.
LEMMA ReportFields ==
  ASSUME NEW s \in Slots, NEW st \in {"working", "canceled"},
         NEW c \in {NoCum} \cup 0 .. MaxQty, NEW priced \in BOOLEAN
  PROVE  LET m == OrderMessage(s, st, c, priced)
         IN  /\ m \in Messages /\ m.kind = "order" /\ m.slot = s
             /\ m.event.status = st /\ m.event.cum = c
<1>1. OrderMessage(s, st, c, priced) \in Messages
  BY DEF Messages, Reports
<1> QED
  BY <1>1 DEF OrderMessage

\* Without an execution nothing is pending.
LEMMA PendingNone ==
  ASSUME NEW b, NEW s, \A i \in DOMAIN b : ~IsFill(b[i], s)
  PROVE  Pending(b, s) = 0
BY DEF Pending, IsFill

\* The only execution of an order is what is pending of it.
LEMMA PendingOne ==
  ASSUME NEW b, NEW s, NEW i \in DOMAIN b, IsFill(b[i], s),
         \A j \in DOMAIN b : IsFill(b[j], s) => j = i
  PROVE  Pending(b, s) = b[i].event.qty
<1> DEFINE pending == {j \in DOMAIN b : b[j].slot = s /\ b[j].kind = "fill"}
<1>1. pending = {i}
  BY DEF IsFill
<1>2. (CHOOSE j \in pending : TRUE) = i
  BY <1>1
<1> QED
  BY <1>1, <1>2 DEF Pending

AtMostOne(b, s) == \A i, j \in DOMAIN b : IsFill(b[i], s) /\ IsFill(b[j], s) => i = j

\* The places of a sequence without its first element.
LEMMA TailPlaces ==
  ASSUME NEW b \in Seq(Messages), b # <<>>
  PROVE  /\ Tail(b) \in Seq(Messages) /\ Head(b) = b[1] /\ 1 \in DOMAIN b
         /\ b[1] \in Messages /\ Len(b) \in Nat \ {0} /\ DOMAIN b = 1 .. Len(b)
         /\ DOMAIN Tail(b) = 1 .. Len(b) - 1 /\ Len(Tail(b)) = Len(b) - 1
         /\ \A i \in DOMAIN Tail(b) : i + 1 \in DOMAIN b /\ i \in Nat /\ Tail(b)[i] = b[i + 1]
         /\ \A i \in DOMAIN b : i # 1 => i - 1 \in DOMAIN Tail(b) /\ Tail(b)[i - 1] = b[i]
<1>1. /\ Tail(b) \in Seq(Messages) /\ Head(b) = b[1]
      /\ Len(b) \in Nat /\ Len(b) # 0 /\ DOMAIN b = 1 .. Len(b)
      /\ Len(Tail(b)) = Len(b) - 1
      /\ \A i \in 1 .. Len(b) - 1 : Tail(b)[i] = b[i + 1]
  OBVIOUS
<1>2. DOMAIN Tail(b) = 1 .. Len(b) - 1
  BY <1>1
<1>3. 1 \in DOMAIN b /\ b[1] \in Messages
  BY <1>1
<1>4. \A i \in DOMAIN Tail(b) : i + 1 \in DOMAIN b /\ i \in Nat /\ Tail(b)[i] = b[i + 1]
  BY <1>1, <1>2
<1>5. \A i \in DOMAIN b : i # 1 => i - 1 \in DOMAIN Tail(b) /\ Tail(b)[i - 1] = b[i]
  BY <1>1, <1>2
<1> QED
  BY <1>1, <1>2, <1>3, <1>4, <1>5

\* Telling the first message leaves what the others say.
LEMMA PendingTail ==
  ASSUME NEW b \in Seq(Messages), b # <<>>, NEW s, AtMostOne(b, s)
  PROVE  Pending(Tail(b), s) = IF IsFill(b[1], s) THEN 0 ELSE Pending(b, s)
<1>1. CASE \A i \in DOMAIN Tail(b) : ~IsFill(Tail(b)[i], s)
  <2>1. Pending(Tail(b), s) = 0
    BY <1>1, PendingNone
  <2>2. CASE ~IsFill(b[1], s)
    <3>1. \A i \in DOMAIN b : ~IsFill(b[i], s)
      BY <1>1, <2>2, TailPlaces
    <3> QED
      BY <2>1, <2>2, <3>1, PendingNone
  <2> QED
    BY <2>1, <2>2
<1>2. CASE \E i \in DOMAIN Tail(b) : IsFill(Tail(b)[i], s)
  <2>1. PICK i \in DOMAIN Tail(b) : IsFill(Tail(b)[i], s)
    BY <1>2
  <2>2. i + 1 \in DOMAIN b /\ i \in Nat /\ Tail(b)[i] = b[i + 1] /\ 1 \in DOMAIN b /\ i >= 1
    BY TailPlaces
  <2>3. ~IsFill(b[1], s)
    BY <2>1, <2>2 DEF AtMostOne
  <2>4. \A j \in DOMAIN Tail(b) : IsFill(Tail(b)[j], s) => j = i
    <3> TAKE j \in DOMAIN Tail(b)
    <3> HAVE IsFill(Tail(b)[j], s)
    <3>1. j + 1 \in DOMAIN b /\ j \in Nat /\ Tail(b)[j] = b[j + 1]
      BY TailPlaces
    <3>2. j + 1 = i + 1
      BY <2>1, <2>2, <3>1 DEF AtMostOne
    <3> QED
      BY <2>2, <3>1, <3>2
  <2>5. Pending(Tail(b), s) = Tail(b)[i].event.qty
    BY <2>1, <2>4, PendingOne
  <2>6. Pending(b, s) = b[i + 1].event.qty
    <3> PICK k \in DOMAIN b : k = i + 1
      BY <2>2
    <3>1. IsFill(b[k], s) /\ \A j \in DOMAIN b : IsFill(b[j], s) => j = k
      BY <2>1, <2>2 DEF AtMostOne
    <3> QED
      BY <3>1, PendingOne
  <2> QED
    BY <2>2, <2>3, <2>5, <2>6
<1> QED
  BY <1>1, <1>2

\* A message more says what it says, and leaves the others in their places.
LEMMA PendingAppend ==
  ASSUME NEW b \in Seq(Messages), NEW s, NEW m \in Messages,
         IsFill(m, s) => \A i \in DOMAIN b : ~IsFill(b[i], s), AtMostOne(b, s)
  PROVE  /\ Append(b, m) \in Seq(Messages) /\ DOMAIN b = 1 .. Len(b)
         /\ DOMAIN Append(b, m) = 1 .. Len(b) + 1 /\ Len(b) \in Nat
         /\ Append(b, m)[Len(b) + 1] = m
         /\ \A i \in DOMAIN b : i \in DOMAIN Append(b, m) /\ Append(b, m)[i] = b[i]
         /\ \A i \in DOMAIN Append(b, m) : i = Len(b) + 1 \/ i \in DOMAIN b
         /\ Pending(Append(b, m), s) = IF IsFill(m, s) THEN m.event.qty ELSE Pending(b, s)
<1> DEFINE a == Append(b, m)
<1>1. /\ a \in Seq(Messages) /\ DOMAIN b = 1 .. Len(b) /\ Len(b) \in Nat
      /\ Len(a) = Len(b) + 1
  OBVIOUS
<1>2. a[Len(b) + 1] = m /\ \A i \in 1 .. Len(b) : a[i] = b[i]
  OBVIOUS
<1>3. DOMAIN a = 1 .. Len(b) + 1
  BY <1>1
<1>4. \A i \in DOMAIN b : i \in DOMAIN a /\ a[i] = b[i]
  BY <1>1, <1>2, <1>3
<1>5. \A i \in DOMAIN a : i = Len(b) + 1 \/ i \in DOMAIN b
  BY <1>1, <1>3
<1>6. Len(b) + 1 \in DOMAIN a /\ Len(b) + 1 \notin DOMAIN b
  BY <1>1, <1>3
<1> PICK k : k = Len(b) + 1
  OBVIOUS
<1>7. k \in DOMAIN a /\ k \notin DOMAIN b /\ a[k] = m /\ \A i \in DOMAIN a : i = k \/ i \in DOMAIN b
  BY <1>2, <1>5, <1>6
<1> HIDE DEF a
<1>8. CASE IsFill(m, s)
  <2>1. \A j \in DOMAIN a : IsFill(a[j], s) => j = k
    BY <1>4, <1>7, <1>8
  <2>2. Pending(a, s) = a[k].event.qty
    BY <1>7, <1>8, <2>1, PendingOne
  <2> QED
    BY <1>1, <1>2, <1>3, <1>4, <1>5, <1>7, <1>8, <2>2 DEF a
<1>9. CASE ~IsFill(m, s) /\ \A i \in DOMAIN b : ~IsFill(b[i], s)
  <2>1. \A j \in DOMAIN a : ~IsFill(a[j], s)
    BY <1>4, <1>7, <1>9
  <2>2. Pending(a, s) = 0 /\ Pending(b, s) = 0
    BY <1>9, <2>1, PendingNone
  <2> QED
    BY <1>1, <1>2, <1>3, <1>4, <1>5, <1>9, <2>2 DEF a
<1>10. CASE ~IsFill(m, s) /\ \E i \in DOMAIN b : IsFill(b[i], s)
  <2>1. PICK i \in DOMAIN b : IsFill(b[i], s)
    BY <1>10
  <2>2. \A j \in DOMAIN b : IsFill(b[j], s) => j = i
    BY <2>1 DEF AtMostOne
  <2>3. i \in DOMAIN a /\ a[i] = b[i] /\ \A j \in DOMAIN a : IsFill(a[j], s) => j = i
    BY <1>4, <1>7, <1>10, <2>2
  <2>4. Pending(b, s) = b[i].event.qty
    BY <2>1, <2>2, PendingOne
  <2>5. Pending(a, s) = a[i].event.qty
    BY <2>1, <2>3, PendingOne
  <2> QED
    BY <1>1, <1>2, <1>3, <1>4, <1>5, <1>10, <2>3, <2>4, <2>5 DEF a
<1> QED
  BY <1>8, <1>9, <1>10

\* The acknowledgement of a submission.
LEMMA AckFields ==
  ASSUME NEW s \in Slots
  PROVE  /\ Ack(s) \in Messages /\ Ack(s).slot = s /\ Ack(s).kind = "order"
         /\ Ack(s).event.cum = NoCum /\ Ack(s).event.status = "working"
<1> PICK c \in {NoCum} \cup 0 .. MaxQty : c = NoCum
  OBVIOUS
<1> PICK p \in BOOLEAN : p = FALSE
  OBVIOUS
<1>1. Ack(s) = OrderMessage(s, "working", c, p)
  BY DEF Ack
<1> QED
  BY <1>1, ReportFields

\* The end of a limit order names no quantity.
LEMMA EndFields ==
  ASSUME NEW s \in Slots
  PROVE  /\ CancelMessage(s) \in Messages /\ CancelMessage(s).slot = s
         /\ CancelMessage(s).kind = "order"
         /\ CancelMessage(s).event.cum = NoCum /\ CancelMessage(s).event.status = "canceled"
<1> PICK c \in {NoCum} \cup 0 .. MaxQty : c = NoCum
  OBVIOUS
<1> PICK p \in BOOLEAN : p = FALSE
  OBVIOUS
<1>1. CancelMessage(s) = OrderMessage(s, "canceled", c, p)
  BY DEF CancelMessage
<1> QED
  BY <1>1, ReportFields

\* What is said about a market order of q lots that executes n: where each message
\* stands, and that what has executed is still to be told.
Says(b, s, q, n) ==
  /\ n \in 0 .. q /\ b \in Seq(Messages)
  /\ \A i \in DOMAIN b :
       /\ b[i].slot = s
       /\ b[i].kind = "fill" => i = 2 /\ b[i].event.qty = n /\ b[i].event.trade = n
       /\ IsAck(b[i], s) => i = 1 /\ b[i].event.cum = NoCum
       /\ IsEnd(b[i], s) => i = Len(b) /\ n < q /\ b[i].event.cum = n
  /\ n < q => \E i \in DOMAIN b : IsEnd(b[i], s)
  /\ Pending(b, s) = n

\* A market order is acknowledged, executed and ended in this order.
LEMMA MarketSays ==
  ASSUME NEW s \in Slots, NEW q \in 1 .. MaxQty, NEW d \in Nat
  PROVE  Says(MarketMessages(s, q, d), s, q, MarketFillQty(q, d))
<1> DEFINE n == MarketFillQty(q, d)
           ack == Ack(s)
           fill == FillMessage(s, n, n)
           end == OrderMessage(s, "canceled", n, n > 0)
<1>1. n \in 0 .. q /\ n \in 0 .. MaxQty
  BY DryRunAssumption DEF MarketFillQty, Smaller
<1>2. /\ ack \in Messages /\ ack.slot = s /\ ack.kind = "order"
      /\ ack.event.cum = NoCum /\ ack.event.status = "working"
  BY AckFields
<1>3. n > 0 => /\ fill \in Messages /\ fill.kind = "fill" /\ fill.slot = s
               /\ fill.event.qty = n /\ fill.event.trade = n
  BY <1>1, DryRunAssumption, FillFields
<1>4. /\ end \in Messages /\ end.kind = "order" /\ end.slot = s
      /\ end.event.status = "canceled" /\ end.event.cum = n
  <2> PICK c \in {NoCum} \cup 0 .. MaxQty : c = n
    BY <1>1
  <2>1. (n > 0) \in BOOLEAN
    OBVIOUS
  <2>2. \A p \in BOOLEAN :
          LET m == OrderMessage(s, "canceled", c, p)
          IN  /\ m \in Messages /\ m.kind = "order" /\ m.slot = s
              /\ m.event.status = "canceled" /\ m.event.cum = c
    BY ReportFields
  <2> QED
    BY <2>1, <2>2 DEF end
<1>5. MarketMessages(s, q, d)
        = <<ack>> \o (IF n > 0 THEN <<fill>> ELSE <<>>) \o (IF n < q THEN <<end>> ELSE <<>>)
  BY DEF MarketMessages
<1> HIDE DEF n, ack, fill, end
<1>9. \A x, y \in Messages : <<x>> \o <<y>> = <<x, y>>
  <2> TAKE x, y \in Messages
  <2>1. <<x>> \in Seq(Messages)
    OBVIOUS
  <2>2. Append(<<x>>, y) = <<x>> \o <<y>>
    BY <2>1, AppendIsConcat
  <2>3. /\ Append(<<x>>, y) \in Seq(Messages) /\ <<x, y>> \in Seq(Messages)
        /\ Len(Append(<<x>>, y)) = Len(<<x, y>>)
        /\ \A i \in 1 .. Len(Append(<<x>>, y)) : Append(<<x>>, y)[i] = <<x, y>>[i]
    BY <2>1
  <2>4. Append(<<x>>, y) = <<x, y>>
    BY <2>3, SeqEqual, Zenon
  <2> QED
    BY <2>2, <2>4
<1>10. \A x, y, z \in Messages : <<x, y>> \o <<z>> = <<x, y, z>>
  <2> TAKE x, y, z \in Messages
  <2>1. <<x, y>> \in Seq(Messages)
    OBVIOUS
  <2>2. Append(<<x, y>>, z) = <<x, y>> \o <<z>>
    BY <2>1, AppendIsConcat
  <2>3. /\ Append(<<x, y>>, z) \in Seq(Messages) /\ <<x, y, z>> \in Seq(Messages)
        /\ Len(Append(<<x, y>>, z)) = Len(<<x, y, z>>)
        /\ \A i \in 1 .. Len(Append(<<x, y>>, z)) : Append(<<x, y>>, z)[i] = <<x, y, z>>[i]
    BY <2>1
  <2>4. Append(<<x, y>>, z) = <<x, y, z>>
    BY <2>3, SeqEqual, Zenon
  <2> QED
    BY <2>2, <2>4
<1>6. CASE n = 0
  <2> PICK b : b = <<ack, end>>
    OBVIOUS
  <2>1. MarketMessages(s, q, d) = b
    <3>1. MarketMessages(s, q, d) = <<ack>> \o <<>> \o <<end>>
      BY <1>1, <1>5, <1>6
    <3>2. <<ack>> \o <<>> = <<ack>>
      OBVIOUS
    <3>3. <<ack>> \o <<end>> = b
      BY <1>2, <1>4, <1>9
    <3> QED
      BY <3>1, <3>2, <3>3
  <2>2. b \in Seq(Messages) /\ Len(b) = 2 /\ DOMAIN b = {1, 2} /\ b[1] = ack /\ b[2] = end
    BY <1>2, <1>4
  <2>3. Pending(b, s) = 0
    BY <1>2, <1>4, <2>2, PendingNone DEF IsFill
  <2> QED
    BY <1>1, <1>2, <1>4, <1>6, <2>1, <2>2, <2>3 DEF IsAck, IsEnd, n, Says
<1>7. CASE n > 0 /\ n < q
  <2> PICK b : b = <<ack, fill, end>>
    OBVIOUS
  <2>1. MarketMessages(s, q, d) = b
    <3>1. MarketMessages(s, q, d) = <<ack>> \o <<fill>> \o <<end>>
      BY <1>5, <1>7
    <3>2. <<ack>> \o <<fill>> = <<ack, fill>>
      BY <1>2, <1>3, <1>4, <1>9, <1>7
    <3>3. <<ack, fill>> \o <<end>> = b
      BY <1>2, <1>3, <1>4, <1>10, <1>7
    <3> QED
      BY <3>1, <3>2, <3>3
  <2>2. /\ b \in Seq(Messages) /\ Len(b) = 3 /\ DOMAIN b = {1, 2, 3}
        /\ b[1] = ack /\ b[2] = fill /\ b[3] = end
    BY <1>2, <1>3, <1>4, <1>7
  <2>3. Pending(b, s) = n
    <3>1. IsFill(b[2], s) /\ \A j \in DOMAIN b : IsFill(b[j], s) => j = 2
      BY <1>2, <1>3, <1>4, <1>7, <2>2 DEF IsFill
    <3>2. Pending(b, s) = b[2].event.qty
      BY <2>2, <3>1, PendingOne
    <3> QED
      BY <1>3, <1>7, <2>2, <3>2
  <2> QED
    BY <1>1, <1>2, <1>3, <1>4, <1>7, <2>1, <2>2, <2>3 DEF IsAck, IsEnd, n, Says
<1>8. CASE n > 0 /\ n = q
  <2> PICK b : b = <<ack, fill>>
    OBVIOUS
  <2>1. MarketMessages(s, q, d) = b
    <3>1. MarketMessages(s, q, d) = <<ack>> \o <<fill>> \o <<>>
      BY <1>1, <1>5, <1>8
    <3>2. <<ack>> \o <<fill>> = <<ack, fill>>
      BY <1>2, <1>3, <1>4, <1>9, <1>8
    <3>3. <<ack, fill>> \o <<>> = b
      OBVIOUS
    <3> QED
      BY <3>1, <3>2, <3>3
  <2>2. /\ b \in Seq(Messages) /\ Len(b) = 2 /\ DOMAIN b = {1, 2}
        /\ b[1] = ack /\ b[2] = fill
    BY <1>2, <1>3, <1>8
  <2>3. Pending(b, s) = n
    <3>1. IsFill(b[2], s) /\ \A j \in DOMAIN b : IsFill(b[j], s) => j = 2
      BY <1>2, <1>3, <1>8, <2>2 DEF IsFill
    <3>2. Pending(b, s) = b[2].event.qty
      BY <2>2, <3>1, PendingOne
    <3> QED
      BY <1>3, <1>8, <2>2, <3>2
  <2> QED
    BY <1>1, <1>2, <1>3, <1>8, <2>1, <2>2, <2>3 DEF IsAck, IsEnd, n, Says
<1> QED
  BY <1>1, <1>6, <1>7, <1>8

-------------------------------------------------------------------------------
(***************************************************************************)
(* Steps of Venue, and what they ask of a step of the dry run.             *)
(***************************************************************************)

VenueStep == [V!Next]_(V!venueVars)

SameFor(s) ==
  /\ LifeOf(s)' = LifeOf(s) /\ PendingFills(s)' = PendingFills(s)
  /\ orders'[s].qty = orders[s].qty /\ orders'[s].cum = orders[s].cum

Others(x) == \A s \in Slots : s # x => SameFor(s)

\* A step that Venue does not see.
LEMMA NothingSeen ==
  ASSUME \A s \in Slots : SameFor(s)
  PROVE  VenueStep
<1>1. /\ [s \in Slots |-> LifeOf(s)]' = [s \in Slots |-> LifeOf(s)]
      /\ [s \in Slots |-> orders[s].qty]' = [s \in Slots |-> orders[s].qty]
      /\ [s \in Slots |-> orders[s].cum]' = [s \in Slots |-> orders[s].cum]
      /\ [s \in Slots |-> orders[s].cum + PendingFills(s)]'
           = [s \in Slots |-> orders[s].cum + PendingFills(s)]
  BY DEF SameFor
<1> QED
  BY <1>1 DEF VenueStep, V!venueVars

\* Venue sees an order sent where there was none.
LEMMA SendSeen ==
  ASSUME NEW x \in Slots, NEW n \in 1 .. MaxQty, Others(x),
         LifeOf(x) = "free", LifeOf(x)' = "open",
         orders'[x].qty = n, orders'[x].cum = 0, PendingFills(x)' = 0
  PROVE  VenueStep
<1>1. [s \in Slots |-> LifeOf(s)]' = [[s \in Slots |-> LifeOf(s)] EXCEPT ![x] = "open"]
  BY DEF Others, SameFor
<1>2. [s \in Slots |-> orders[s].qty]' = [[s \in Slots |-> orders[s].qty] EXCEPT ![x] = n]
  BY DEF Others, SameFor
<1>3. [s \in Slots |-> orders[s].cum + PendingFills(s)]'
        = [[s \in Slots |-> orders[s].cum + PendingFills(s)] EXCEPT ![x] = 0]
  <2>1. orders'[x].cum + PendingFills(x)' = 0
    OBVIOUS
  <2>2. \A s \in Slots : s # x =>
          orders'[s].cum + PendingFills(s)' = orders[s].cum + PendingFills(s)
    BY DEF Others, SameFor
  <2> QED
    BY <2>1, <2>2, Zenon
<1>4. [s \in Slots |-> orders[s].cum]' = [[s \in Slots |-> orders[s].cum] EXCEPT ![x] = 0]
  BY DEF Others, SameFor
<1>5. [s \in Slots |-> LifeOf(s)][x] = "free"
  OBVIOUS
<1>6. V!Send(x, n)
  BY <1>1, <1>2, <1>3, <1>4, <1>5 DEF V!Send
<1> QED
  BY <1>6 DEF VenueStep, V!Next

\* Venue sees an order execute, and end when it is complete or has to.
LEMMA ExecuteSeen ==
  ASSUME NEW x \in Slots, NEW n \in 0 .. MaxQty, NEW ends \in BOOLEAN, Others(x),
         LifeOf(x) = "open", LifeOf(x)' = IF ends THEN "over" ELSE "open",
         orders[x].cum \in Nat, orders[x].qty \in Nat, PendingFills(x) \in Nat,
         orders[x].cum + PendingFills(x) + n <= orders[x].qty,
         orders[x].cum + PendingFills(x) + n = orders[x].qty => ends,
         orders'[x].qty = orders[x].qty, orders'[x].cum = orders[x].cum,
         PendingFills(x)' = PendingFills(x) + n
  PROVE  VenueStep
<1>1. [s \in Slots |-> LifeOf(s)]' = IF ends THEN [[s \in Slots |-> LifeOf(s)] EXCEPT ![x] = "over"]
        ELSE [s \in Slots |-> LifeOf(s)]
  BY DEF Others, SameFor
<1>2. [s \in Slots |-> orders[s].qty]' = [s \in Slots |-> orders[s].qty]
  BY DEF Others, SameFor
<1>3. [s \in Slots |-> orders[s].cum + PendingFills(s)]'
        = [[s \in Slots |-> orders[s].cum + PendingFills(s)] EXCEPT ![x] = @ + n]
  <2>1. orders'[x].cum + PendingFills(x)' = orders[x].cum + PendingFills(x) + n
    OBVIOUS
  <2>2. \A s \in Slots : s # x =>
          orders'[s].cum + PendingFills(s)' = orders[s].cum + PendingFills(s)
    BY DEF Others, SameFor
  <2> QED
    BY <2>1, <2>2, Zenon
<1>4. [s \in Slots |-> orders[s].cum]' = [s \in Slots |-> orders[s].cum]
  BY DEF Others, SameFor
<1>5. [s \in Slots |-> LifeOf(s)][x] = "open" /\ [s \in Slots |-> orders[s].qty][x] = orders[x].qty
      /\ [s \in Slots |-> orders[s].cum + PendingFills(s)][x] = orders[x].cum + PendingFills(x)
  OBVIOUS
<1>6. V!Execute(x, n, ends)
  BY <1>1, <1>2, <1>3, <1>4, <1>5 DEF V!Execute
<1> QED
  BY <1>6 DEF VenueStep, V!Next

\* Venue sees executions told, and an end when there are none left.
LEMMA TellSeen ==
  ASSUME NEW x \in Slots, NEW n \in 0 .. MaxQty, NEW closes \in BOOLEAN, Others(x),
         LifeOf(x) # "free", LifeOf(x)' = IF closes THEN "free" ELSE LifeOf(x),
         orders[x].cum \in Nat, orders[x].qty \in Nat, PendingFills(x) \in Nat,
         n <= PendingFills(x),
         closes => LifeOf(x) = "over" /\ n = PendingFills(x),
         orders'[x].qty = orders[x].qty, orders'[x].cum = orders[x].cum + n,
         PendingFills(x)' = PendingFills(x) - n
  PROVE  VenueStep
<1>1. [s \in Slots |-> LifeOf(s)]' = IF closes THEN [[s \in Slots |-> LifeOf(s)] EXCEPT ![x] = "free"]
        ELSE [s \in Slots |-> LifeOf(s)]
  BY DEF Others, SameFor
<1>2. [s \in Slots |-> orders[s].qty]' = [s \in Slots |-> orders[s].qty]
  BY DEF Others, SameFor
<1>3. [s \in Slots |-> orders[s].cum + PendingFills(s)]'
        = [s \in Slots |-> orders[s].cum + PendingFills(s)]
  BY DEF Others, SameFor
<1>4. [s \in Slots |-> orders[s].cum]' = [[s \in Slots |-> orders[s].cum] EXCEPT ![x] = @ + n]
  BY DEF Others, SameFor
<1>5. [s \in Slots |-> LifeOf(s)][x] = LifeOf(x) /\ [s \in Slots |-> orders[s].cum][x] = orders[x].cum
      /\ [s \in Slots |-> orders[s].cum + PendingFills(s)][x] = orders[x].cum + PendingFills(x)
  OBVIOUS
<1>6. V!Tell(x, n, closes)
  BY <1>1, <1>2, <1>3, <1>4, <1>5 DEF V!Tell
<1> QED
  BY <1>6 DEF VenueStep, V!Next

-------------------------------------------------------------------------------
(***************************************************************************)
(* What the invariant says of the orders.                                  *)
(***************************************************************************)

\* An order waits for its submission in these stages only.
LEMMA ToSubmitIs ==
  ASSUME StageOk
  PROVE  /\ "entry" \in ToSubmit <=> pc = "entry"
         /\ "exit" \in ToSubmit <=>
              \/ pc \in {"deferred", "flatten", "exit"}
              \/ pc = "entryCancel" /\ plan.exit # ""
BY DEF StageOk, ToSubmit, Slots

\* What is pending of an order is what the first part of the invariant says.
LEMMA PendingRange ==
  ASSUME OrdersOk, InboxOk, NEW s \in Slots
  PROVE  /\ orders[s].qty \in Nat /\ orders[s].qty <= MaxQty
         /\ orders[s].cum \in Nat /\ orders[s].cum <= orders[s].qty
         /\ PendingFills(s) \in Nat /\ orders[s].cum + PendingFills(s) <= orders[s].qty
         /\ AtMostOne(inbox, s)
         /\ s \notin Active => PendingFills(s) = 0
<1>1. /\ orders[s].qty \in Nat /\ orders[s].qty <= MaxQty
      /\ orders[s].cum \in Nat /\ orders[s].cum <= orders[s].qty
  BY DryRunAssumption DEF OrdersOk, OrderOk
<1>2. AtMostOne(inbox, s)
  BY DEF InboxOk, AtMostOne
<1>3. CASE \A i \in DOMAIN inbox : ~IsFill(inbox[i], s)
  <2>1. PendingFills(s) = 0
    BY <1>3, PendingNone, PendingIs
  <2> QED
    BY <1>1, <1>2, <2>1
<1>4. CASE \E i \in DOMAIN inbox : IsFill(inbox[i], s)
  <2>1. PICK i \in DOMAIN inbox : IsFill(inbox[i], s)
    BY <1>4
  <2>2. inbox[i] \in Messages
    BY ElementOfSeq DEF InboxOk
  <2>3. inbox[i].event.qty \in Nat /\ inbox[i].slot = s
    <3>1. inbox[i].event.qty \in 1 .. MaxQty
      BY <2>1, <2>2, MessageFields DEF IsFill
    <3> QED
      BY <2>1, <3>1, DryRunAssumption DEF IsFill
  <2>4. PendingFills(s) = inbox[i].event.qty
    BY <1>2, <2>1, PendingOne, PendingIs DEF AtMostOne
  <2>5. orders[s].cum + inbox[i].event.qty <= orders[s].qty
    BY <2>1 DEF InboxOk
  <2>6. s \in Active
    BY <2>3 DEF InboxOk
  <2> QED
    BY <1>1, <1>2, <2>3, <2>4, <2>5, <2>6
<1> QED
  BY <1>3, <1>4

\* An empty inbox has nothing to say of any order.
LEMMA NothingPending ==
  ASSUME inbox = <<>>, NEW s
  PROVE  PendingFills(s) = 0 /\ ~HasEnd(s)
<1>1. DOMAIN inbox = {}
  OBVIOUS
<1> QED
  BY <1>1, PendingNone, PendingIs DEF HasEnd

\* With nothing left to be told, and nothing to be submitted, the books agree.
LEMMA Settled ==
  ASSUME DryInv, inbox = <<>>, NEW s \in Slots
  PROVE  /\ s \notin ToSubmit => (s \in InBook <=> s \in Active)
         /\ s \in InBook => orders[s].cum + book[s].leaves = orders[s].qty
         /\ s = "exit" /\ lollipop.forced /\ pc # "exitCancel" => s \in ToSubmit
<1>1. PendingFills(s) = 0 /\ ~HasEnd(s)
  BY NothingPending
<1>2. BookOk(s) /\ (s \in Active => orders[s].cum < orders[s].qty)
  BY DEF DryInv, BooksOk, OrdersOk, OrderOk, Active
<1>3. /\ orders[s].cum \in Nat /\ orders[s].qty \in Nat /\ book[s].leaves \in Nat
  BY PendingRange DEF DryInv, BooksOk
<1>4. s \notin ToSubmit => (s \in InBook <=> s \in Active)
  BY <1>1, <1>2, <1>3 DEF BookOk
<1>5. s \in InBook => orders[s].cum + book[s].leaves = orders[s].qty
  BY <1>1, <1>2, <1>3 DEF BookOk
<1>6. s = "exit" /\ lollipop.forced /\ pc # "exitCancel" => s \in Active /\ s \notin InBook
  BY <1>1 DEF DryInv, ForcedOk
<1> QED
  BY <1>4, <1>5, <1>6

-------------------------------------------------------------------------------
(***************************************************************************)
(* The steps that change the books: what all of them leave true.           *)
(***************************************************************************)

Books == OrdersOk /\ InboxOk /\ BooksOk

\* Nothing is said: what is asked of messages is void.
LEMMA NothingSaid ==
  ASSUME inbox' = <<>>
  PROVE  InboxOk' /\ \A s : PendingFills(s)' = 0 /\ ~HasEnd(s)'
<1>1. DOMAIN inbox' = {} /\ inbox' \in Seq(Messages)
  BY EmptySeq
<1>2. \A s : PendingFills(s)' = Pending(inbox', s)
  BY DEF PendingFills, Pending
<1> QED
  BY <1>1, <1>2, PendingNone DEF InboxOk, HasEnd

\* The loop goes on: neither simulator nor ledger is asked for anything.
LEMMA LoopGoesOn ==
  ASSUME DryInv, inbox = <<>>, UNCHANGED <<inbox, book, orders>>,
         \A s \in Slots : s \in ToSubmit' <=> s \in ToSubmit
  PROVE  Books' /\ VenueStep
<1>1. InboxOk' /\ \A s : PendingFills(s)' = 0 /\ PendingFills(s) = 0
  BY NothingSaid, NothingPending
<1>2. OrdersOk'
  BY DEF DryInv, OrdersOk
<1>3. \A s \in Slots : (s \in InBook' <=> s \in InBook) /\ (s \in Active' <=> s \in Active)
  BY DEF InBook, Active
<1>4. \A s \in Slots : BookOk(s)'
  <2> TAKE s \in Slots
  <2>1. BookOk(s) /\ ~HasEnd(s)
    BY NothingPending DEF DryInv, BooksOk
  <2> QED
    BY <1>1, <1>3, <2>1 DEF BookOk
<1>5. BooksOk'
  BY <1>4 DEF DryInv, BooksOk
<1>6. \A s \in Slots : LifeOf(s)' = LifeOf(s)
  BY <1>3 DEF LifeOf
<1>7. \A s \in Slots : SameFor(s)
  BY <1>1, <1>6 DEF SameFor
<1> QED
  BY <1>1, <1>2, <1>5, <1>7, NothingSeen DEF Books

\* An order is tracked: Venue takes it for sent.
LEMMA OrderTracked ==
  ASSUME DryInv, inbox = <<>>, UNCHANGED <<inbox, book>>,
         NEW x \in Slots, x \notin Active, NEW n \in 1 .. MaxQty, Track(x, n),
         x \notin ToSubmit, x \in ToSubmit',
         \A s \in Slots : s # x => (s \in ToSubmit' <=> s \in ToSubmit)
  PROVE  /\ Books' /\ VenueStep
         /\ x \in Active' /\ orders'[x].qty = n /\ orders'[x].cum = 0
         /\ \A s \in Slots : s # x =>
              orders'[s] = orders[s] /\ (s \in Active' <=> s \in Active)
         /\ \A s \in Slots : s \in InBook' <=> s \in InBook
<1>1. InboxOk' /\ \A s : PendingFills(s)' = 0 /\ PendingFills(s) = 0
  BY NothingSaid, NothingPending
<1>2. DOMAIN orders' = Slots /\ orders'[x] = NewOrder(n, TRUE)
      /\ \A s \in Slots : s # x => orders'[s] = orders[s]
  BY DEF Track, DryInv, OrdersOk
<1>3. OrderOk(orders'[x]) /\ orders'[x].qty = n /\ orders'[x].cum = 0 /\ ~IsFinal(orders'[x])
  BY <1>2, NewOrderOk
<1>4. OrdersOk'
  BY <1>2, <1>3 DEF DryInv, OrdersOk
<1>5. \A s \in Slots : s \in InBook' <=> s \in InBook
  BY DEF InBook
<1>6. x \in Active' /\ \A s \in Slots : s # x => (s \in Active' <=> s \in Active)
  BY <1>2, <1>3 DEF Active
<1>7. x \notin InBook
  BY Settled
<1>8. \A s \in Slots : BookOk(s)'
  <2> TAKE s \in Slots
  <2>1. BookOk(s) /\ ~HasEnd(s)
    BY NothingPending DEF DryInv, BooksOk
  <2>2. CASE s = x
    BY <1>3, <1>5, <1>6, <1>7, <2>2 DEF BookOk
  <2>3. CASE s # x
    BY <1>1, <1>2, <1>5, <1>6, <2>1, <2>3 DEF BookOk
  <2> QED
    BY <2>2, <2>3
<1>9. BooksOk'
  BY <1>8 DEF DryInv, BooksOk
<1>10. \A s \in Slots : s # x => LifeOf(s)' = LifeOf(s)
  BY <1>5, <1>6 DEF LifeOf
<1>11. LifeOf(x) = "free" /\ LifeOf(x)' = "open"
  BY <1>7 DEF LifeOf
<1>12. Others(x)
  BY <1>1, <1>2, <1>10 DEF Others, SameFor
<1>13. VenueStep
  BY <1>1, <1>3, <1>11, <1>12, SendSeen
<1> QED
  BY <1>1, <1>2, <1>3, <1>4, <1>5, <1>6, <1>9, <1>13 DEF Books

\* An order is taken out of the simulator: Venue sees it end with its rest.
LEMMA OrderCanceled ==
  ASSUME DryInv, inbox = <<>>, NEW x \in InBook, CancelOrder(x),
         \A s \in Slots : s \in ToSubmit' <=> s \in ToSubmit, todo' = {}
  PROVE  /\ Books' /\ VenueStep /\ HasEnd(x)'
         /\ \A i \in DOMAIN inbox' : inbox'[i].kind = "order"
         /\ \A s \in Slots : /\ s \in Active' <=> s \in Active
                             /\ orders'[s].qty = orders[s].qty
                             /\ orders'[s].cum = orders[s].cum
                             /\ s \in InBook' <=> s \in InBook /\ s # x
<1>1. x \in Slots /\ x \in Active /\ x \notin ToSubmit /\ PendingFills(x) = 0
      /\ \A s : PendingFills(s) = 0
  BY NothingPending DEF InBook, DryInv, BooksOk, BookOk
<1>2. DOMAIN orders' = Slots /\ orders'[x] = MarkCancelPending(orders[x])
      /\ \A s \in Slots : s # x => orders'[s] = orders[s]
  BY <1>1 DEF CancelOrder, DryInv, OrdersOk
<1>3. OrderOk(orders[x]) /\ ~IsFinal(orders[x])
  BY <1>1 DEF DryInv, OrdersOk, Active
<1>4. OrderOk(orders'[x]) /\ orders'[x].qty = orders[x].qty
      /\ orders'[x].cum = orders[x].cum /\ ~IsFinal(orders'[x])
  BY <1>2, <1>3, CancelKeeps
<1>5. OrdersOk'
  BY <1>2, <1>4 DEF DryInv, OrdersOk
<1>6. \A s \in Slots : /\ s \in Active' <=> s \in Active
                       /\ orders'[s].qty = orders[s].qty /\ orders'[s].cum = orders[s].cum
  BY <1>1, <1>2, <1>4 DEF Active
<1>7. book' = [book EXCEPT ![x] = NotQueued] /\ inbox' = <<CancelMessage(x)>>
  BY DEF CancelOrder
<1>8. \A s \in Slots : s \in InBook' <=> s \in InBook /\ s # x
  BY <1>7 DEF InBook, DryInv, BooksOk
<1>9. book' \in [Slots -> [leaves : Nat, ahead : Nat]]
      /\ \A s \in Slots : s # x => book'[s] = book[s]
  <2>1. NotQueued \in [leaves : Nat, ahead : Nat]
    BY DEF NotQueued, Queued
  <2> QED
    BY <1>7, <2>1 DEF DryInv, BooksOk
<1>10. /\ CancelMessage(x) \in Messages /\ CancelMessage(x).slot = x
       /\ CancelMessage(x).kind = "order" /\ CancelMessage(x).event.status = "canceled"
       /\ CancelMessage(x).event.cum = NoCum
  BY <1>1, EndFields
<1>11. inbox' \in Seq(Messages) /\ DOMAIN inbox' = {1} /\ Len(inbox') = 1
       /\ inbox'[1] = CancelMessage(x)
  BY <1>7, <1>10
<1>12. HasEnd(x)' /\ \A i \in DOMAIN inbox' : inbox'[i].kind = "order"
  BY <1>10, <1>11 DEF HasEnd, IsEnd
<1>13. \A s : PendingFills(s)' = 0
  <2>1. \A s : PendingFills(s)' = Pending(inbox', s)
    BY DEF PendingFills, Pending
  <2> QED
    BY <1>12, <2>1, PendingNone DEF IsFill
<1>14. orders[x].cum + PendingFills(x)' < orders[x].qty
  BY <1>1, <1>3, <1>13, PendingRange DEF OrderOk, DryInv
<1>15. InboxOk'
  <2>1. \A i \in DOMAIN inbox' : inbox'[i].slot \in Active' /\ inbox'[i].slot \notin ToSubmit'
    BY <1>1, <1>6, <1>10, <1>11
  <2>2. \A i \in DOMAIN inbox', s \in Slots : ~IsFill(inbox'[i], s) /\ ~IsAck(inbox'[i], s)
    BY <1>10, <1>11 DEF IsFill, IsAck
  <2>3. \A i \in DOMAIN inbox', s \in Slots : IsEnd(inbox'[i], s) =>
          i = 1 /\ s = x /\ inbox'[i].event.cum = NoCum
    BY <1>10, <1>11 DEF IsEnd
  <2>4. x \notin InBook' /\ orders'[x].cum + PendingFills(x)' < orders'[x].qty
    BY <1>1, <1>6, <1>8, <1>14
  <2> QED
    BY <1>11, <2>1, <2>2, <2>3, <2>4 DEF InboxOk
<1>16. \A s \in Slots : BookOk(s)'
  <2> TAKE s \in Slots
  <2>1. BookOk(s) /\ ~HasEnd(s)
    BY NothingPending DEF DryInv, BooksOk
  <2>2. CASE s = x
    BY <1>1, <1>6, <1>8, <1>12, <2>2 DEF BookOk
  <2>3. CASE s # x
    BY <1>1, <1>6, <1>8, <1>9, <1>13, <2>1, <2>3 DEF BookOk
  <2> QED
    BY <2>2, <2>3
<1>17. BooksOk'
  BY <1>9, <1>16 DEF BooksOk
<1>18. \A s \in Slots : s # x => LifeOf(s)' = LifeOf(s)
  BY <1>6, <1>8 DEF LifeOf
<1>19. LifeOf(x) = "open" /\ LifeOf(x)' = "over"
  BY <1>1, <1>6, <1>8 DEF LifeOf
<1>20. Others(x)
  BY <1>1, <1>6, <1>13, <1>18 DEF Others, SameFor
<1>21. VenueStep
  <2> PICK n \in 0 .. MaxQty : n = 0
    BY DryRunAssumption
  <2> PICK ends \in BOOLEAN : ends = TRUE
    OBVIOUS
  <2>1. /\ orders[x].cum \in Nat /\ orders[x].qty \in Nat /\ PendingFills(x) \in Nat
        /\ orders[x].cum <= orders[x].qty
    BY <1>1, PendingRange DEF DryInv
  <2>2. /\ orders[x].cum + PendingFills(x) + n <= orders[x].qty
        /\ PendingFills(x)' = PendingFills(x) + n
    BY <1>1, <1>13, <2>1
  <2> QED
    BY <1>1, <1>6, <1>19, <1>20, <2>1, <2>2, ExecuteSeen
<1> QED
  BY <1>5, <1>6, <1>8, <1>12, <1>15, <1>17, <1>21 DEF Books

\* A limit order queues: Venue has known of it since it was tracked.
LEMMA LimitSent ==
  ASSUME DryInv, inbox = <<>>, NEW x \in ToSubmit, NEW ahead \in 0 .. MaxQty,
         book' = [book EXCEPT ![x] = Queued(orders[x].qty, ahead)], inbox' = <<Ack(x)>>,
         UNCHANGED orders, todo' = {},
         \A s \in Slots : s \in ToSubmit' <=> s \in ToSubmit /\ s # x
  PROVE  /\ Books' /\ VenueStep
         /\ \A i \in DOMAIN inbox' : inbox'[i].kind = "order"
         /\ \A s \in Slots : /\ s \in Active' <=> s \in Active
                             /\ s \in InBook' <=> s \in InBook \/ s = x
<1>1. x \in Slots /\ x \in Active /\ x \notin InBook /\ orders[x].cum = 0
      /\ \A s : PendingFills(s) = 0
  BY NothingPending DEF ToSubmit, DryInv, BooksOk, BookOk
<1>2. orders[x].qty \in Nat /\ orders[x].qty >= 1
  BY <1>1, PendingRange DEF DryInv, OrdersOk, OrderOk, Active
<1>3. Queued(orders[x].qty, ahead) \in [leaves : Nat, ahead : Nat]
      /\ Queued(orders[x].qty, ahead).leaves = orders[x].qty
  BY <1>2, DryRunAssumption DEF Queued
<1>4. /\ book' \in [Slots -> [leaves : Nat, ahead : Nat]]
      /\ book'[x].leaves = orders[x].qty /\ \A s \in Slots : s # x => book'[s] = book[s]
  BY <1>1, <1>3 DEF DryInv, BooksOk
<1>5. \A s \in Slots : s \in InBook' <=> s \in InBook \/ s = x
  <2>1. book'[x] # NotQueued
    BY <1>2, <1>4 DEF NotQueued, Queued
  <2> QED
    BY <1>1, <1>4, <2>1 DEF InBook
<1>6. \A s \in Slots : s \in Active' <=> s \in Active
  BY DEF Active
<1>7. /\ Ack(x) \in Messages /\ Ack(x).slot = x /\ Ack(x).kind = "order"
      /\ Ack(x).event.cum = NoCum /\ Ack(x).event.status = "working"
  BY <1>1, AckFields
<1>8. inbox' \in Seq(Messages) /\ DOMAIN inbox' = {1} /\ inbox'[1] = Ack(x)
  BY <1>7
<1>9. \A i \in DOMAIN inbox' : inbox'[i].kind = "order"
  BY <1>7, <1>8
<1>10. \A s : PendingFills(s)' = 0
  <2>1. \A s : PendingFills(s)' = Pending(inbox', s)
    BY DEF PendingFills, Pending
  <2> QED
    BY <1>9, <2>1, PendingNone DEF IsFill
<1>11. InboxOk'
  <2>1. \A i \in DOMAIN inbox' : inbox'[i].slot \in Active' /\ inbox'[i].slot \notin ToSubmit'
    BY <1>1, <1>6, <1>7, <1>8
  <2>2. \A i \in DOMAIN inbox', s \in Slots : ~IsFill(inbox'[i], s) /\ ~IsEnd(inbox'[i], s)
    BY <1>7, <1>8 DEF IsFill, IsEnd
  <2>3. \A i \in DOMAIN inbox', s \in Slots : IsAck(inbox'[i], s) =>
          i = 1 /\ inbox'[i].event.cum = NoCum
    BY <1>7, <1>8
  <2> QED
    BY <1>8, <2>1, <2>2, <2>3 DEF InboxOk
<1>12. \A s \in Slots : BookOk(s)'
  <2> TAKE s \in Slots
  <2>1. BookOk(s) /\ ~HasEnd(s)
    BY NothingPending DEF DryInv, BooksOk
  <2>2. CASE s = x
    BY <1>1, <1>2, <1>4, <1>5, <1>6, <1>10, <2>2 DEF BookOk
  <2>3. CASE s # x
    BY <1>1, <1>4, <1>5, <1>6, <1>10, <2>1, <2>3 DEF BookOk
  <2> QED
    BY <2>2, <2>3
<1>13. BooksOk'
  BY <1>4, <1>12 DEF BooksOk
<1>14. OrdersOk'
  BY DEF DryInv, OrdersOk
<1>15. \A s \in Slots : LifeOf(s)' = LifeOf(s)
  BY <1>1, <1>5, <1>6 DEF LifeOf
<1>16. \A s \in Slots : SameFor(s)
  BY <1>1, <1>10, <1>15 DEF SameFor
<1> QED
  BY <1>5, <1>6, <1>9, <1>11, <1>13, <1>14, <1>16, NothingSeen DEF Books

\* A market order is over at once: Venue sees it execute what the book has.
LEMMA MarketSent ==
  ASSUME DryInv, inbox = <<>>, NEW x \in ToSubmit, NEW depth \in Nat,
         inbox' = MarketMessages(x, orders[x].qty, depth),
         UNCHANGED <<book, orders>>, todo' = {},
         \A s \in Slots : s \in ToSubmit' <=> s \in ToSubmit /\ s # x
  PROVE  /\ Books' /\ VenueStep
         /\ \A i \in DOMAIN inbox' : inbox'[i].slot = x
         /\ \A s \in Slots : (s \in Active' <=> s \in Active) /\ (s \in InBook' <=> s \in InBook)
<1>1. x \in Slots /\ x \in Active /\ x \notin InBook /\ orders[x].cum = 0
      /\ \A s : PendingFills(s) = 0
  BY NothingPending DEF ToSubmit, DryInv, BooksOk, BookOk
<1>2. orders[x].qty \in 1 .. MaxQty
  BY <1>1, PendingRange DEF DryInv, OrdersOk, OrderOk, Active
<1> PICK q \in 1 .. MaxQty : q = orders[x].qty
  BY <1>2
<1> PICK n : n = MarketFillQty(q, depth)
  OBVIOUS
<1>3. /\ n \in 0 .. q /\ inbox' \in Seq(Messages)
      /\ \A i \in DOMAIN inbox' :
           /\ inbox'[i].slot = x
           /\ inbox'[i].kind = "fill" =>
                i = 2 /\ inbox'[i].event.qty = n /\ inbox'[i].event.trade = n
           /\ IsAck(inbox'[i], x) => i = 1 /\ inbox'[i].event.cum = NoCum
           /\ IsEnd(inbox'[i], x) => i = Len(inbox') /\ n < q /\ inbox'[i].event.cum = n
      /\ n < q => \E i \in DOMAIN inbox' : IsEnd(inbox'[i], x)
      /\ Pending(inbox', x) = n
  <2>1. Says(MarketMessages(x, q, depth), x, q, MarketFillQty(q, depth))
    BY <1>1, MarketSays
  <2>2. Says(inbox', x, q, n)
    BY <2>1
  <2> QED
    BY <2>2 DEF Says
<1>4. \A s \in Slots : (s \in Active' <=> s \in Active) /\ (s \in InBook' <=> s \in InBook)
  BY DEF Active, InBook
<1>5. PendingFills(x)' = n /\ \A s : s # x => PendingFills(s)' = 0
  <2>1. \A s : PendingFills(s)' = Pending(inbox', s)
    BY DEF PendingFills, Pending
  <2> QED
    BY <1>3, <2>1, PendingNone DEF IsFill
<1>6. InboxOk'
  <2>1. \A i \in DOMAIN inbox' : inbox'[i].slot \in Active' /\ inbox'[i].slot \notin ToSubmit'
    BY <1>1, <1>3, <1>4
  <2>2. ASSUME NEW i \in DOMAIN inbox', NEW s \in Slots, IsFill(inbox'[i], s)
        PROVE  /\ inbox'[i].event.trade = orders'[s].cum + inbox'[i].event.qty
               /\ orders'[s].cum + inbox'[i].event.qty <= orders'[s].qty
               /\ \A j \in DOMAIN inbox' : IsFill(inbox'[j], s) => j = i
    <3>1. s = x /\ i = 2 /\ inbox'[i].event.qty = n /\ inbox'[i].event.trade = n
      BY <1>3, <2>2 DEF IsFill
    <3>2. \A j \in DOMAIN inbox' : IsFill(inbox'[j], s) => j = 2
      BY <1>3 DEF IsFill
    <3> QED
      BY <1>1, <1>3, <3>1, <3>2
  <2>3. ASSUME NEW i \in DOMAIN inbox', NEW s \in Slots, IsAck(inbox'[i], s)
        PROVE  i = 1 /\ inbox'[i].event.cum = NoCum
    BY <1>3, <2>3 DEF IsAck
  <2>4. ASSUME NEW i \in DOMAIN inbox', NEW s \in Slots, IsEnd(inbox'[i], s)
        PROVE  /\ i = Len(inbox') /\ s \notin InBook'
               /\ orders'[s].cum + PendingFills(s)' < orders'[s].qty
               /\ inbox'[i].event.cum \in {NoCum, orders'[s].cum + PendingFills(s)'}
    <3>1. s = x
      BY <1>3, <2>4 DEF IsEnd
    <3>2. i = Len(inbox') /\ n < q /\ inbox'[i].event.cum = n
      BY <1>3, <2>4, <3>1
    <3>3. orders'[s].cum + PendingFills(s)' = n
      BY <1>1, <1>3, <1>5, <3>1
    <3> QED
      BY <1>1, <1>4, <3>1, <3>2, <3>3
  <2> QED
    BY <1>3, <2>1, <2>2, <2>3, <2>4 DEF InboxOk
<1>7. HasEnd(x)' \/ n = q
  BY <1>3 DEF HasEnd
<1>8. \A s \in Slots : BookOk(s)'
  <2> TAKE s \in Slots
  <2>1. BookOk(s) /\ ~HasEnd(s)
    BY NothingPending DEF DryInv, BooksOk
  <2>2. CASE s = x
    BY <1>1, <1>3, <1>4, <1>5, <1>7, <2>2 DEF BookOk
  <2>3. CASE s # x
    BY <1>1, <1>4, <1>5, <2>1, <2>3 DEF BookOk
  <2> QED
    BY <2>2, <2>3
<1>9. BooksOk' /\ OrdersOk'
  BY <1>8 DEF DryInv, BooksOk, OrdersOk
<1>10. \A s \in Slots : s # x => LifeOf(s)' = LifeOf(s)
  BY <1>4 DEF LifeOf
<1>11. LifeOf(x) = "open" /\ LifeOf(x)' = "over"
  BY <1>1, <1>4 DEF LifeOf
<1>12. Others(x)
  BY <1>1, <1>5, <1>10 DEF Others, SameFor
<1>13. VenueStep
  <2> PICK ends \in BOOLEAN : ends = TRUE
    OBVIOUS
  <2>1. n \in 0 .. MaxQty
    BY <1>3, DryRunAssumption
  <2>2. /\ orders[x].cum \in Nat /\ orders[x].qty \in Nat /\ PendingFills(x) \in Nat
        /\ orders[x].cum + PendingFills(x) + n <= orders[x].qty
        /\ PendingFills(x)' = PendingFills(x) + n
    <3>1. n \in Nat /\ n <= orders[x].qty /\ orders[x].qty \in Nat
      BY <1>3
    <3>2. PendingFills(x)' = n /\ PendingFills(x) = 0 /\ orders[x].cum = 0
      BY <1>1, <1>5
    <3> QED
      BY <3>1, <3>2
  <2> QED
    BY <1>1, <1>11, <1>12, <2>1, <2>2, ExecuteSeen
<1> QED
  BY <1>3, <1>4, <1>6, <1>9, <1>13 DEF Books

\* What trades and boards do to a queued order: it executes at most its rest.
LEMMA MakerEffect ==
  ASSUME NEW o \in [leaves : Nat, ahead : Nat], NEW place, NEW traded \in Nat
  PROVE  LET n == MakerFillQty(o, place, traded)
             b == AfterMakerFill(o, place, traded)
         IN  n \in 0 .. o.leaves /\ b \in [leaves : Nat, ahead : Nat] /\ b.leaves = o.leaves - n
<1>1. o.leaves \in Nat /\ o.ahead \in Nat
  OBVIOUS
<1>2. MakerFillQty(o, place, traded) \in 0 .. o.leaves
  <2>1. CASE place = "crossed"
    BY <1>1, <2>1 DEF MakerFillQty
  <2>2. CASE place = "at" /\ traded > o.ahead
    <3>1. Smaller(o.leaves, traded - o.ahead) \in 0 .. o.leaves
      BY <1>1, <2>2 DEF Smaller
    <3> QED
      BY <2>2, <3>1 DEF MakerFillQty
  <2>3. CASE place # "crossed" /\ ~(place = "at" /\ traded > o.ahead)
    BY <1>1, <2>3 DEF MakerFillQty
  <2> QED
    BY <2>1, <2>2, <2>3
<1>3. (IF place # "at" THEN o.ahead ELSE IF traded > o.ahead THEN 0 ELSE o.ahead - traded) \in Nat
  BY <1>1
<1> QED
  BY <1>1, <1>2, <1>3 DEF AfterMakerFill

\* The simulator looks at an order: what executes is told once it has looked at all.
LEMMA OrderLookedAt ==
  ASSUME DryInv, NEW x \in Slots, NEW place \in Places, NEW traded \in Nat,
         LookAt(x, place, traded)
  PROVE  /\ Books' /\ VenueStep /\ todo' \subseteq InBook'
         /\ \A s \in Slots : (s \in Active' <=> s \in Active) /\ (s \in InBook' => s \in InBook)
         /\ \A s \in Slots : s \notin ToSubmit /\ s \notin ToSubmit'
<1> DEFINE n == MakerFillQty(book[x], place, traded)
           b == AfterMakerFill(book[x], place, traded)
<1>1. /\ x \in todo /\ todo' = todo \ {x}
      /\ book' = [book EXCEPT ![x] = IF b.leaves <= 0 THEN NotQueued ELSE b]
      /\ inbox' = IF n = 0 THEN inbox
                  ELSE Append(inbox, FillMessage(x, n, orders[x].qty - b.leaves))
      /\ UNCHANGED <<pc, orders, position, lollipop, plan>>
  BY DEF LookAt
<1>2. /\ StageOk /\ OrdersOk /\ InboxOk /\ pc = "decide" /\ x \in InBook
      /\ \A s \in Slots : BookOk(s)
      /\ book \in [Slots -> [leaves : Nat, ahead : Nat]]
  BY <1>1 DEF DryInv, StageOk, BooksOk
<1>3. \A s \in Slots : s \notin ToSubmit /\ s \notin ToSubmit'
  BY <1>1, <1>2 DEF ToSubmit
<1>4. /\ book[x] \in [leaves : Nat, ahead : Nat]
      /\ x \in Active /\ book[x].leaves >= 1
      /\ orders[x].cum + PendingFills(x) + book[x].leaves = orders[x].qty
  BY <1>2 DEF BookOk
<1>5. n \in 0 .. book[x].leaves /\ b \in [leaves : Nat, ahead : Nat]
      /\ b.leaves = book[x].leaves - n /\ book[x].leaves \in Nat
  BY <1>4, MakerEffect
<1> HIDE DEF n, b
<1> PICK k \in Nat : k = book[x].leaves
  BY <1>5
<1>6. \A i \in DOMAIN inbox : inbox[i].kind = "fill" /\ inbox[i].slot # x
  BY <1>1, <1>2 DEF InboxOk
<1>7. PendingFills(x) = 0
  BY <1>6, PendingNone, PendingIs DEF IsFill
<1>8. /\ orders[x].qty \in Nat /\ orders[x].qty <= MaxQty /\ orders[x].cum \in Nat
      /\ orders[x].cum + k = orders[x].qty /\ k >= 1 /\ n \in 0 .. k
  <2>1. orders[x].qty \in Nat /\ orders[x].qty <= MaxQty /\ orders[x].cum \in Nat
    BY <1>2, PendingRange
  <2> QED
    BY <1>4, <1>5, <1>7, <2>1
<1>9. \A s \in Slots : AtMostOne(inbox, s)
  BY <1>2, PendingRange
<1>10. \A s \in Slots : s \in Active' <=> s \in Active
  BY <1>1 DEF Active
<1>11. /\ book' \in [Slots -> [leaves : Nat, ahead : Nat]]
       /\ \A s \in Slots : s # x => book'[s] = book[s]
       /\ book'[x] = IF n = k THEN NotQueued ELSE b
  <2>1. NotQueued \in [leaves : Nat, ahead : Nat]
    BY DEF NotQueued, Queued
  <2>2. b.leaves <= 0 <=> n = k
    BY <1>5
  <2> QED
    BY <1>1, <1>2, <1>5, <2>1, <2>2
<1>12. x \in InBook' <=> n # k
  <2>1. n # k => b # NotQueued
    BY <1>5 DEF NotQueued, Queued
  <2> QED
    BY <1>11, <2>1 DEF InBook
<1>13. \A s \in Slots : s # x => (s \in InBook' <=> s \in InBook)
  BY <1>11 DEF InBook
<1>14. todo' \subseteq InBook'
  BY <1>1, <1>2, <1>13 DEF StageOk, InBook
<1>15. OrdersOk'
  BY <1>1, <1>2 DEF OrdersOk
<1>16. \A s : PendingFills(s)' = Pending(inbox', s)
  BY DEF PendingFills, Pending
<1>17. CASE n = 0
  <2>1. inbox' = inbox /\ \A s : PendingFills(s)' = PendingFills(s)
    BY <1>1, <1>16, <1>17, PendingIs
  <2>2. \A s \in Slots : s \in InBook' <=> s \in InBook
    BY <1>2, <1>8, <1>12, <1>13, <1>17
  <2>3. InboxOk'
    <3>1. \A i \in DOMAIN inbox' : inbox'[i].kind = "fill" /\ inbox'[i].slot \notin todo'
      BY <1>1, <1>2, <2>1 DEF InboxOk
    <3>2. \A i \in DOMAIN inbox' :
            /\ inbox'[i].slot \in Active' /\ inbox'[i].slot \notin ToSubmit'
            /\ \A s \in Slots : ~IsAck(inbox'[i], s) /\ ~IsEnd(inbox'[i], s)
      <4> TAKE i \in DOMAIN inbox'
      <4>1. inbox'[i].slot \in Active /\ inbox'[i].slot \in Slots
        BY <1>2, <2>1 DEF InboxOk, Active
      <4> QED
        BY <1>3, <1>10, <3>1, <4>1 DEF IsAck, IsEnd
    <3> QED
      BY <1>1, <1>2, <2>1, <3>1, <3>2 DEF InboxOk
  <2>4. book'[x].leaves = k
    BY <1>5, <1>8, <1>11, <1>17
  <2>5. \A s \in Slots : BookOk(s)'
    <3> TAKE s \in Slots
    <3>1. BookOk(s)
      BY <1>2
    <3>2. HasEnd(s)' <=> HasEnd(s)
      BY <2>1 DEF HasEnd
    <3>3. book'[s].leaves = book[s].leaves
      BY <1>11, <2>4
    <3> QED
      BY <1>1, <1>3, <1>10, <2>1, <2>2, <3>1, <3>2, <3>3 DEF BookOk
  <2>6. \A s \in Slots : LifeOf(s)' = LifeOf(s)
    BY <1>3, <1>10, <2>2 DEF LifeOf
  <2>7. \A s \in Slots : SameFor(s)
    BY <1>1, <2>1, <2>6 DEF SameFor
  <2> QED
    BY <1>3, <1>10, <1>11, <1>14, <1>15, <2>2, <2>3, <2>5, <2>7, NothingSeen
    DEF Books, BooksOk
<1>18. CASE n # 0
  <2> PICK t : t = orders[x].cum + n
    OBVIOUS
  <2> PICK m : m = FillMessage(x, n, t)
    OBVIOUS
  <2>1. n \in 1 .. MaxQty /\ t \in 1 .. MaxQty /\ orders[x].qty - b.leaves = t
    BY <1>5, <1>8, <1>18, DryRunAssumption
  <2>2. /\ m \in Messages /\ m.kind = "fill" /\ m.slot = x
        /\ m.event.qty = n /\ m.event.trade = t
    BY <2>1, FillFields
  <2>3. inbox' = Append(inbox, m) /\ inbox \in Seq(Messages)
    BY <1>1, <1>2, <1>18, <2>1 DEF InboxOk
  <2>4. \A s \in Slots : IsFill(m, s) => \A i \in DOMAIN inbox : ~IsFill(inbox[i], s)
    BY <1>6, <2>2 DEF IsFill
  <2> PICK last : last = Len(inbox) + 1
    OBVIOUS
  <2>5. /\ inbox' \in Seq(Messages) /\ inbox'[last] = m
        /\ \A i \in DOMAIN inbox : inbox'[i] = inbox[i]
        /\ \A i \in DOMAIN inbox' : i = last \/ i \in DOMAIN inbox
        /\ last \in DOMAIN inbox'
    <3> PICK s \in Slots : s = x
      OBVIOUS
    <3>1. /\ Append(inbox, m) \in Seq(Messages) /\ DOMAIN Append(inbox, m) = 1 .. Len(inbox) + 1
          /\ Append(inbox, m)[Len(inbox) + 1] = m /\ Len(inbox) \in Nat
          /\ \A i \in DOMAIN inbox : Append(inbox, m)[i] = inbox[i]
          /\ \A i \in DOMAIN Append(inbox, m) : i = Len(inbox) + 1 \/ i \in DOMAIN inbox
      BY <1>9, <2>2, <2>3, <2>4, PendingAppend
    <3> QED
      BY <2>3, <3>1
  <2>6. PendingFills(x)' = n /\ \A s \in Slots : s # x => PendingFills(s)' = PendingFills(s)
    <3>1. \A s \in Slots :
            Pending(Append(inbox, m), s) = IF IsFill(m, s) THEN m.event.qty ELSE Pending(inbox, s)
      BY <1>9, <2>2, <2>3, <2>4, PendingAppend
    <3> QED
      BY <1>16, <2>2, <2>3, <3>1, PendingIs DEF IsFill
  <2>7. InboxOk'
    <3>1. ASSUME NEW i \in DOMAIN inbox'
          PROVE  /\ inbox'[i].kind = "fill"
                 /\ inbox'[i].slot \in Active' /\ inbox'[i].slot \notin ToSubmit'
                 /\ inbox'[i].slot \notin todo'
      <4>1. CASE i = last
        BY <1>1, <1>3, <1>4, <1>10, <2>2, <2>5, <4>1
      <4>2. CASE i \in DOMAIN inbox
        <5>1. /\ inbox'[i] = inbox[i] /\ inbox[i].slot \in Active
              /\ inbox[i].kind = "fill" /\ inbox[i].slot \notin todo /\ inbox[i].slot \in Slots
          BY <1>1, <1>2, <2>5, <4>2 DEF InboxOk, Active
        <5> QED
          BY <1>1, <1>3, <1>10, <5>1
      <4> QED
        BY <2>5, <4>1, <4>2
    <3>2. ASSUME NEW i \in DOMAIN inbox', NEW s \in Slots, IsFill(inbox'[i], s)
          PROVE  /\ inbox'[i].event.trade = orders'[s].cum + inbox'[i].event.qty
                 /\ orders'[s].cum + inbox'[i].event.qty <= orders'[s].qty
                 /\ \A j \in DOMAIN inbox' : IsFill(inbox'[j], s) => j = i
      <4>1. CASE i = last
        <5>1. s = x /\ orders' = orders
          BY <1>1, <2>2, <2>5, <3>2, <4>1 DEF IsFill
        <5>2. \A j \in DOMAIN inbox' : IsFill(inbox'[j], s) => j = i
          BY <1>6, <2>5, <4>1, <5>1 DEF IsFill
        <5>3. orders[x].cum + n <= orders[x].qty
          BY <1>8
        <5> QED
          BY <2>2, <2>5, <4>1, <5>1, <5>2, <5>3
      <4>2. CASE i \in DOMAIN inbox
        <5>1. inbox'[i] = inbox[i] /\ IsFill(inbox[i], s) /\ s # x /\ orders' = orders
          BY <1>1, <1>6, <2>5, <3>2, <4>2 DEF IsFill
        <5>2. ~IsFill(m, s)
          BY <2>2, <5>1 DEF IsFill
        <5> QED
          BY <1>2, <2>5, <4>2, <5>1, <5>2 DEF InboxOk
      <4> QED
        BY <2>5, <4>1, <4>2
    <3>3. \A i \in DOMAIN inbox', s \in Slots : ~IsAck(inbox'[i], s) /\ ~IsEnd(inbox'[i], s)
      BY <3>1 DEF IsAck, IsEnd
    <3> QED
      BY <2>5, <3>1, <3>2, <3>3 DEF InboxOk
  <2>8. \A s \in Slots : BookOk(s)'
    <3> TAKE s \in Slots
    <3>1. BookOk(s)
      BY <1>2
    <3>2. CASE s = x
      <4>1. x \in InBook' => book'[x].leaves = k - n /\ k - n >= 1
        BY <1>5, <1>8, <1>11, <1>12
      <4>2. x \in InBook' =>
              orders'[x].cum + PendingFills(x)' + book'[x].leaves = orders'[x].qty
        BY <1>1, <1>8, <2>6, <4>1
      <4>3. x \notin InBook' => orders'[x].cum + PendingFills(x)' = orders'[x].qty
        BY <1>1, <1>8, <1>12, <2>6
      <4>4. x \in InBook' => book'[x].leaves >= 1
        BY <4>1
      <4> QED
        BY <1>3, <1>4, <1>10, <3>2, <4>2, <4>3, <4>4 DEF BookOk
    <3>3. CASE s # x
      <4>1. HasEnd(s) => HasEnd(s)'
        BY <1>6 DEF HasEnd, IsEnd
      <4> QED
        BY <1>1, <1>3, <1>10, <1>11, <1>13, <2>6, <3>1, <3>3, <4>1 DEF BookOk
    <3> QED
      BY <3>2, <3>3
  <2>9. VenueStep
    <3>0. /\ orders[x].cum + 0 + n <= orders[x].qty /\ n \in 0 .. MaxQty /\ n = 0 + n
          /\ orders[x].cum + 0 + n = orders[x].qty => n = k
      <4> PICK c \in Nat, q \in Nat : c = orders[x].cum /\ q = orders[x].qty
        BY <1>8
      <4> PICK j \in Nat : j = n
        BY <1>8
      <4>1. c + k = q /\ q <= MaxQty /\ j <= k
        BY <1>8
      <4>2. c + 0 + j <= q
        BY <4>1
      <4>3. j <= MaxQty
        <5>1. j <= q
          BY <4>1
        <5>2. MaxQty \in Nat /\ q <= MaxQty
          BY <4>1, DryRunAssumption
        <5> QED
          BY <5>1, <5>2
      <4>4. j = 0 + j
        OBVIOUS
      <4>5. c + 0 + j = q => j = k
        BY <4>1
      <4> QED
        BY <4>2, <4>3, <4>4, <4>5, DryRunAssumption
    <3> PICK ends \in BOOLEAN : ends <=> n = k
      <4>1. (n = k) \in BOOLEAN
        OBVIOUS
      <4> QED
        BY <4>1
    <3>4. /\ n \in 0 .. MaxQty /\ PendingFills(x) \in Nat
          /\ orders[x].cum + PendingFills(x) + n <= orders[x].qty
          /\ orders[x].cum + PendingFills(x) + n = orders[x].qty => ends
          /\ PendingFills(x)' = PendingFills(x) + n
      BY <1>7, <2>6, <3>0
    <3>1. \A s \in Slots : s # x => LifeOf(s)' = LifeOf(s)
      BY <1>3, <1>10, <1>13 DEF LifeOf
    <3>2. Others(x)
      BY <1>1, <2>6, <3>1 DEF Others, SameFor
    <3>3. LifeOf(x) = "open" /\ LifeOf(x)' = IF ends THEN "over" ELSE "open"
      BY <1>2, <1>3, <1>4, <1>10, <1>12 DEF LifeOf
    <3>5. orders'[x].qty = orders[x].qty /\ orders'[x].cum = orders[x].cum
      BY <1>1
    <3> QED
      BY <1>8, <3>2, <3>3, <3>4, <3>5, ExecuteSeen
  <2> QED
    BY <1>2, <1>3, <1>10, <1>11, <1>13, <1>14, <1>15, <2>7, <2>8, <2>9 DEF Books, BooksOk
<1> QED
  BY <1>17, <1>18

\* A message about x is told: n more lots of it are known.
Told(x, o, n) ==
  /\ inbox # <<>> /\ todo = {} /\ inbox[1].slot = x
  /\ inbox' = Tail(inbox) /\ orders' = [orders EXCEPT ![x] = o]
  /\ UNCHANGED <<pc, todo, book, plan>>
  /\ OrderOk(o) /\ o.qty = orders[x].qty /\ o.cum = orders[x].cum + n
  /\ \/ /\ inbox[1].kind = "fill" /\ n = inbox[1].event.qty
        /\ IsFinal(o) <=> orders[x].cum + n = orders[x].qty
     \/ IsAck(inbox[1], x) /\ n = 0 /\ ~IsFinal(o)
     \/ IsEnd(inbox[1], x) /\ n = 0 /\ IsFinal(o)

\* Telling a message keeps the books and is a step of Venue.
LEMMA MessageTold ==
  ASSUME DryInv, NEW x \in Slots, NEW o, NEW n \in 0 .. MaxQty, Told(x, o, n)
  PROVE  /\ Books' /\ VenueStep
         /\ x \in Active /\ x \notin ToSubmit
         /\ x \in Active' <=> ~IsFinal(o)
         /\ \A s \in Slots : s # x => orders'[s] = orders[s] /\ (s \in Active' <=> s \in Active)
         /\ \A s \in Slots : s \in InBook' <=> s \in InBook
         /\ \A s \in Slots : s \in ToSubmit' <=> s \in ToSubmit
         /\ orders'[x] = o
         /\ \A s \in Slots : HasEnd(s) /\ s \in Active' => HasEnd(s)'
         /\ \A i \in DOMAIN inbox' : i + 1 \in DOMAIN inbox /\ inbox'[i] = inbox[i + 1]
<1>1. OrdersOk /\ InboxOk /\ (\A s \in Slots : BookOk(s))
      /\ book \in [Slots -> [leaves : Nat, ahead : Nat]]
  BY DEF DryInv, BooksOk
<1>2. /\ inbox \in Seq(Messages) /\ inbox # <<>> /\ todo = {} /\ todo' = {}
      /\ inbox[1].slot = x /\ inbox' = Tail(inbox)
      /\ book' = book /\ pc' = pc /\ plan' = plan
  BY <1>1 DEF Told, InboxOk
<1>3. /\ inbox' \in Seq(Messages) /\ 1 \in DOMAIN inbox
      /\ DOMAIN inbox = 1 .. Len(inbox) /\ Len(inbox) \in Nat
      /\ Len(inbox') = Len(inbox) - 1
      /\ \A i \in DOMAIN inbox' : i + 1 \in DOMAIN inbox /\ i \in Nat /\ inbox'[i] = inbox[i + 1]
      /\ \A i \in DOMAIN inbox : i # 1 => i - 1 \in DOMAIN inbox' /\ inbox'[i - 1] = inbox[i]
  BY <1>2, TailPlaces
<1>4. x \in Active /\ x \notin ToSubmit
  BY <1>1, <1>2, <1>3 DEF InboxOk
<1>5. /\ DOMAIN orders' = Slots /\ orders'[x] = o
      /\ \A s \in Slots : s # x => orders'[s] = orders[s]
  BY <1>1 DEF Told, OrdersOk
<1>6. OrderOk(o) /\ o.qty = orders[x].qty /\ o.cum = orders[x].cum + n
  BY DEF Told
<1>7. OrdersOk'
  BY <1>1, <1>5, <1>6 DEF OrdersOk
<1>8. \A s \in Slots : (s \in InBook' <=> s \in InBook) /\ (s \in ToSubmit' <=> s \in ToSubmit)
  BY <1>2 DEF InBook, ToSubmit
<1>9. /\ x \in Active' <=> ~IsFinal(o)
      /\ \A s \in Slots : s # x => (s \in Active' <=> s \in Active)
  BY <1>5 DEF Active
<1>10. \A s \in Slots :
         /\ orders[s].qty \in Nat /\ orders[s].cum \in Nat /\ PendingFills(s) \in Nat
         /\ orders[s].cum + PendingFills(s) <= orders[s].qty /\ AtMostOne(inbox, s)
  BY <1>1, PendingRange
<1>11. \A s \in Slots : PendingFills(s)' = IF IsFill(inbox[1], s) THEN 0 ELSE PendingFills(s)
  <2>1. \A s \in Slots : PendingFills(s)' = Pending(Tail(inbox), s)
    BY <1>2 DEF PendingFills, Pending
  <2> QED
    BY <1>2, <1>10, <2>1, PendingTail, PendingIs
<1>12. \A s \in Slots : s # x => PendingFills(s)' = PendingFills(s)
  BY <1>2, <1>11 DEF IsFill
<1>13. /\ PendingFills(x)' = PendingFills(x) - n /\ n <= PendingFills(x)
       /\ IsFinal(o) => n = PendingFills(x)
       /\ IsFinal(o) => \/ orders[x].cum + PendingFills(x) = orders[x].qty
                        \/ IsEnd(inbox[1], x)
       /\ IsEnd(inbox[1], x) => IsFinal(o)
       /\ n # 0 => IsFill(inbox[1], x)
  <2>0. n \in Nat
    OBVIOUS
  <2>1. CASE inbox[1].kind = "fill"
    <3>1. IsFill(inbox[1], x) /\ ~IsAck(inbox[1], x) /\ ~IsEnd(inbox[1], x)
      BY <1>2, <2>1 DEF IsFill, IsAck, IsEnd
    <3>2. n = inbox[1].event.qty /\ (IsFinal(o) <=> orders[x].cum + n = orders[x].qty)
      BY <3>1 DEF Told
    <3>3. PendingFills(x) = n
      <4>1. \A j \in DOMAIN inbox : IsFill(inbox[j], x) => j = 1
        BY <1>3, <1>10, <3>1 DEF AtMostOne
      <4>2. Pending(inbox, x) = inbox[1].event.qty
        <5> PICK i \in DOMAIN inbox : i = 1
          BY <1>3
        <5>1. IsFill(inbox[i], x) /\ \A j \in DOMAIN inbox : IsFill(inbox[j], x) => j = i
          BY <3>1, <4>1
        <5>2. Pending(inbox, x) = inbox[i].event.qty
          BY <5>1, PendingOne
        <5> QED
          BY <5>2
      <4> QED
        BY <3>2, <4>2, PendingIs
    <3>4. PendingFills(x)' = 0
      BY <1>11, <3>1
    <3> QED
      BY <2>0, <3>1, <3>2, <3>3, <3>4
  <2>2. CASE inbox[1].kind # "fill"
    <3>1. ~IsFill(inbox[1], x)
      BY <2>2 DEF IsFill
    <3>2. n = 0 /\ PendingFills(x)' = PendingFills(x)
      BY <1>11, <2>2, <3>1 DEF Told
    <3>3. IsFinal(o) <=> IsEnd(inbox[1], x)
      BY <2>2 DEF Told, IsAck, IsEnd
    <3>4. IsEnd(inbox[1], x) => PendingFills(x) = 0
      <4> HAVE IsEnd(inbox[1], x)
      <4>1. 1 = Len(inbox)
        BY <1>1, <1>3 DEF InboxOk
      <4>2. \A i \in DOMAIN inbox : ~IsFill(inbox[i], x)
        <5>1. \A i \in DOMAIN inbox : i = 1
          BY <1>3, <4>1
        <5> QED
          BY <3>1, <5>1
      <4> QED
        BY <4>2, PendingNone, PendingIs
    <3> QED
      BY <1>10, <3>2, <3>3, <3>4
  <2> QED
    BY <2>1, <2>2
<1>14. \A s \in Slots : orders'[s].qty = orders[s].qty
         /\ orders'[s].cum + PendingFills(s)' = orders[s].cum + PendingFills(s)
  <2> TAKE s \in Slots
  <2>1. CASE s = x
    <3> PICK c \in Nat, p \in Nat : c = orders[x].cum /\ p = PendingFills(x)
      BY <1>10
    <3>1. c + n + (p - n) = c + p
      OBVIOUS
    <3> QED
      BY <1>5, <1>6, <1>13, <2>1, <3>1
  <2>2. CASE s # x
    BY <1>5, <1>12, <2>2
  <2> QED
    BY <2>1, <2>2
<1>15. \A i \in DOMAIN inbox' : ~(IsFinal(o) /\ inbox'[i].slot = x)
  <2> SUFFICES ASSUME NEW i \in DOMAIN inbox', IsFinal(o), inbox'[i].slot = x PROVE FALSE
    OBVIOUS
  <2> PICK j \in DOMAIN inbox : j = i + 1
    BY <1>3
  <2>1. inbox[j] = inbox'[i] /\ j # 1 /\ inbox[j].slot = x
    BY <1>3
  <2>2. ~IsEnd(inbox[1], x)
    <3>1. IsEnd(inbox[1], x) => 1 = Len(inbox)
      BY <1>1, <1>3 DEF InboxOk
    <3> QED
      BY <1>3, <2>1, <3>1
  <2>3. orders[x].cum + PendingFills(x) = orders[x].qty /\ IsFill(inbox[1], x)
    <3>1. orders[x].cum + PendingFills(x) = orders[x].qty /\ n = PendingFills(x)
      BY <1>13, <2>2
    <3>2. orders[x].cum < orders[x].qty
      BY <1>1, <1>4 DEF OrdersOk, OrderOk, Active
    <3>3. n # 0
      BY <1>10, <3>1, <3>2
    <3> QED
      BY <1>13, <3>1, <3>3
  <2>4. inbox[j] \in Messages
    BY <1>2, <1>3, ElementOfSeq
  <2>5. IsFill(inbox[j], x) \/ IsAck(inbox[j], x) \/ IsEnd(inbox[j], x)
    BY <2>1, <2>4, MessageFields DEF IsFill, IsAck, IsEnd
  <2>6. ~IsFill(inbox[j], x)
    BY <1>3, <1>10, <2>1, <2>3 DEF AtMostOne
  <2>7. ~IsAck(inbox[j], x)
    BY <1>1, <2>1 DEF InboxOk
  <2>8. ~IsEnd(inbox[j], x)
    <3>1. IsEnd(inbox[j], x) => orders[x].cum + PendingFills(x) < orders[x].qty
      BY <1>1 DEF InboxOk
    <3> QED
      BY <1>10, <2>3, <3>1
  <2> QED
    BY <2>5, <2>6, <2>7, <2>8
<1>16. \A s \in Slots : HasEnd(s) /\ s \in Active' => HasEnd(s)'
  <2> SUFFICES ASSUME NEW s \in Slots, HasEnd(s), s \in Active' PROVE HasEnd(s)'
    OBVIOUS
  <2>1. PICK i \in DOMAIN inbox : IsEnd(inbox[i], s)
    BY DEF HasEnd
  <2>2. i # 1
    <3>1. i = 1 => s = x /\ IsFinal(o)
      BY <1>2, <1>13, <2>1 DEF IsEnd
    <3> QED
      BY <1>9, <3>1
  <2>3. i - 1 \in DOMAIN inbox' /\ inbox'[i - 1] = inbox[i]
    BY <1>3, <2>2
  <2> QED
    BY <2>1, <2>3 DEF HasEnd
<1>17. InboxOk'
  <2>1. ASSUME NEW i \in DOMAIN inbox'
        PROVE  inbox'[i].slot \in Active' /\ inbox'[i].slot \notin ToSubmit'
    <3> PICK s : s = inbox'[i].slot
      OBVIOUS
    <3>1. s \in Active /\ s \in Slots /\ s \notin ToSubmit
      <4>1. i + 1 \in DOMAIN inbox /\ inbox'[i] = inbox[i + 1]
        BY <1>3
      <4> QED
        BY <1>1, <4>1 DEF InboxOk, Active
    <3>2. s = x => ~IsFinal(o)
      BY <1>15
    <3> QED
      BY <1>8, <1>9, <3>1, <3>2
  <2>2. ASSUME NEW i \in DOMAIN inbox', NEW s \in Slots, IsFill(inbox'[i], s)
        PROVE  /\ inbox'[i].event.trade = orders'[s].cum + inbox'[i].event.qty
               /\ orders'[s].cum + inbox'[i].event.qty <= orders'[s].qty
               /\ \A j \in DOMAIN inbox' : IsFill(inbox'[j], s) => j = i
    <3> PICK k \in DOMAIN inbox : k = i + 1
      BY <1>3
    <3>1. inbox'[i] = inbox[k] /\ k # 1 /\ i \in Nat /\ IsFill(inbox[k], s)
      BY <1>3, <2>2
    <3>2. /\ inbox[k].event.trade = orders[s].cum + inbox[k].event.qty
          /\ orders[s].cum + inbox[k].event.qty <= orders[s].qty
          /\ \A j \in DOMAIN inbox : IsFill(inbox[j], s) => j = k
      BY <1>1, <3>1 DEF InboxOk
    <3>3. ~IsFill(inbox[1], s)
      BY <1>3, <3>1, <3>2
    <3>4. orders'[s].cum = orders[s].cum /\ orders'[s].qty = orders[s].qty
      <4>1. CASE s = x
        <5>1. n = 0
          BY <1>13, <3>3, <4>1
        <5>2. o.cum = orders[x].cum
          BY <1>6, <1>10, <5>1
        <5> QED
          BY <1>5, <1>6, <4>1, <5>2
      <4>2. CASE s # x
        BY <1>5, <4>2
      <4> QED
        BY <4>1, <4>2
    <3>5. \A j \in DOMAIN inbox' : IsFill(inbox'[j], s) => j = i
      <4> TAKE j \in DOMAIN inbox'
      <4> HAVE IsFill(inbox'[j], s)
      <4>1. j + 1 \in DOMAIN inbox /\ j \in Nat /\ inbox'[j] = inbox[j + 1]
        BY <1>3
      <4>2. j + 1 = k
        BY <3>2, <4>1
      <4> QED
        BY <3>1, <4>1, <4>2
    <3> QED
      BY <3>1, <3>2, <3>4, <3>5
  <2>3. ASSUME NEW i \in DOMAIN inbox', NEW s \in Slots, IsAck(inbox'[i], s)
        PROVE  i = 1 /\ inbox'[i].event.cum = NoCum
    <3> PICK k \in DOMAIN inbox : k = i + 1
      BY <1>3
    <3>1. inbox'[i] = inbox[k] /\ k # 1
      BY <1>3
    <3> QED
      BY <1>1, <2>3, <3>1 DEF InboxOk
  <2>4. ASSUME NEW i \in DOMAIN inbox', NEW s \in Slots, IsEnd(inbox'[i], s)
        PROVE  /\ i = Len(inbox') /\ s \notin InBook'
               /\ orders'[s].cum + PendingFills(s)' < orders'[s].qty
               /\ inbox'[i].event.cum \in {NoCum, orders'[s].cum + PendingFills(s)'}
    <3> PICK k \in DOMAIN inbox : k = i + 1
      BY <1>3
    <3>1. inbox'[i] = inbox[k] /\ i \in Nat
      BY <1>3
    <3>2. /\ k = Len(inbox) /\ s \notin InBook
          /\ orders[s].cum + PendingFills(s) < orders[s].qty
          /\ inbox[k].event.cum \in {NoCum, orders[s].cum + PendingFills(s)}
      BY <1>1, <2>4, <3>1 DEF InboxOk
    <3>3. i = Len(inbox')
      BY <1>3, <3>1, <3>2
    <3> QED
      BY <1>8, <1>14, <3>1, <3>2, <3>3
  <2> QED
    BY <1>2, <1>3, <2>1, <2>2, <2>3, <2>4 DEF InboxOk
<1>18. \A s \in Slots : BookOk(s)'
  <2> TAKE s \in Slots
  <2>1. BookOk(s)
    BY <1>1
  <2>2. s = x /\ s \in InBook => ~IsFinal(o)
    <3>1. s = x /\ s \in InBook => /\ book[x].leaves \in Nat /\ book[x].leaves >= 1
                                   /\ orders[x].cum + PendingFills(x) + book[x].leaves = orders[x].qty
      BY <1>1, <2>1 DEF BookOk
    <3>2. s = x /\ s \in InBook => orders[x].cum + PendingFills(x) # orders[x].qty
      BY <1>10, <3>1
    <3>3. s = x /\ s \in InBook => ~IsEnd(inbox[1], x)
      BY <1>1, <1>3 DEF InboxOk
    <3> QED
      BY <1>13, <3>2, <3>3
  <2>3. s \in InBook' =>
          /\ s \in Active' /\ s \notin ToSubmit' /\ book'[s].leaves >= 1
          /\ orders'[s].cum + PendingFills(s)' + book'[s].leaves = orders'[s].qty
    BY <1>2, <1>8, <1>9, <1>14, <2>1, <2>2 DEF BookOk
  <2>4. s \in ToSubmit' => s \in Active' /\ orders'[s].cum = 0
    BY <1>4, <1>5, <1>8, <1>9, <2>1 DEF BookOk
  <2>5. s \in Active' /\ s \notin InBook' /\ s \notin ToSubmit' =>
          HasEnd(s)' \/ orders'[s].cum + PendingFills(s)' = orders'[s].qty
    <3> HAVE s \in Active' /\ s \notin InBook' /\ s \notin ToSubmit'
    <3>1. s \in Active /\ (HasEnd(s) \/ orders[s].cum + PendingFills(s) = orders[s].qty)
      BY <1>4, <1>8, <1>9, <2>1 DEF BookOk
    <3> QED
      BY <1>14, <1>16, <3>1
  <2> QED
    BY <2>3, <2>4, <2>5 DEF BookOk
<1>19. BooksOk'
  BY <1>1, <1>2, <1>18 DEF BooksOk
<1>20. VenueStep
  <2> PICK closes \in BOOLEAN : closes <=> IsFinal(o)
    <3>1. IsFinal(o) \in BOOLEAN
      BY DEF IsFinal
    <3> QED
      BY <3>1
  <2>1. \A s \in Slots : s # x => LifeOf(s)' = LifeOf(s)
    BY <1>8, <1>9 DEF LifeOf
  <2>2. Others(x)
    BY <1>5, <1>12, <2>1 DEF Others, SameFor
  <2>3. x \in InBook => ~IsFinal(o)
    <3>1. x \in InBook => x \in InBook' /\ BookOk(x)'
      BY <1>8, <1>18
    <3> QED
      BY <1>9, <3>1 DEF BookOk
  <2>4. LifeOf(x) # "free" /\ (closes => LifeOf(x) = "over")
    BY <1>4, <2>3 DEF LifeOf
  <2>5. LifeOf(x)' = IF closes THEN "free" ELSE LifeOf(x)
    BY <1>4, <1>8, <1>9, <2>3 DEF LifeOf
  <2>6. /\ orders'[x].qty = orders[x].qty /\ orders'[x].cum = orders[x].cum + n
        /\ closes => n = PendingFills(x)
    BY <1>5, <1>6, <1>13
  <2> QED
    BY <1>10, <1>13, <2>2, <2>4, <2>5, <2>6, TellSeen
<1> QED
  BY <1>3, <1>4, <1>5, <1>7, <1>8, <1>9, <1>16, <1>17, <1>19, <1>20 DEF Books

-------------------------------------------------------------------------------
(***************************************************************************)
(* One lemma per step of the loop.                                         *)
(***************************************************************************)

Kept == DryInv' /\ VenueStep

\* With nothing left to be told, a forced exit has yet to be submitted or replaced.
LEMMA NotForced ==
  ASSUME DryInv, inbox = <<>>, pc # "exitCancel", "exit" \notin ToSubmit
  PROVE  lollipop.forced = FALSE
<1>1. ~lollipop.forced
  BY Settled DEF Slots
<1> QED
  BY <1>1 DEF DryInv, PositionOk

\* A board begins.
LEMMA BoardKeeps == ASSUME DryInv, Board PROVE Kept
<1>1. /\ pc = "board" /\ inbox = <<>> /\ todo = {} /\ pc' = "decide" /\ todo' = InBook
      /\ UNCHANGED <<inbox, book, orders, position, lollipop, plan>>
  BY DEF Board, At
<1>2. \A s \in Slots : s \notin ToSubmit /\ s \notin ToSubmit'
  BY <1>1 DEF ToSubmit
<1>3. Books' /\ VenueStep
  BY <1>1, <1>2, LoopGoesOn
<1>4. lollipop.forced = FALSE
  BY <1>1, <1>2, NotForced DEF Slots
<1>5. \A s \in Slots : s \in InBook' <=> s \in InBook
  BY <1>1 DEF InBook
<1>6. StageOk'
  BY <1>1, <1>5 DEF DryInv, StageOk, Stages, InBook
<1>7. PositionOk'
  BY <1>1, <1>2 DEF DryInv, PositionOk, Active, Rest, Slots
<1>8. ForcedOk' /\ HaltOk'
  BY <1>1, <1>2, <1>4 DEF ForcedOk, HaltOk, Slots
<1> QED
  BY <1>3, <1>6, <1>7, <1>8 DEF Kept, DryInv, Books

\* The simulator looks at an order.
LEMMA LookKeeps ==
  ASSUME DryInv, NEW x \in Slots, NEW place \in Places, NEW traded \in Nat,
         LookAt(x, place, traded)
  PROVE  Kept
<1>1. /\ Books' /\ VenueStep /\ todo' \subseteq InBook'
      /\ \A s \in Slots : (s \in Active' <=> s \in Active) /\ (s \in InBook' => s \in InBook)
      /\ \A s \in Slots : s \notin ToSubmit /\ s \notin ToSubmit'
  BY OrderLookedAt
<1>2. pc = "decide" /\ UNCHANGED <<pc, orders, position, lollipop, plan>>
  BY DEF LookAt, DryInv, StageOk
<1>3. lollipop.forced = FALSE
  BY <1>2 DEF DryInv, ForcedOk, PositionOk
<1>4. StageOk'
  BY <1>1, <1>2 DEF DryInv, StageOk
<1>5. PositionOk'
  BY <1>1, <1>2 DEF DryInv, PositionOk, Rest, Slots
<1>6. ForcedOk' /\ HaltOk'
  BY <1>1, <1>2, <1>3 DEF ForcedOk, HaltOk, Slots
<1> QED
  BY <1>1, <1>4, <1>5, <1>6 DEF Kept, DryInv, Books

\* The stage that takes an entry back follows only where there is no entry to send.
LEMMA NextStage ==
  ASSUME NEW label, NEW p
  PROVE  After(label, p) =
           IF label = "exitCancel" THEN "release"
           ELSE IF label \in {"decide", "release"} /\ p.entryCancel THEN "entryCancel"
           ELSE IF p.entry # "" THEN "entry" ELSE IF p.exit # "" THEN "exit" ELSE "board"
BY DEF After

\* The order a forced exit replaces is taken back.
LEMMA ExitCancelKeeps == ASSUME DryInv, CancelStage("exitCancel", "exit") PROVE Kept
<1>1. /\ pc = "exitCancel" /\ inbox = <<>> /\ todo = {} /\ pc' = "release"
      /\ UNCHANGED <<todo, position, lollipop, plan>>
      /\ IF "exit" \in Active THEN CancelOrder("exit") ELSE UNCHANGED <<orders, book, inbox>>
  BY NextStage DEF CancelStage, At
<1>2. plan.entry = "" /\ plan.exit = "" /\ StageOk /\ PositionOk /\ ForcedOk
  BY <1>1 DEF DryInv, StageOk
<1>3. \A s \in Slots : s \notin ToSubmit /\ s \notin ToSubmit'
  BY <1>1, <1>2 DEF ToSubmit
<1>4. CASE "exit" \notin Active
  <2>1. UNCHANGED <<orders, book, inbox>>
    BY <1>1, <1>4
  <2>2. Books' /\ VenueStep
    BY <1>1, <1>3, <2>1, LoopGoesOn
  <2>3. lollipop.forced = FALSE
    BY <1>2, <1>4 DEF ForcedOk, PositionOk
  <2>4. StageOk'
    BY <1>1, <1>2, <2>1 DEF StageOk, Stages, InBook
  <2>5. PositionOk'
    BY <1>1, <1>2, <1>3, <2>1 DEF PositionOk, Active, Rest, Slots
  <2>6. ForcedOk' /\ HaltOk'
    BY <1>1, <1>3, <2>3 DEF ForcedOk, HaltOk, Slots
  <2> QED
    BY <2>2, <2>4, <2>5, <2>6 DEF Kept, DryInv, Books
<1>5. CASE "exit" \in Active
  <2>0. CancelOrder("exit") /\ "exit" \in InBook
    BY <1>1, <1>3, <1>5, Settled DEF Slots
  <2>1. /\ Books' /\ VenueStep /\ HasEnd("exit")'
        /\ \A i \in DOMAIN inbox' : inbox'[i].kind = "order"
        /\ \A s \in Slots : /\ s \in Active' <=> s \in Active
                            /\ orders'[s].qty = orders[s].qty
                            /\ orders'[s].cum = orders[s].cum
                            /\ s \in InBook' <=> s \in InBook /\ s # "exit"
    BY <1>1, <1>3, <2>0, OrderCanceled
  <2>2. StageOk'
    BY <1>1, <1>2 DEF StageOk, Stages
  <2>3. PositionOk'
    BY <1>1, <1>2, <1>3, <2>1 DEF PositionOk, Rest, Slots
  <2>4. ForcedOk' /\ HaltOk'
    BY <1>1, <1>2, <1>3, <1>5, <2>1 DEF ForcedOk, HaltOk, IsFill, Slots
  <2> QED
    BY <2>1, <2>2, <2>3, <2>4 DEF Kept, DryInv, Books
<1> QED
  BY <1>4, <1>5

\* A working entry is taken back before an exit is sent.
LEMMA EntryCancelKeeps == ASSUME DryInv, CancelStage("entryCancel", "entry") PROVE Kept
<1>1. /\ pc = "entryCancel" /\ inbox = <<>> /\ todo = {}
      /\ UNCHANGED <<todo, position, lollipop, plan>>
      /\ IF "entry" \in Active THEN CancelOrder("entry") ELSE UNCHANGED <<orders, book, inbox>>
      /\ pc' = After("entryCancel", [plan EXCEPT !.entryCancel = @ /\ FALSE])
  BY DEF CancelStage, At
<1>2. plan.entry = "" /\ StageOk /\ PositionOk /\ ForcedOk /\ plan \in Plans
  BY <1>1 DEF DryInv, StageOk
<1>3. pc' = IF plan.exit # "" THEN "exit" ELSE "board"
  <2> PICK p : p = [plan EXCEPT !.entryCancel = @ /\ FALSE]
    OBVIOUS
  <2>1. p.entry = "" /\ p.exit = plan.exit
    BY <1>2 DEF Plans
  <2> QED
    BY <1>1, <2>1, NextStage
<1>4. \A s \in Slots : s \in ToSubmit' <=> s \in ToSubmit
  BY <1>1, <1>2, <1>3 DEF ToSubmit, Slots
<1>5. "entry" \notin ToSubmit
  BY <1>1, <1>2 DEF ToSubmit
<1>6. CASE "entry" \notin Active
  <2>1. UNCHANGED <<orders, book, inbox>>
    BY <1>1, <1>6
  <2>2. Books' /\ VenueStep
    BY <1>1, <1>4, <2>1, LoopGoesOn
  <2>4. StageOk'
    BY <1>1, <1>2, <1>3, <2>1 DEF StageOk, Stages, InBook
  <2>5. PositionOk'
    BY <1>1, <1>2, <1>4, <2>1 DEF PositionOk, Active, Rest, Slots
  <2>6. ForcedOk'
    BY <1>1, <1>2, <1>3, <1>4, <2>1
    DEF ForcedOk, Slots, Active, InBook, Rest, HasEnd
  <2>7. HaltOk'
    BY <1>3 DEF HaltOk
  <2> QED
    BY <2>2, <2>4, <2>5, <2>6, <2>7 DEF Kept, DryInv, Books
<1>7. CASE "entry" \in Active
  <2>0. CancelOrder("entry") /\ "entry" \in InBook
    BY <1>1, <1>5, <1>7, Settled DEF Slots
  <2>1. /\ Books' /\ VenueStep
        /\ \A i \in DOMAIN inbox' : inbox'[i].kind = "order"
        /\ \A s \in Slots : /\ s \in Active' <=> s \in Active
                            /\ orders'[s].qty = orders[s].qty
                            /\ orders'[s].cum = orders[s].cum
                            /\ s \in InBook' <=> s \in InBook /\ s # "entry"
    BY <1>1, <1>4, <2>0, OrderCanceled
  <2>2. StageOk'
    BY <1>1, <1>2, <1>3 DEF StageOk, Stages
  <2>3. PositionOk'
    BY <1>1, <1>2, <1>4, <2>1 DEF PositionOk, Rest, Slots
  <2>4. ~HasEnd("exit")
    BY <1>1, NothingPending
  <2>5. ForcedOk'
    BY <1>1, <1>2, <1>3, <1>4, <2>1, <2>4 DEF ForcedOk, IsFill, Slots, Rest
  <2>6. HaltOk'
    BY <1>3 DEF HaltOk
  <2> QED
    BY <2>1, <2>2, <2>3, <2>5, <2>6 DEF Kept, DryInv, Books
<1> QED
  BY <1>6, <1>7

\* The answer t to a tick of the workflow w: an order for a position only, a take-profit
\* when one is scheduled, a forced exit at once; and nothing changes without an order
\* while there is a position.
Answers(t, w, p) ==
  /\ t.workflow \in [phase : Phases, retry : Nat, forced : BOOLEAN]
  /\ t.action \in {"none", "tp", "force"}
  /\ t.action # "none" => p > 0
  /\ t.action = "none" => t.workflow.forced = FALSE /\ (p > 0 => t.workflow = w)
  /\ t.action = "tp" => /\ w.phase = "SCHEDULED" /\ t.workflow.phase = "ACTIVE"
                        /\ t.workflow.forced = FALSE
  /\ t.action = "force" => t.workflow.phase = "TIMEOUT"
  /\ w.phase = "TIMEOUT" /\ p > 0 => t.action = "force"
  /\ p > 0 /\ w.phase # "IDLE" => t.workflow.phase # "IDLE"

\* A tick of a workflow that has not asked for a forced exit.
LEMMA TickEffect ==
  ASSUME NEW w \in [phase : Phases, retry : Nat, forced : BOOLEAN], w.forced = FALSE,
         NEW p \in Nat, NEW due \in BOOLEAN, NEW expired \in BOOLEAN
  PROVE  Answers(Tick(w, p, due, expired), w, p)
<1> DEFINE W == [phase : Phases, retry : Nat, forced : BOOLEAN]
           v == [w EXCEPT !.phase = "TIMEOUT"]
           f == [v EXCEPT !.forced = TRUE]
           a == [w EXCEPT !.phase = "ACTIVE", !.retry = @ + 1]
           t == Tick(w, p, due, expired)
<1> SUFFICES Answers(t, w, p)
  OBVIOUS
<1>1. w \in W /\ w.phase \in Phases /\ w.retry \in Nat /\ w.forced = FALSE
  OBVIOUS
<1>2. /\ v \in W /\ v.phase = "TIMEOUT" /\ v.forced = FALSE
      /\ f \in W /\ f.phase = "TIMEOUT" /\ f.forced = TRUE
      /\ (w.phase = "TIMEOUT" => v = w)
  BY <1>1 DEF Phases
<1>3. a \in W /\ a.phase = "ACTIVE" /\ a.forced = FALSE
  <2>1. w.retry + 1 \in Nat
    BY <1>1
  <2> PICK k \in Nat : k = w.retry + 1
    BY <2>1
  <2>2. a = [w EXCEPT !.phase = "ACTIVE", !.retry = k]
    OBVIOUS
  <2> QED
    BY <1>1, <2>2 DEF Phases
<1>4. Idle \in W /\ Idle.phase = "IDLE" /\ Idle.forced = FALSE
  BY DEF Idle, Phases
<1>5. p > 0 <=> ~(p <= 0)
  OBVIOUS
<1>6. HandleTimeout(v, p) = IF p > 0 THEN Action(f, "force") ELSE Action(Idle, "none")
  BY <1>2, <1>5 DEF HandleTimeout
<1>7. \/ t = Action(w, "none") /\ ~(w.phase = "TIMEOUT" /\ p > 0)
      \/ t = HandleTimeout(v, p) /\ w.phase # "IDLE"
      \/ t = Action(a, "tp") /\ p > 0 /\ w.phase = "SCHEDULED"
  <2>1. CASE w.phase = "IDLE"
    BY <2>1 DEF Tick
  <2>2. CASE w.phase = "SCHEDULED"
    <3>1. t = HandleScheduled(w, p, due)
      BY <2>2 DEF Tick
    <3> QED
      BY <1>5, <2>2, <3>1 DEF HandleScheduled
  <2>3. CASE w.phase = "ACTIVE"
    BY <2>3 DEF Tick
  <2>4. CASE w.phase = "TIMEOUT"
    BY <1>2, <2>4 DEF Tick
  <2> QED
    BY <1>1, <2>1, <2>2, <2>3, <2>4 DEF Phases
<1> HIDE DEF v, f, a, t
<1>8. CASE t = Action(w, "none") /\ ~(w.phase = "TIMEOUT" /\ p > 0)
  <2>1. t.workflow = w /\ t.action = "none"
    BY <1>8 DEF Action
  <2> QED
    BY <1>1, <1>8, <2>1 DEF Answers
<1>9. CASE t = HandleTimeout(v, p) /\ w.phase # "IDLE" /\ p > 0
  <2>1. t.workflow = f /\ t.action = "force"
    BY <1>6, <1>9 DEF Action
  <2> QED
    BY <1>2, <1>9, <2>1 DEF Answers
<1>10. CASE t = HandleTimeout(v, p) /\ w.phase # "IDLE" /\ ~(p > 0)
  <2>1. t.workflow = Idle /\ t.action = "none"
    BY <1>6, <1>10 DEF Action
  <2> QED
    BY <1>4, <1>10, <2>1 DEF Answers
<1>11. CASE t = Action(a, "tp") /\ p > 0 /\ w.phase = "SCHEDULED"
  <2>1. t.workflow = a /\ t.action = "tp"
    BY <1>11 DEF Action
  <2> QED
    BY <1>3, <1>11, <2>1 DEF Answers
<1> QED
  BY <1>7, <1>8, <1>9, <1>10, <1>11

\* The hard kill file appears.
LEMMA HardKillKeeps == ASSUME DryInv, HardKill PROVE Kept
<1>1. /\ pc = "board" /\ inbox = <<>> /\ todo = {} /\ pc' = "cancelAll"
      /\ UNCHANGED <<todo, inbox, book, orders, position, lollipop, plan>>
  BY DEF HardKill, At
<1>2. \A s \in Slots : s \notin ToSubmit /\ s \notin ToSubmit'
  BY <1>1 DEF ToSubmit
<1>3. Books' /\ VenueStep
  BY <1>1, <1>2, LoopGoesOn
<1>4. lollipop.forced = FALSE
  BY <1>1, <1>2, NotForced DEF Slots
<1>5. StageOk'
  BY <1>1 DEF DryInv, StageOk, Stages, InBook
<1>6. PositionOk'
  BY <1>1, <1>2 DEF DryInv, PositionOk, Active, Rest, Slots
<1>7. ForcedOk' /\ HaltOk'
  BY <1>1, <1>2, <1>4 DEF ForcedOk, HaltOk, Slots
<1> QED
  BY <1>3, <1>5, <1>6, <1>7 DEF Kept, DryInv, Books

\* A board is not looked at.
LEMMA IgnoreBoardKeeps == ASSUME DryInv, IgnoreBoard PROVE Kept
<1>1. /\ pc = "decide" /\ inbox = <<>> /\ todo = {} /\ pc' = "board" /\ plan' = NoPlan
      /\ UNCHANGED <<todo, inbox, book, orders, position, lollipop>>
  BY DEF IgnoreBoard, At
<1>2. \A s \in Slots : s \notin ToSubmit /\ s \notin ToSubmit'
  BY <1>1 DEF ToSubmit
<1>3. Books' /\ VenueStep
  BY <1>1, <1>2, LoopGoesOn
<1>4. lollipop.forced = FALSE
  BY <1>1, <1>2, NotForced DEF Slots
<1>5. StageOk'
  <2>1. NoPlan \in Plans /\ NoPlan.entry = "" /\ NoPlan.exit = ""
    BY DEF NoPlan, Plans, Kinds
  <2> QED
    BY <1>1, <2>1 DEF DryInv, StageOk, Stages, InBook
<1>6. PositionOk'
  BY <1>1, <1>2 DEF DryInv, PositionOk, Active, Rest, Slots
<1>7. ForcedOk' /\ HaltOk'
  BY <1>1, <1>2, <1>4 DEF ForcedOk, HaltOk, Slots
<1> QED
  BY <1>3, <1>5, <1>6, <1>7 DEF Kept, DryInv, Books

\* One order after the other is taken back.
LEMMA CancelAllKeeps == ASSUME DryInv, CancelAll PROVE Kept
<1>1. /\ pc = "cancelAll" /\ inbox = <<>> /\ todo = {}
      /\ UNCHANGED <<todo, position, lollipop, plan>>
      /\ \/ \E x \in Slots : x \in Active /\ CancelOrder(x) /\ pc' = pc
         \/ Active = {} /\ pc' = "flattenTick" /\ UNCHANGED <<orders, book, inbox>>
  <2>1. Active \subseteq Slots
    BY DEF Active
  <2> QED
    BY <2>1 DEF CancelAll, At, Slots
<1>2. StageOk /\ PositionOk /\ ForcedOk
  BY DEF DryInv
<1>3. \A s \in Slots : s \notin ToSubmit
  BY <1>1 DEF ToSubmit
<1>4. lollipop.forced = FALSE
  BY <1>1, <1>3, NotForced DEF Slots
<1>5. ASSUME NEW x \in Slots, x \in Active, CancelOrder(x), pc' = pc PROVE Kept
  <2>0. x \in InBook
    BY <1>1, <1>3, <1>5, Settled
  <2>1. \A s \in Slots : s \notin ToSubmit'
    BY <1>1, <1>5 DEF ToSubmit
  <2>2. /\ Books' /\ VenueStep
        /\ \A s \in Slots : /\ s \in Active' <=> s \in Active
                            /\ orders'[s].qty = orders[s].qty
                            /\ orders'[s].cum = orders[s].cum
    BY <1>1, <1>3, <1>5, <2>0, <2>1, OrderCanceled
  <2>3. StageOk'
    BY <1>1, <1>2, <1>5 DEF StageOk
  <2>4. PositionOk'
    BY <1>1, <1>2, <2>1, <2>2 DEF PositionOk, Rest, Slots
  <2>5. ForcedOk' /\ HaltOk'
    BY <1>1, <1>4, <1>5, <2>1 DEF ForcedOk, HaltOk, Slots
  <2> QED
    BY <2>2, <2>3, <2>4, <2>5 DEF Kept, DryInv, Books
<1>6. CASE Active = {} /\ pc' = "flattenTick" /\ UNCHANGED <<orders, book, inbox>>
  <2>1. \A s \in Slots : s \notin ToSubmit'
    BY <1>1, <1>6 DEF ToSubmit
  <2>2. Books' /\ VenueStep
    BY <1>1, <1>3, <1>6, <2>1, LoopGoesOn
  <2>3. InBook = {}
    <3>1. \A s \in Slots : s \notin InBook
      BY <1>1, <1>3, <1>6, Settled
    <3> QED
      BY <3>1 DEF InBook
  <2>4. InBook' = {} /\ Active' = {}
    BY <1>6, <2>3 DEF InBook, Active
  <2>5. StageOk'
    BY <1>1, <1>2, <1>6 DEF StageOk, Stages, InBook
  <2>6. PositionOk'
    BY <1>1, <1>2, <1>6, <2>1, <2>4 DEF PositionOk, Slots
  <2>7. ForcedOk' /\ HaltOk'
    BY <1>1, <1>4, <1>6, <2>1, <2>4 DEF ForcedOk, HaltOk, Slots
  <2> QED
    BY <2>2, <2>5, <2>6, <2>7 DEF Kept, DryInv, Books
<1> QED
  BY <1>1, <1>5, <1>6

\* The workflow is forced and its order tracked, or there is nothing to close.
LEMMA FlattenTickKeeps == ASSUME DryInv, FlattenTick PROVE Kept
<1> PICK w : w = ForceExitNextTick(lollipop)
  OBVIOUS
<1> PICK v : v = ForcedTick.workflow
  OBVIOUS
<1> PICK a : a = ForcedTick.action
  OBVIOUS
<1>1. /\ pc = "flattenTick" /\ inbox = <<>> /\ todo = {}
      /\ UNCHANGED <<todo, inbox, book, position, plan>>
      /\ IF position > 0 /\ a = "force"
         THEN Track("exit", position) /\ pc' = "flatten"
         ELSE UNCHANGED orders /\ pc' = "halted"
      /\ lollipop' = IF position > 0 THEN v ELSE lollipop
  BY DEF FlattenTick, At
<1>2. StageOk /\ PositionOk /\ ForcedOk /\ HaltOk
  BY DEF DryInv
<1>3. \A s \in Slots : s \notin ToSubmit
  BY <1>1 DEF ToSubmit
<1>4. lollipop.forced = FALSE
  BY <1>1, <1>3, NotForced DEF Slots
<1>5. InBook = {} /\ Active = {}
  <2>1. \A s \in Slots : s \notin Active
    BY <1>1, <1>2, <1>3, Settled DEF HaltOk
  <2> QED
    BY <1>1, <1>2, <2>1 DEF HaltOk, Active
<1>6. /\ position \in 0 .. MaxQty /\ position \in Nat
      /\ lollipop \in [phase : Phases, retry : Nat, forced : BOOLEAN]
      /\ position > 0 => lollipop.phase # "IDLE"
  BY <1>2, DryRunAssumption DEF PositionOk
<1>7. CASE position > 0
  <2>1. /\ w \in [phase : Phases, retry : Nat, forced : BOOLEAN]
        /\ w.phase = "TIMEOUT" /\ w.forced = FALSE
    BY <1>4, <1>6, <1>7 DEF ForceExitNextTick, Phases
  <2>2. /\ v \in [phase : Phases, retry : Nat, forced : BOOLEAN]
        /\ a = "force" /\ v.phase = "TIMEOUT"
    <3> PICK t : t = Tick(w, position, FALSE, FALSE)
      OBVIOUS
    <3> PICK no \in BOOLEAN : no = FALSE
      OBVIOUS
    <3>1. Answers(Tick(w, position, no, no), w, position)
      BY <1>6, <2>1, TickEffect
    <3>2. Answers(t, w, position) /\ v = t.workflow /\ a = t.action
      BY <3>1 DEF ForcedTick
    <3> QED
      BY <1>7, <2>1, <3>2 DEF Answers
  <2>3. Track("exit", position) /\ pc' = "flatten" /\ lollipop' = v
    BY <1>1, <1>7, <2>2
  <2>4. position \in 1 .. MaxQty
    BY <1>6, <1>7
  <2>5. "exit" \in ToSubmit' /\ "entry" \notin ToSubmit'
    BY <2>3 DEF ToSubmit, Slots
  <2>6. /\ Books' /\ VenueStep
        /\ "exit" \in Active' /\ orders'["exit"].qty = position /\ orders'["exit"].cum = 0
        /\ "entry" \notin Active'
        /\ \A s \in Slots : s \notin InBook'
    <3>1. /\ "exit" \in Slots /\ "exit" \notin Active
          /\ "exit" \notin ToSubmit
          /\ \A s \in Slots : s # "exit" => (s \in ToSubmit' <=> s \in ToSubmit)
      BY <1>3, <1>5, <2>5 DEF Slots
    <3>2. /\ Books' /\ VenueStep
          /\ "exit" \in Active' /\ orders'["exit"].qty = position
          /\ orders'["exit"].cum = 0
          /\ \A s \in Slots : s # "exit" => (s \in Active' <=> s \in Active)
          /\ \A s \in Slots : s \in InBook' <=> s \in InBook
      BY <1>1, <2>3, <2>4, <2>5, <3>1, OrderTracked
    <3> QED
      BY <1>5, <3>2 DEF Slots
  <2>7. StageOk'
    BY <1>1, <1>2, <2>3 DEF StageOk, Stages
  <2>8. Rest("exit")' = position
    BY <1>6, <2>6 DEF Rest
  <2>9. PositionOk'
    BY <1>1, <1>6, <2>2, <2>3, <2>6, <2>8 DEF PositionOk
  <2>10. ForcedOk'
    BY <1>1, <2>2, <2>3, <2>6, <2>8 DEF ForcedOk, Slots
  <2>11. HaltOk'
    BY <1>1, <2>6, <2>8 DEF HaltOk, InBook
  <2> QED
    BY <2>6, <2>7, <2>9, <2>10, <2>11 DEF Kept, DryInv, Books
<1>8. CASE ~(position > 0)
  <2>1. UNCHANGED <<inbox, book, orders, position, lollipop, plan, todo>> /\ pc' = "halted"
    BY <1>1, <1>8
  <2>2. \A s \in Slots : s \notin ToSubmit'
    BY <2>1 DEF ToSubmit
  <2>3. Books' /\ VenueStep
    BY <1>1, <1>3, <2>1, <2>2, LoopGoesOn
  <2>4. InBook' = {} /\ Active' = {}
    BY <1>5, <2>1 DEF InBook, Active
  <2>5. StageOk'
    BY <1>1, <1>2, <2>1 DEF StageOk, Stages, InBook
  <2>6. PositionOk'
    BY <1>2, <2>1, <2>2, <2>4 DEF PositionOk, Slots
  <2>7. ForcedOk' /\ HaltOk'
    BY <1>4, <1>8, <2>1, <2>2, <2>4 DEF ForcedOk, HaltOk, Slots
  <2> QED
    BY <2>3, <2>5, <2>6, <2>7 DEF Kept, DryInv, Books
<1> QED
  BY <1>7, <1>8

\* Only the workflow and the stage change, and nothing waits to be submitted.
LEMMA QuietStep ==
  ASSUME DryInv, inbox = <<>>, UNCHANGED <<inbox, book, orders, position>>,
         \A s \in Slots : s \notin ToSubmit /\ s \notin ToSubmit',
         StageOk', pc' \notin {"flattenTick", "flatten", "halted"},
         lollipop' \in [phase : Phases, retry : Nat, forced : BOOLEAN],
         \/ lollipop'.forced = FALSE
         \/ pc' = "exitCancel" /\ "exit" \in Active /\ lollipop'.phase = "TIMEOUT",
         position > 0 => lollipop'.phase # "IDLE",
         "exit" \in Active => lollipop'.phase \in {"ACTIVE", "TIMEOUT"}
  PROVE  Kept
<1>1. Books' /\ VenueStep
  BY LoopGoesOn
<1>2. \A s \in Slots : s \in Active' <=> s \in Active
  BY DEF Active
<1>3. PositionOk'
  BY <1>2 DEF DryInv, PositionOk, Rest, Slots
<1>4. \A i \in DOMAIN inbox' : FALSE
  OBVIOUS
<1>5. ForcedOk' /\ HaltOk'
  BY <1>2, <1>4 DEF ForcedOk, HaltOk, Slots
<1> QED
  BY <1>1, <1>3, <1>5 DEF Kept, DryInv, Books

\* An exit for the position is tracked, to be submitted in a later stage.
LEMMA ExitTracked ==
  ASSUME DryInv, inbox = <<>>, UNCHANGED <<inbox, book, position>>,
         position > 0, "exit" \notin Active, Track("exit", position),
         \A s \in Slots : s \notin ToSubmit,
         "exit" \in ToSubmit', "entry" \notin ToSubmit',
         StageOk', pc' \notin {"decide", "exitCancel", "flattenTick", "flatten", "halted"},
         lollipop' \in [phase : Phases, retry : Nat, forced : BOOLEAN],
         lollipop'.phase \in {"ACTIVE", "TIMEOUT"},
         lollipop'.forced => lollipop'.phase = "TIMEOUT" /\ plan'.exit # "limit"
  PROVE  Kept
<1>1. position \in 1 .. MaxQty /\ PositionOk
  BY DryRunAssumption DEF DryInv, PositionOk
<1>2. /\ Books' /\ VenueStep
      /\ "exit" \in Active' /\ orders'["exit"].qty = position
      /\ orders'["exit"].cum = 0
      /\ \A s \in Slots : s # "exit" =>
           orders'[s] = orders[s] /\ (s \in Active' <=> s \in Active)
      /\ \A s \in Slots : s \in InBook' <=> s \in InBook
  <2>1. /\ "exit" \in Slots /\ "exit" \notin ToSubmit
        /\ \A s \in Slots : s # "exit" => (s \in ToSubmit' <=> s \in ToSubmit)
    BY DEF Slots
  <2> QED
    BY <1>1, <2>1, OrderTracked
<1>3. "exit" \notin InBook'
  BY <1>2, Settled DEF Slots
<1>4. Rest("exit")' = position
  BY <1>1, <1>2 DEF Rest
<1>5. "entry" \in Active' => "entry" \in Active /\ Rest("entry")' = Rest("entry")
  BY <1>2 DEF Rest, Slots
<1>6. PositionOk'
  BY <1>1, <1>2, <1>4, <1>5 DEF PositionOk, Rest
<1>7. \A i \in DOMAIN inbox' : FALSE
  OBVIOUS
<1>8. ForcedOk' /\ HaltOk'
  BY <1>2, <1>3, <1>4, <1>7 DEF ForcedOk, HaltOk, Slots
<1> QED
  BY <1>2, <1>6, <1>8 DEF Kept, DryInv, Books

\* The workflow of a position whose forced exit was replaced asks again.
LEMMA ReleaseKeeps == ASSUME DryInv, Release PROVE Kept
<1>0. PICK t : t = Tick(lollipop, position, FALSE, FALSE)
  OBVIOUS
<1>1. /\ pc = "release" /\ inbox = <<>> /\ todo = {}
      /\ UNCHANGED <<todo, inbox, book, position, plan>>
      /\ IF position <= 0 \/ "exit" \in Active
         THEN UNCHANGED <<lollipop, orders>> /\ pc' = After("release", plan)
         ELSE /\ lollipop' = t.workflow
              /\ IF t.action = "force"
                 THEN Track("exit", position) /\ pc' = "deferred"
                 ELSE UNCHANGED orders /\ pc' = After("release", plan)
  BY <1>0 DEF Release, At
<1>2. plan.entry = "" /\ plan.exit = "" /\ plan \in Plans /\ StageOk /\ PositionOk
  BY <1>1 DEF DryInv, StageOk
<1>3. \A s \in Slots : s \notin ToSubmit
  BY <1>1, <1>2 DEF ToSubmit
<1>4. lollipop.forced = FALSE
  BY <1>1, <1>3, NotForced DEF Slots
<1>5. After("release", plan) \in {"entryCancel", "board"}
  BY <1>2, NextStage
<1>6. /\ position \in Nat /\ lollipop \in [phase : Phases, retry : Nat, forced : BOOLEAN]
      /\ position > 0 => lollipop.phase # "IDLE"
      /\ "exit" \in Active => lollipop.phase \in {"ACTIVE", "TIMEOUT"}
  <2>0. position \in 0 .. MaxQty
    BY <1>2 DEF PositionOk
  <2>1. position \in Nat
    BY <2>0, DryRunAssumption
  <2> QED
    BY <1>2, <2>1 DEF PositionOk
<1>7. Answers(t, lollipop, position)
  <2> PICK no \in BOOLEAN : no = FALSE
    OBVIOUS
  <2>1. Answers(Tick(lollipop, position, no, no), lollipop, position)
    BY <1>4, <1>6, TickEffect
  <2> QED
    BY <1>0, <2>1
<1>8. ASSUME pc' \in {"entryCancel", "board"}, UNCHANGED orders,
             lollipop' \in [phase : Phases, retry : Nat, forced : BOOLEAN],
             lollipop'.forced = FALSE, position > 0 => lollipop'.phase # "IDLE",
             "exit" \in Active => lollipop'.phase \in {"ACTIVE", "TIMEOUT"}
      PROVE  Kept
  <2>1. \A s \in Slots : s \notin ToSubmit'
    BY <1>1, <1>2, <1>8 DEF ToSubmit
  <2>2. StageOk'
    BY <1>1, <1>2, <1>8 DEF StageOk, Stages, InBook
  <2>3. pc' \notin {"flattenTick", "flatten", "halted"}
    BY <1>8
  <2>4. inbox = <<>> /\ UNCHANGED <<inbox, book, orders, position>>
    BY <1>1, <1>8
  <2> QED
    BY <1>3, <1>8, <2>1, <2>2, <2>3, <2>4, QuietStep
<1>9. CASE position <= 0 \/ "exit" \in Active
  BY <1>1, <1>4, <1>5, <1>6, <1>8, <1>9
<1>10. CASE position > 0 /\ "exit" \notin Active /\ t.action # "force"
  <2>0. ~(position <= 0)
    BY <1>6, <1>10
  <2>1. pc' = After("release", plan) /\ UNCHANGED orders /\ lollipop' = t.workflow
    BY <1>1, <1>10, <2>0
  <2>2. /\ t.workflow \in [phase : Phases, retry : Nat, forced : BOOLEAN]
        /\ t.workflow.forced = FALSE /\ t.workflow.phase # "IDLE"
    BY <1>6, <1>7, <1>10 DEF Answers
  <2> QED
    BY <1>5, <1>8, <1>10, <2>1, <2>2
<1>11. CASE position > 0 /\ "exit" \notin Active /\ t.action = "force"
  <2>0. ~(position <= 0)
    BY <1>6, <1>11
  <2>1. Track("exit", position) /\ pc' = "deferred" /\ lollipop' = t.workflow
    BY <1>1, <1>11, <2>0
  <2>2. /\ t.workflow \in [phase : Phases, retry : Nat, forced : BOOLEAN]
        /\ t.workflow.phase = "TIMEOUT"
    BY <1>7, <1>11 DEF Answers
  <2>3. "exit" \in ToSubmit' /\ "entry" \notin ToSubmit'
    BY <1>1, <1>2, <2>1 DEF ToSubmit, Slots
  <2>4. StageOk'
    BY <1>1, <1>2, <2>1 DEF StageOk, Stages, InBook
  <2>5. /\ lollipop'.phase \in {"ACTIVE", "TIMEOUT"} /\ plan'.exit # "limit"
        /\ lollipop'.phase = "TIMEOUT"
        /\ lollipop' \in [phase : Phases, retry : Nat, forced : BOOLEAN]
        /\ pc' \notin {"decide", "exitCancel", "flattenTick", "flatten", "halted"}
    BY <1>1, <1>2, <2>1, <2>2
  <2> QED
    BY <1>1, <1>3, <1>11, <2>1, <2>3, <2>4, <2>5, ExitTracked
<1> QED
  <2>1. position <= 0 \/ position > 0
    BY <1>6
  <2> QED
    BY <1>9, <1>10, <1>11, <2>1

\* What the strategy decides on a board.
LEMMA DecideKeeps ==
  ASSUME DryInv, NEW flip \in BOOLEAN, NEW due \in BOOLEAN, NEW expired \in BOOLEAN,
         NEW cancelEntry \in BOOLEAN, NEW n \in 0 .. MaxQty, NEW kind \in {"limit", "market"},
         Decide(flip, due, expired, cancelEntry, n, kind)
  PROVE  Kept
<1> DEFINE W == [phase : Phases, retry : Nat, forced : BOOLEAN]
<1>a. PICK w : w = IF flip THEN ForceExitNextTick(lollipop) ELSE lollipop
  OBVIOUS
<1>b. PICK t : t = Tick(w, position, due, expired)
  OBVIOUS
<1>c. PICK replaces \in BOOLEAN : replaces <=> t.action = "force" /\ "exit" \in Active
  <2>1. (t.action = "force" /\ "exit" \in Active) \in BOOLEAN
    OBVIOUS
  <2> QED
    BY <2>1
<1>d. PICK exits \in BOOLEAN : exits <=> t.action # "none" /\ ~replaces
  <2>1. (t.action # "none" /\ ~replaces) \in BOOLEAN
    OBVIOUS
  <2> QED
    BY <2>1
<1>e. PICK p : p = [exitCancel |-> replaces, entryCancel |-> cancelEntry,
                  entry |-> IF n > 0 THEN kind ELSE "",
                  exit |-> IF exits THEN OrderKind(t.action) ELSE ""]
  OBVIOUS
<1>1. /\ pc = "decide" /\ inbox = <<>> /\ todo = {}
      /\ flip => position > 0
      /\ cancelEntry => "entry" \in Active
      /\ n > 0 => "entry" \notin Active /\ ~(position > 0 /\ t.workflow.phase # "IDLE")
      /\ lollipop' = t.workflow
      /\ IF exits THEN Track("exit", position)
         ELSE IF n > 0 THEN Track("entry", n)
         ELSE UNCHANGED orders
      /\ UNCHANGED <<todo, inbox, book, position>>
  <2>1. (t.action = "force" /\ "exit" \in Active) = replaces
    BY <1>c
  <2>2. (t.action # "none" /\ ~replaces) = exits
    BY <1>d
  <2> QED
    BY <1>a, <1>b, <2>1, <2>2 DEF Decide, At
<1>2. plan' = p /\ pc' = IF replaces THEN "exitCancel" ELSE After("decide", p)
  <2>1. (t.action = "force" /\ "exit" \in Active) = replaces
    BY <1>c
  <2>2. (t.action # "none" /\ ~replaces) = exits
    BY <1>d
  <2> QED
    BY <1>a, <1>b, <1>e, <2>1, <2>2 DEF Decide
<1>3. StageOk /\ PositionOk /\ ForcedOk /\ OrdersOk
  BY DEF DryInv
<1>4. \A s \in Slots : s \notin ToSubmit
  BY <1>1 DEF ToSubmit
<1>5. lollipop.forced = FALSE
  BY <1>1, <1>4, NotForced DEF Slots
<1>6. /\ position \in Nat /\ position \in 0 .. MaxQty /\ lollipop \in W
      /\ position > 0 => lollipop.phase # "IDLE"
      /\ "exit" \in Active => lollipop.phase \in {"ACTIVE", "TIMEOUT"}
  <2>1. position \in 0 .. MaxQty
    BY <1>3 DEF PositionOk
  <2>2. position \in Nat
    BY <2>1, DryRunAssumption
  <2> QED
    BY <1>3, <2>1, <2>2 DEF PositionOk
<1>7. "exit" \in Active => position > 0
  <2>1. "exit" \in Active => orders["exit"].cum < orders["exit"].qty
    BY <1>3 DEF OrdersOk, OrderOk, Active
  <2>2. orders["exit"].cum \in Nat /\ orders["exit"].qty \in Nat
    BY PendingRange DEF DryInv, Slots
  <2>3. "exit" \in Active => orders["exit"].qty - orders["exit"].cum <= position
    BY <1>3 DEF PositionOk, Rest
  <2>4. position \in Nat
    BY <1>6
  <2> QED
    BY <2>1, <2>2, <2>3, <2>4
<1>8. /\ w \in W /\ w.forced = FALSE
      /\ position > 0 => w.phase # "IDLE"
      /\ "exit" \in Active => w.phase \in {"ACTIVE", "TIMEOUT"}
  <2>1. CASE flip
    BY <1>a, <1>1, <1>5, <1>6, <2>1 DEF ForceExitNextTick, Phases
  <2>2. CASE ~flip
    BY <1>a, <1>5, <1>6, <2>2
  <2> QED
    BY <2>1, <2>2
<1>9. Answers(t, w, position)
  <2>1. Answers(Tick(w, position, due, expired), w, position)
    BY <1>6, <1>8, TickEffect
  <2> QED
    BY <1>b, <2>1
<1>10. /\ p.entryCancel = cancelEntry /\ p.exitCancel = replaces
       /\ p.entry = (IF n > 0 THEN kind ELSE "")
       /\ p.exit = (IF exits THEN OrderKind(t.action) ELSE "")
       /\ OrderKind(t.action) \in {"limit", "market"}
       /\ p \in Plans
  <2>1. OrderKind(t.action) \in {"limit", "market"}
    BY DEF OrderKind
  <2> PICK k : k = OrderKind(t.action)
    OBVIOUS
  <2> QED
    BY <1>e, <2>1 DEF Plans, Kinds
<1>11. CASE replaces
  <2>1. t.action = "force" /\ "exit" \in Active /\ ~exits
    BY <1>c, <1>d, <1>11
  <2>2. t.workflow.phase = "TIMEOUT" /\ t.workflow \in W
    BY <1>9, <2>1 DEF Answers
  <2>3. ~(n > 0)
    BY <1>1, <1>7, <2>1, <2>2
  <2>4. UNCHANGED orders /\ pc' = "exitCancel" /\ plan'.entry = "" /\ plan'.exit = ""
    BY <1>1, <1>2, <1>10, <1>11, <2>1, <2>3
  <2>5. \A s \in Slots : s \notin ToSubmit'
    BY <2>4 DEF ToSubmit
  <2>6. StageOk'
    BY <1>1, <1>2, <1>3, <1>10, <2>4 DEF StageOk, Stages, InBook
  <2>7. /\ pc' \notin {"flattenTick", "flatten", "halted"}
        /\ lollipop' \in W /\ lollipop'.phase = "TIMEOUT"
    BY <1>1, <2>2, <2>4
  <2> QED
    BY <1>1, <1>4, <2>1, <2>4, <2>5, <2>6, <2>7, QuietStep
<1>12. CASE exits
  <2>1. t.action \in {"tp", "force"} /\ ~replaces /\ position > 0
    BY <1>c, <1>d, <1>9, <1>12 DEF Answers
  <2>2. /\ t.workflow \in W /\ t.workflow.phase \in {"ACTIVE", "TIMEOUT"}
        /\ t.workflow.forced => t.action = "force" /\ t.workflow.phase = "TIMEOUT"
    BY <1>9, <2>1 DEF Answers
  <2>3. "exit" \notin Active
    <3>1. t.action = "tp" => w.phase = "SCHEDULED"
      BY <1>9 DEF Answers
    <3> QED
      BY <1>c, <1>8, <2>1, <3>1
  <2>4. ~(n > 0)
    BY <1>1, <2>1, <2>2
  <2>5. Track("exit", position) /\ plan'.entry = "" /\ plan'.exit = OrderKind(t.action)
    BY <1>1, <1>2, <1>10, <1>12, <2>4
  <2>6. pc' = IF cancelEntry THEN "entryCancel" ELSE "exit"
    <3>1. pc' = After("decide", p) /\ p.entry = "" /\ p.exit # ""
      BY <1>2, <1>10, <2>1, <2>5
    <3> QED
      BY <1>10, <3>1, NextStage
  <2>7. "exit" \in ToSubmit' /\ "entry" \notin ToSubmit'
    BY <1>10, <2>5, <2>6 DEF ToSubmit, Slots
  <2>8. StageOk'
    BY <1>1, <1>2, <1>3, <1>10, <2>5, <2>6 DEF StageOk, Stages, InBook
  <2>9. /\ lollipop' \in W /\ lollipop'.phase \in {"ACTIVE", "TIMEOUT"}
        /\ lollipop'.forced => lollipop'.phase = "TIMEOUT" /\ plan'.exit # "limit"
        /\ pc' \notin {"decide", "exitCancel", "flattenTick", "flatten", "halted"}
    BY <1>1, <2>2, <2>5, <2>6 DEF OrderKind
  <2> QED
    BY <1>1, <1>4, <2>1, <2>3, <2>5, <2>7, <2>8, <2>9, ExitTracked
<1>13. CASE ~replaces /\ ~exits
  <2>1. t.action = "none"
    BY <1>c, <1>d, <1>13
  <2>2. /\ t.workflow \in W /\ t.workflow.forced = FALSE
        /\ position > 0 => t.workflow = w
    BY <1>9, <2>1 DEF Answers
  <2>3. /\ position > 0 => lollipop'.phase # "IDLE"
        /\ "exit" \in Active => lollipop'.phase \in {"ACTIVE", "TIMEOUT"}
        /\ lollipop' \in W /\ lollipop'.forced = FALSE
    BY <1>1, <1>7, <1>8, <2>2
  <2>4. plan'.exit = "" /\ pc' = After("decide", p)
    BY <1>2, <1>10, <1>13
  <2>5. CASE n > 0
    <3>0. "entry" \notin Active /\ ~cancelEntry /\ ~(position > 0)
      BY <1>1, <2>3, <2>5
    <3>1. "entry" \notin Active /\ ~cancelEntry /\ position = 0 /\ "exit" \notin Active
      <4>1. position \in Nat
        BY <1>6
      <4>2. position = 0
        BY <3>0, <4>1
      <4> QED
        BY <1>7, <3>0, <4>2
    <3>2. Track("entry", n) /\ plan'.entry = kind /\ pc' = "entry"
      <4>1. p.entry = kind /\ p.entry # "" /\ ~p.entryCancel
        BY <1>10, <2>5, <3>1
      <4> QED
        BY <1>1, <1>2, <1>13, <2>4, <2>5, <4>1, NextStage
    <3>3. "entry" \in ToSubmit' /\ "exit" \notin ToSubmit'
      BY <2>4, <3>2 DEF ToSubmit, Slots
    <3>4. n \in 1 .. MaxQty /\ n \in 0 .. MaxQty /\ n \in Nat
      <4>1. n \in Nat /\ n <= MaxQty /\ MaxQty \in Nat
        BY DryRunAssumption
      <4> QED
        BY <2>5, <4>1
    <3>5. /\ Books' /\ VenueStep
          /\ orders'["entry"].qty = n /\ orders'["entry"].cum = 0
          /\ \A s \in Slots : s # "entry" => (s \in Active' <=> s \in Active)
      <4>1. /\ "entry" \in Slots /\ "entry" \notin ToSubmit
            /\ \A s \in Slots : s # "entry" => (s \in ToSubmit' <=> s \in ToSubmit)
        BY <1>4, <3>3 DEF Slots
      <4> QED
        BY <1>1, <3>1, <3>2, <3>3, <3>4, <4>1, OrderTracked
    <3>6. StageOk'
      BY <1>1, <1>2, <1>3, <1>10, <2>4, <3>2 DEF StageOk, Stages, InBook
    <3>7. "exit" \notin Active' /\ position' = 0 /\ Rest("entry")' = n
      <4>1. position' = 0
        BY <1>1, <3>1
      <4>2. "exit" \notin Active'
        BY <3>1, <3>5 DEF Slots
      <4>3. n - 0 = n
        BY <3>4
      <4> QED
        BY <3>5, <4>1, <4>2, <4>3 DEF Rest
    <3>8. PositionOk'
      <4>1. 0 \in 0 .. MaxQty /\ 0 + n <= MaxQty /\ ~(0 > 0)
        BY <3>4, DryRunAssumption
      <4> QED
        BY <2>3, <3>3, <3>7, <4>1 DEF PositionOk
    <3>9. ForcedOk' /\ HaltOk'
      BY <2>3, <3>2, <3>3 DEF ForcedOk, HaltOk
    <3> QED
      BY <3>5, <3>6, <3>8, <3>9 DEF Kept, DryInv, Books
  <2>6. CASE ~(n > 0)
    <3>1. UNCHANGED orders /\ plan'.entry = "" /\ pc' \in {"entryCancel", "board"}
      BY <1>1, <1>2, <1>10, <1>13, <2>4, <2>6, NextStage
    <3>2. \A s \in Slots : s \notin ToSubmit'
      BY <2>4, <3>1 DEF ToSubmit
    <3>3. StageOk'
      BY <1>1, <1>2, <1>3, <1>10, <2>4, <3>1 DEF StageOk, Stages, InBook
    <3>4. pc' \notin {"flattenTick", "flatten", "halted"}
      BY <3>1
    <3>5. inbox = <<>> /\ UNCHANGED <<inbox, book, orders, position>>
      BY <1>1, <3>1
    <3> QED
      BY <1>4, <2>3, <3>2, <3>3, <3>4, <3>5, QuietStep
  <2> QED
    BY <2>5, <2>6
<1> QED
  BY <1>11, <1>12, <1>13

\* An exit goes to the market; its execution, and its end if the book is too thin, are
\* all there is to be told.
LEMMA ExitSentAtMarket ==
  ASSUME DryInv, inbox = <<>>, NEW depth \in Nat,
         "exit" \in ToSubmit, "entry" \notin ToSubmit, pc # "exitCancel",
         inbox' = MarketMessages("exit", orders["exit"].qty, depth),
         UNCHANGED <<book, orders, position, lollipop, plan>>, todo' = {},
         \A s \in Slots : s \notin ToSubmit',
         StageOk', HaltOk', pc' \in {"board", "entryCancel", "halted"},
         pc' = "entryCancel" => plan.exit # "limit"
  PROVE  Kept
<1>1. /\ Books' /\ VenueStep
      /\ \A i \in DOMAIN inbox' : inbox'[i].slot = "exit"
      /\ \A s \in Slots : (s \in Active' <=> s \in Active) /\ (s \in InBook' <=> s \in InBook)
  <2>1. \A s \in Slots : s \in ToSubmit' <=> s \in ToSubmit /\ s # "exit"
    BY DEF Slots
  <2>2. UNCHANGED <<book, orders>>
    OBVIOUS
  <2> QED
    BY <2>1, <2>2, MarketSent
<1>2. PositionOk /\ ForcedOk /\ BookOk("exit") /\ ~HasEnd("exit")
  BY NothingPending DEF DryInv, BooksOk, Slots
<1>3. PositionOk'
  BY <1>1, <1>2 DEF PositionOk, Rest, Slots
<1>4. \A i \in DOMAIN inbox' : ~IsFill(inbox'[i], "entry")
  BY <1>1 DEF IsFill
<1>5. lollipop.forced =>
        /\ lollipop.phase = "TIMEOUT" /\ "exit" \in Active
        /\ "exit" \notin InBook /\ Rest("exit") = position
  BY <1>2 DEF ForcedOk
<1>6. Rest("exit")' = Rest("exit")
  BY DEF Rest
<1>7. ForcedOk'
  BY <1>1, <1>4, <1>5, <1>6 DEF ForcedOk, Slots
<1> QED
  BY <1>1, <1>3, <1>7 DEF Kept, DryInv, Books

\* The other submissions: a limit order, or an entry at the market, while no forced exit
\* is owed.
LEMMA OtherSent ==
  ASSUME DryInv, inbox = <<>>, NEW x \in Slots, NEW kind \in {"limit", "market"},
         NEW ahead \in 0 .. MaxQty, NEW depth \in Nat, Send(x, kind, ahead, depth),
         x \in ToSubmit, \A s \in Slots : s # x => s \notin ToSubmit,
         UNCHANGED <<todo, orders, position, lollipop, plan>>, todo = {},
         x = "entry" \/ kind = "limit",
         lollipop.forced = FALSE, pc' = "board"
  PROVE  Kept
<1>1. \A s \in Slots : s \notin ToSubmit'
  BY DEF ToSubmit
<1>2. \A s \in Slots : s \in ToSubmit' <=> s \in ToSubmit /\ s # x
  BY <1>1
<1>3. /\ Books' /\ VenueStep
      /\ \A s \in Slots : s \in Active' <=> s \in Active
  <2>1. CASE kind = "limit"
    <3>1. book' = [book EXCEPT ![x] = Queued(orders[x].qty, ahead)] /\ inbox' = <<Ack(x)>>
      BY <2>1 DEF Send
    <3>2. UNCHANGED orders /\ todo' = {}
      OBVIOUS
    <3> QED
      BY <1>2, <3>1, <3>2, LimitSent
  <2>2. CASE kind = "market"
    <3>1. inbox' = MarketMessages(x, orders[x].qty, depth) /\ UNCHANGED book
      BY <2>2 DEF Send
    <3>2. UNCHANGED <<book, orders>> /\ todo' = {}
      BY <3>1
    <3> QED
      BY <1>2, <3>1, <3>2, MarketSent
  <2> QED
    BY <2>1, <2>2
<1>4. StageOk'
  BY DEF DryInv, StageOk, Stages, InBook
<1>5. PositionOk'
  BY <1>1, <1>3 DEF DryInv, PositionOk, Rest, Slots
<1>6. ForcedOk' /\ HaltOk'
  BY <1>1 DEF ForcedOk, HaltOk, Slots
<1> QED
  BY <1>3, <1>4, <1>5, <1>6 DEF Kept, DryInv, Books

\* An order of the plan, the deferred exit or the one of the hard kill is submitted.
LEMMA SubmitKeeps ==
  ASSUME DryInv, NEW ahead \in 0 .. MaxQty, NEW depth \in Nat, Submit(ahead, depth)
  PROVE  Kept
<1>1. UNCHANGED <<todo, orders, position, lollipop, plan>>
  BY DEF Submit
<1>2. StageOk /\ HaltOk
  BY DEF DryInv
<1>3. CASE /\ At("entry") /\ Send("entry", plan.entry, ahead, depth)
           /\ pc' = After("entry", [plan EXCEPT !.entry = ""])
  <2>1. /\ pc = "entry" /\ inbox = <<>> /\ todo = {}
        /\ plan \in Plans /\ plan.entry \in {"limit", "market"} /\ plan.exit = ""
    BY <1>2, <1>3 DEF At, StageOk, Plans, Kinds
  <2>2. pc' = "board"
    <3> PICK p : p = [plan EXCEPT !.entry = ""]
      OBVIOUS
    <3>1. p.entry = "" /\ p.exit = ""
      BY <2>1 DEF Plans
    <3> QED
      BY <1>3, <3>1, NextStage
  <2>3. "entry" \in ToSubmit /\ "exit" \notin ToSubmit
    BY <1>2, <2>1, ToSubmitIs
  <2>4. lollipop.forced = FALSE
    BY <2>1, <2>3, NotForced
  <2>5. "entry" \in Slots /\ \A s \in Slots : s # "entry" => s \notin ToSubmit
    BY <2>3 DEF Slots
  <2> QED
    BY <1>1, <1>3, <2>1, <2>2, <2>3, <2>4, <2>5, OtherSent
<1>4. CASE /\ At("exit") /\ Send("exit", plan.exit, ahead, depth)
           /\ pc' = "board"
  <2>1. /\ pc = "exit" /\ inbox = <<>> /\ todo = {}
        /\ plan \in Plans /\ plan.exit \in {"limit", "market"}
    BY <1>2, <1>4 DEF At, StageOk, Plans, Kinds
  <2>2. "exit" \in ToSubmit /\ "entry" \notin ToSubmit
    BY <1>2, <2>1, ToSubmitIs
  <2>3. CASE plan.exit = "limit"
    <3>1. lollipop.forced = FALSE
      BY <2>1, <2>3 DEF DryInv, ForcedOk, PositionOk
    <3>2. "exit" \in Slots /\ \A s \in Slots : s # "exit" => s \notin ToSubmit
      BY <2>2 DEF Slots
    <3> QED
      BY <1>1, <1>4, <2>1, <2>2, <2>3, <3>1, <3>2, OtherSent
  <2>4. CASE plan.exit = "market"
    <3>1. inbox' = MarketMessages("exit", orders["exit"].qty, depth) /\ UNCHANGED book
      BY <1>4, <2>4 DEF Send
    <3>2. \A s \in Slots : s \notin ToSubmit'
      BY <1>4 DEF ToSubmit
    <3>3. StageOk' /\ HaltOk'
      BY <1>1, <1>2, <1>4, <2>1, <3>1 DEF StageOk, HaltOk, Stages, InBook
    <3>4. /\ pc # "exitCancel" /\ pc' \in {"board", "entryCancel", "halted"}
          /\ pc' = "entryCancel" => plan.exit # "limit"
          /\ UNCHANGED <<book, orders, position, lollipop, plan>> /\ todo' = {}
      BY <1>1, <1>4, <2>1, <3>1
    <3> QED
      BY <2>1, <2>2, <3>1, <3>2, <3>3, <3>4, ExitSentAtMarket
  <2> QED
    BY <2>1, <2>3, <2>4
<1>5. CASE /\ At("deferred") /\ Send("exit", "market", ahead, depth)
           /\ pc' = After("release", plan)
  <2>1. /\ pc = "deferred" /\ inbox = <<>> /\ todo = {}
        /\ plan \in Plans /\ plan.exit = "" /\ plan.entry = ""
    BY <1>2, <1>5 DEF At, StageOk
  <2>2. "exit" \in ToSubmit /\ "entry" \notin ToSubmit
    BY <1>2, <2>1, ToSubmitIs
  <2>3. pc' \in {"board", "entryCancel"}
    BY <1>5, <2>1, NextStage
  <2>4. inbox' = MarketMessages("exit", orders["exit"].qty, depth) /\ UNCHANGED book
    BY <1>5 DEF Send
  <2>5. \A s \in Slots : s \notin ToSubmit'
    BY <1>1, <2>1, <2>3 DEF ToSubmit
  <2>6. StageOk' /\ HaltOk'
    BY <1>1, <1>2, <2>1, <2>3, <2>4 DEF StageOk, HaltOk, Stages, InBook
  <2>7. /\ pc # "exitCancel" /\ pc' \in {"board", "entryCancel", "halted"}
        /\ pc' = "entryCancel" => plan.exit # "limit"
        /\ UNCHANGED <<book, orders, position, lollipop, plan>> /\ todo' = {}
    BY <1>1, <2>1, <2>3, <2>4
  <2> QED
    BY <2>1, <2>2, <2>4, <2>5, <2>6, <2>7, ExitSentAtMarket
<1>6. CASE /\ At("flatten") /\ Send("exit", "market", ahead, depth)
           /\ pc' = "halted"
  <2>1. pc = "flatten" /\ inbox = <<>> /\ todo = {} /\ plan \in Plans
    BY <1>2, <1>6 DEF At, StageOk
  <2>2. "exit" \in ToSubmit /\ "entry" \notin ToSubmit
    BY <1>2, <2>1, ToSubmitIs
  <2>4. inbox' = MarketMessages("exit", orders["exit"].qty, depth) /\ UNCHANGED book
    BY <1>6 DEF Send
  <2>5. \A s \in Slots : s \notin ToSubmit'
    BY <1>6 DEF ToSubmit
  <2>6. StageOk' /\ HaltOk'
    BY <1>1, <1>2, <1>6, <2>1, <2>4 DEF StageOk, HaltOk, Stages, InBook, Active, Rest
  <2>7. /\ pc # "exitCancel" /\ pc' \in {"board", "entryCancel", "halted"}
        /\ pc' = "entryCancel" => plan.exit # "limit"
        /\ UNCHANGED <<book, orders, position, lollipop, plan>> /\ todo' = {}
    BY <1>1, <1>6, <2>1, <2>4
  <2> QED
    BY <2>1, <2>2, <2>4, <2>5, <2>6, <2>7, ExitSentAtMarket
<1> QED
  BY <1>3, <1>4, <1>5, <1>6 DEF Submit

-------------------------------------------------------------------------------
(***************************************************************************)
(* A message is told to the strategy.                                      *)
(***************************************************************************)

\* What a message says, in terms of the ledger, and what follows for the position and
\* the workflow.
Delivered(x, o, n) ==
  /\ Told(x, o, n)
  /\ o.status = "canceled" <=> IsEnd(inbox[1], x)
  /\ position' = PositionAfter(position, x, n)
  /\ lollipop' =
       WorkflowAfterFinal(WorkflowAfterFill(lollipop, position, x, n), position', x, o)

\* Whatever is told is one of the three: an execution, an acknowledgement, an end.
LEMMA DeliverIs ==
  ASSUME DryInv, Deliver
  PROVE  \E x \in Slots, n \in 0 .. MaxQty : \E o : Delivered(x, o, n)
<1>1. OrdersOk /\ InboxOk
  BY DEF DryInv
<1>2. /\ inbox # <<>> /\ todo = {} /\ inbox' = Tail(inbox)
      /\ UNCHANGED <<pc, todo, book, plan>>
  BY DEF Deliver
<1>3. /\ Head(inbox) = inbox[1] /\ 1 \in DOMAIN inbox /\ inbox[1] \in Messages
      /\ \A i \in DOMAIN inbox : i \in 1 .. Len(inbox)
      /\ Len(inbox) \in Nat
  BY <1>1, <1>2, TailPlaces DEF InboxOk
<1> PICK m : m = inbox[1]
  OBVIOUS
<1> PICK i \in DOMAIN inbox : i = 1
  BY <1>3
<1> PICK x \in Slots : x = m.slot
  BY <1>3, MessageFields
<1> PICK e : e = m.event
  OBVIOUS
<1>4. IF m.kind = "fill"
      THEN Apply(x, AfterFillEvent(orders[x], e), FillEventFill(orders[x], e))
      ELSE Apply(x, AfterOrderEvent(orders[x], e), OrderEventFill(orders[x], e))
  BY <1>3 DEF Deliver
<1>5. OrderOk(orders[x]) /\ ~IsFinal(orders[x])
  BY <1>1, <1>3 DEF OrdersOk, InboxOk, Active
<1>6. CASE m.kind = "fill"
  <2>1. IsFill(inbox[i], x) /\ ~IsEnd(inbox[i], x)
    BY <1>6 DEF IsFill, IsEnd
  <2>2. /\ e.qty \in 1 .. MaxQty /\ e.priced = TRUE /\ e.broker = NoBroker
        /\ e.trade = orders[x].cum + e.qty
        /\ orders[x].cum + e.qty <= orders[x].qty
    BY <1>1, <1>3, <1>6, <2>1, MessageFields DEF InboxOk
  <2> PICK n \in 1 .. MaxQty : n = e.qty
    BY <2>2
  <2> PICK o : o = AfterFillEvent(orders[x], e)
    OBVIOUS
  <2>3. /\ FillEventFill(orders[x], e) = n
        /\ OrderOk(o) /\ o.qty = orders[x].qty /\ o.cum = orders[x].cum + n
        /\ o.status # "canceled" /\ (IsFinal(o) <=> orders[x].cum + n = orders[x].qty)
    <3>1. /\ e.qty = n /\ e.trade = orders[x].cum + n /\ orders[x].cum + n <= orders[x].qty
          /\ e.priced = TRUE /\ e.broker = NoBroker
      BY <2>2
    <3> QED
      BY <1>5, <3>1, FillEffect
  <2>4. Apply(x, o, n)
    BY <1>4, <1>6, <2>3
  <2>5. /\ orders' = [orders EXCEPT ![x] = o]
        /\ position' = PositionAfter(position, x, n)
        /\ lollipop' = WorkflowAfterFinal(WorkflowAfterFill(lollipop, position, x, n), position', x, o)
    BY <2>4 DEF Apply
  <2>6. Told(x, o, n)
    BY <1>2, <1>6, <2>3, <2>5 DEF Told
  <2>7. n \in 0 .. MaxQty
    BY DryRunAssumption
  <2>8. Delivered(x, o, n)
    BY <2>1, <2>3, <2>5, <2>6 DEF Delivered
  <2> QED
    BY <2>7, <2>8
<1>7. CASE m.kind # "fill"
  <2>1. m.kind = "order" /\ e.status \in {"working", "canceled"}
    BY <1>3, <1>7, MessageFields
  <2>2. /\ IsAck(inbox[i], x) <=> e.status = "working"
        /\ IsEnd(inbox[i], x) <=> e.status = "canceled"
    BY <2>1 DEF IsAck, IsEnd
  <2>3. e.cum \in {NoCum, orders[x].cum}
    <3>1. CASE IsAck(inbox[i], x)
      BY <1>1, <3>1 DEF InboxOk
    <3>2. CASE IsEnd(inbox[i], x)
      <4>1. i = Len(inbox) /\ e.cum \in {NoCum, orders[x].cum + PendingFills(x)}
        BY <1>1, <3>2 DEF InboxOk
      <4>2. \A j \in DOMAIN inbox : j = i
        BY <1>3, <4>1
      <4>3. PendingFills(x) = 0
        <5>1. \A j \in DOMAIN inbox : ~IsFill(inbox[j], x)
          BY <1>7, <4>2 DEF IsFill
        <5> QED
          BY <5>1, PendingNone, PendingIs
      <4>4. orders[x].cum + 0 = orders[x].cum
        BY <1>1, PendingRange
      <4> QED
        BY <4>1, <4>3, <4>4
    <3> QED
      BY <2>1, <2>2, <3>1, <3>2
  <2> PICK o : o = AfterOrderEvent(orders[x], e)
    OBVIOUS
  <2> PICK n \in 0 .. MaxQty : n = 0
    BY DryRunAssumption
  <2>4. /\ OrderEventFill(orders[x], e) = n
        /\ OrderOk(o) /\ o.qty = orders[x].qty /\ o.cum = orders[x].cum
        /\ (IsFinal(o) <=> e.status = "canceled")
        /\ (o.status = "canceled" <=> e.status = "canceled")
    BY <1>5, <2>1, <2>3, ReportEffect
  <2>5. o.cum = orders[x].cum + n
    <3>1. orders[x].cum \in Nat
      BY <1>1, PendingRange
    <3> QED
      BY <2>4, <3>1
  <2>6. Apply(x, o, n)
    BY <1>4, <1>7, <2>4
  <2>7. /\ orders' = [orders EXCEPT ![x] = o]
        /\ position' = PositionAfter(position, x, n)
        /\ lollipop' = WorkflowAfterFinal(WorkflowAfterFill(lollipop, position, x, n), position', x, o)
    BY <2>6 DEF Apply
  <2>8. Told(x, o, n)
    BY <1>2, <2>1, <2>2, <2>4, <2>5, <2>7 DEF Told
  <2>9. Delivered(x, o, n)
    BY <2>2, <2>4, <2>7, <2>8 DEF Delivered
  <2> QED
    BY <2>9
<1> QED
  BY <1>6, <1>7

\* What is told keeps the position and the workflow right.
LEMMA DeliveredKeeps ==
  ASSUME DryInv, NEW x \in Slots, NEW n \in 0 .. MaxQty, NEW o, Delivered(x, o, n)
  PROVE  Kept
<1>1. /\ Told(x, o, n)
      /\ o.status = "canceled" <=> IsEnd(inbox[1], x)
      /\ position' = PositionAfter(position, x, n)
      /\ lollipop' =
           WorkflowAfterFinal(WorkflowAfterFill(lollipop, position, x, n), position', x, o)
  BY DEF Delivered
<1>2. StageOk /\ InboxOk /\ PositionOk /\ ForcedOk /\ HaltOk
  BY DEF DryInv
<1>3. /\ Books' /\ VenueStep
      /\ x \in Active /\ x \notin ToSubmit
      /\ x \in Active' <=> ~IsFinal(o)
      /\ \A s \in Slots : s # x => orders'[s] = orders[s] /\ (s \in Active' <=> s \in Active)
      /\ \A s \in Slots : s \in InBook' <=> s \in InBook
      /\ \A s \in Slots : s \in ToSubmit' <=> s \in ToSubmit
      /\ orders'[x] = o
      /\ \A s \in Slots : HasEnd(s) /\ s \in Active' => HasEnd(s)'
      /\ \A i \in DOMAIN inbox' : i + 1 \in DOMAIN inbox /\ inbox'[i] = inbox[i + 1]
  BY <1>1, MessageTold
<1>4. /\ inbox # <<>> /\ todo = {} /\ UNCHANGED <<pc, todo, book, plan>>
      /\ o.qty = orders[x].qty /\ o.cum = orders[x].cum + n
  BY <1>1 DEF Told
<1>5. /\ \A s \in Slots : orders[s].cum \in Nat /\ orders[s].qty \in Nat
      /\ n \in Nat /\ MaxQty \in Nat
      /\ \A s \in Slots : s \in Active => orders[s].cum < orders[s].qty
  <2>1. \A s \in Slots : orders[s].cum \in Nat /\ orders[s].qty \in Nat
    BY PendingRange DEF DryInv
  <2>2. n \in Nat /\ MaxQty \in Nat
    BY DryRunAssumption
  <2>3. \A s \in Slots : s \in Active => orders[s].cum < orders[s].qty
    BY DEF DryInv, OrdersOk, OrderOk, Active
  <2> QED
    BY <2>1, <2>2, <2>3
<1>6. /\ position \in Nat /\ position <= MaxQty
      /\ lollipop \in [phase : Phases, retry : Nat, forced : BOOLEAN]
      /\ position > 0 => lollipop.phase # "IDLE"
  <2>1. position \in 0 .. MaxQty
    BY <1>2 DEF PositionOk
  <2>2. position \in Nat /\ position <= MaxQty
    BY <1>5, <2>1
  <2> QED
    BY <1>2, <2>2 DEF PositionOk
<1>7. /\ "exit" \in Active => /\ Rest("exit") <= position /\ position > 0
                              /\ lollipop.phase \in {"ACTIVE", "TIMEOUT"}
      /\ "entry" \in Active => position + Rest("entry") <= MaxQty
  <2>1. "exit" \in Active => Rest("exit") <= position
    BY <1>2 DEF PositionOk
  <2>2. "exit" \in Active => Rest("exit") >= 1 /\ Rest("exit") \in Nat
    BY <1>5 DEF Rest, Slots
  <2>3. "exit" \in Active => position > 0
    BY <1>6, <2>1, <2>2
  <2> QED
    BY <1>2, <2>1, <2>3 DEF PositionOk
<1>8. /\ Rest(x)' = Rest(x) - n /\ n <= Rest(x)
      /\ Rest(x) \in Nat /\ Rest(x) >= 1
      /\ \A s \in Slots : s # x => Rest(s)' = Rest(s)
  <2>1. o.cum <= o.qty
    BY <1>1, DryRunAssumption DEF Told, OrderOk
  <2>2. /\ orders[x].cum \in Nat /\ orders[x].qty \in Nat
        /\ orders[x].cum < orders[x].qty
    BY <1>3, <1>5
  <2>3. Rest(x)' = orders[x].qty - (orders[x].cum + n)
    BY <1>3, <1>4 DEF Rest
  <2>4. \A s \in Slots : s # x => Rest(s)' = Rest(s)
    BY <1>3 DEF Rest
  <2> QED
    BY <1>4, <1>5, <2>1, <2>2, <2>3, <2>4 DEF Rest
<1>9. pc \notin {"exitCancel", "deferred", "flattenTick", "flatten"} /\ StageOk'
  BY <1>2, <1>4 DEF StageOk, InBook
<1>10. lollipop.forced =>
         /\ lollipop.phase = "TIMEOUT" /\ "exit" \in Active /\ "exit" \notin InBook
         /\ Rest("exit") = position \/ HasEnd("exit")
         /\ pc # "decide" /\ \A i \in DOMAIN inbox : ~IsFill(inbox[i], "entry")
  BY <1>2, <1>9 DEF ForcedOk
<1>11. \A i \in DOMAIN inbox' : IsFill(inbox'[i], "entry") =>
         \E j \in DOMAIN inbox : IsFill(inbox[j], "entry")
  BY <1>3
<1>12. "exit" \in ToSubmit' =>
         pc' # "decide" /\ \A i \in DOMAIN inbox' : ~IsFill(inbox'[i], "entry")
  BY <1>2, <1>3, <1>4, <1>11 DEF ForcedOk, Slots
<1>13. "exit" \in ToSubmit' => x # "exit" /\ orders'["exit"].qty = position
  BY <1>2, <1>3 DEF PositionOk, Slots
\* Whatever stays forced stays right.
<1>14. ASSUME lollipop'.forced => lollipop' = lollipop /\ "exit" \in Active'
                /\ (Rest("exit") = position => Rest("exit")' = position')
       PROVE  ForcedOk'
  <2>1. lollipop'.forced =>
          /\ pc' # "decide" /\ \A i \in DOMAIN inbox' : ~IsFill(inbox'[i], "entry")
          /\ lollipop'.phase = "TIMEOUT" /\ "exit" \in Active' /\ "exit" \notin InBook'
          /\ Rest("exit")' = position' \/ HasEnd("exit")'
    BY <1>3, <1>4, <1>10, <1>11, <1>14 DEF Slots
  <2>2. lollipop'.forced /\ pc' \in {"entryCancel", "exit"} => plan'.exit # "limit"
    BY <1>2, <1>4, <1>14 DEF ForcedOk
  <2> QED
    BY <1>12, <2>1, <2>2 DEF ForcedOk
<1> DEFINE W == [phase : Phases, retry : Nat, forced : BOOLEAN]
\* And a position that is within its bounds is right.
<1>15. ASSUME position' \in 0 .. MaxQty, lollipop' \in W,
              position' > 0 => lollipop'.phase # "IDLE",
              "entry" \in Active' => position' + Rest("entry")' <= MaxQty,
              "exit" \in Active' => Rest("exit")' <= position'
                                      /\ lollipop'.phase \in {"ACTIVE", "TIMEOUT"},
              "exit" \in ToSubmit' => position' = position,
              pc = "halted" /\ position' > 0 => position' = Rest("exit")'
       PROVE  PositionOk' /\ HaltOk'
  <2>1. PositionOk'
    BY <1>13, <1>15 DEF PositionOk
  <2>2. HaltOk'
    BY <1>2, <1>3, <1>4, <1>9, <1>15 DEF HaltOk, InBook, Slots
  <2> QED
    BY <2>1, <2>2
<1>16. pc = "halted" => x = "exit" /\ (position > 0 => position = Rest("exit"))
  BY <1>2, <1>3 DEF HaltOk, Slots
<1>17. CASE n = 0
  <2>1. position' = position
    BY <1>1, <1>6, <1>17 DEF PositionAfter, Slots
  <2>2. WorkflowAfterFill(lollipop, position, x, n) = lollipop
    BY <1>17 DEF WorkflowAfterFill
  <2>3. \A s \in Slots : Rest(s)' = Rest(s)
    BY <1>8, <1>17
  <2>4. \A s \in Slots : s \in Active' => s \in Active
    BY <1>3
  <2>5. CASE ~(x = "exit" /\ o.status = "canceled")
    <3>1. lollipop' = lollipop
      BY <1>1, <2>2, <2>5 DEF WorkflowAfterFinal
    <3>2. lollipop.forced => "exit" \in Active'
      <4>1. x = "exit" => ~IsEnd(inbox[1], x) /\ (IsFinal(o) => IsEnd(inbox[1], x) \/ n # 0)
        <5>1. inbox[1].kind = "fill" => inbox[1].event.qty # 0
          <6>1. inbox[1] \in Messages
            BY <1>2, <1>4, TailPlaces DEF InboxOk
          <6>2. inbox[1].kind = "fill" => inbox[1].event.qty \in 1 .. MaxQty
            BY <6>1, MessageFields
          <6> QED
            BY <1>5, <6>2
        <5> QED
          BY <1>1, <2>5, <5>1 DEF Told
      <4>2. x = "exit" => ~IsFinal(o)
        BY <1>17, <4>1
      <4> QED
        BY <1>3, <1>10, <4>2 DEF Slots
    <3>3. ForcedOk'
      BY <1>14, <2>1, <2>3, <3>1, <3>2 DEF Slots
    <3>4. PositionOk' /\ HaltOk'
      BY <1>2, <1>6, <1>7, <1>15, <1>16, <2>1, <2>3, <2>4, <3>1 DEF Slots, PositionOk
    <3> QED
      BY <1>3, <1>9, <3>3, <3>4 DEF Kept, DryInv, Books
  <2>6. CASE x = "exit" /\ o.status = "canceled"
    <3>1. "exit" \notin Active' /\ position > 0 /\ lollipop.phase \in {"ACTIVE", "TIMEOUT"}
      <4>1. IsFinal(o)
        BY <2>6 DEF IsFinal, FinalStatus
      <4> QED
        BY <1>3, <1>7, <2>6, <4>1
    <3>2. ~(position' <= 0)
      BY <1>6, <2>1, <3>1
    <3>3. lollipop' = IF lollipop.phase = "TIMEOUT" THEN ResetForceExit(lollipop)
                      ELSE Reschedule(lollipop)
      BY <1>1, <2>2, <2>6, <3>2 DEF WorkflowAfterFinal
    <3>4. lollipop' \in W /\ lollipop'.phase # "IDLE" /\ lollipop'.forced = FALSE
      <4>1. lollipop.forced => lollipop.phase = "TIMEOUT"
        BY <1>10
      <4>2. CASE lollipop.phase = "TIMEOUT"
        BY <1>6, <3>3, <4>2 DEF ResetForceExit
      <4>3. CASE lollipop.phase = "ACTIVE"
        BY <1>6, <3>3, <4>1, <4>3 DEF Reschedule, Phases
      <4> QED
        BY <3>1, <4>2, <4>3
    <3>5. ForcedOk'
      BY <1>14, <3>4
    <3>6. PositionOk' /\ HaltOk'
      BY <1>2, <1>7, <1>15, <1>16, <2>1, <2>3, <2>4, <3>1, <3>4 DEF Slots, PositionOk
    <3> QED
      BY <1>3, <1>9, <3>5, <3>6 DEF Kept, DryInv, Books
  <2> QED
    BY <2>5, <2>6
<1>18. CASE n # 0
  <2>0. n > 0 /\ IsFill(inbox[1], x) /\ ~IsEnd(inbox[1], x)
    BY <1>1, <1>5, <1>18 DEF Told, IsFill, IsEnd
  <2>1. o.status # "canceled"
    BY <1>1, <2>0
  <2>2. lollipop' = WorkflowAfterFill(lollipop, position, x, n)
    BY <1>1, <2>1 DEF WorkflowAfterFinal
  <2>3. CASE x = "entry"
    <3>1. position' = position + n
      BY <1>1, <2>3 DEF PositionAfter
    <3>2. ~lollipop.forced /\ "exit" \notin ToSubmit'
      <4>1. 1 \in DOMAIN inbox
        BY <1>2, <1>4, TailPlaces DEF InboxOk
      <4> QED
        BY <1>2, <1>3, <2>0, <2>3, <4>1 DEF ForcedOk, Slots
    <3>3. lollipop' = IF position = 0 THEN OnEntryFill(lollipop) ELSE OnScaleInFill(lollipop)
      BY <1>18, <2>2, <2>3 DEF WorkflowAfterFill
    <3>4. /\ lollipop' \in W /\ lollipop'.phase # "IDLE" /\ ~lollipop'.forced
          /\ position > 0 => lollipop' = lollipop
      <4>1. /\ OnEntryFill(lollipop) \in W /\ OnEntryFill(lollipop).phase # "IDLE"
            /\ ~OnEntryFill(lollipop).forced
        BY DEF OnEntryFill, Phases
      <4>2. position # 0 => position > 0
        BY <1>6
      <4>3. position > 0 => OnScaleInFill(lollipop) = lollipop
        BY <1>6 DEF OnScaleInFill
      <4>4. position > 0 => position # 0
        BY <1>6
      <4> QED
        BY <1>6, <3>2, <3>3, <4>1, <4>2, <4>3, <4>4
    <3>5. ForcedOk'
      BY <1>14, <3>4
    <3>6. "entry" \in Slots /\ "exit" \in Slots /\ "exit" # x
      BY <2>3 DEF Slots
    <3>7. Rest("entry")' = Rest("entry") - n /\ n <= Rest("entry") /\ Rest("entry") \in Nat
          /\ Rest("exit")' = Rest("exit") /\ position + Rest("entry") <= MaxQty
      BY <1>3, <1>7, <1>8, <2>3, <3>6
    <3>8. position' \in 0 .. MaxQty /\ position' + Rest("entry")' <= MaxQty
      BY <1>5, <1>6, <3>1, <3>7
    <3>9. "exit" \in Active' => Rest("exit")' <= position'
                                  /\ lollipop'.phase \in {"ACTIVE", "TIMEOUT"}
      <4> HAVE "exit" \in Active'
      <4>1. "exit" \in Active
        BY <1>3, <3>6
      <4>2. Rest("exit") <= position /\ position > 0 /\ lollipop.phase \in {"ACTIVE", "TIMEOUT"}
        BY <1>7, <4>1
      <4>3. Rest("exit") \in Int
        BY <1>5, <3>6 DEF Rest
      <4>4. Rest("exit") <= position + n
        BY <1>5, <1>6, <4>2, <4>3
      <4> QED
        BY <3>1, <3>4, <3>7, <4>2, <4>4
    <3>10. PositionOk' /\ HaltOk'
      BY <1>15, <1>16, <2>3, <3>2, <3>4, <3>8, <3>9
    <3> QED
      BY <1>3, <1>9, <3>5, <3>10 DEF Kept, DryInv, Books
  <2>4. CASE x = "exit"
    <3>1. n <= position /\ position > 0 /\ ~(position <= 0) /\ Rest("exit") <= position
      <4>1. Rest("exit") <= position /\ n <= Rest("exit") /\ Rest("exit") \in Nat /\ position > 0
        BY <1>3, <1>7, <1>8, <2>4
      <4> QED
        BY <1>5, <1>6, <4>1
    <3>2. position' = position - n
      <4>1. position' = IF n < position THEN position - n ELSE 0
        BY <1>1, <2>4, <3>1 DEF PositionAfter
      <4> QED
        BY <1>5, <1>6, <3>1, <4>1
    <3>3. lollipop' = IF n >= position THEN Idle ELSE lollipop
      <4>1. position # 0
        BY <3>1
      <4> QED
        BY <1>18, <2>2, <2>4, <4>1 DEF WorkflowAfterFill, OnExitFill
    <3>4. /\ lollipop' \in W
          /\ n < position => lollipop' = lollipop
          /\ lollipop'.forced => n < position /\ lollipop.forced
      <4>1. Idle \in W /\ ~Idle.forced
        BY DEF Idle, Phases
      <4>2. n < position <=> ~(n >= position)
        BY <1>5, <1>6
      <4> QED
        BY <1>6, <3>3, <4>1, <4>2
    <3>5. /\ Rest("exit")' = Rest("exit") - n /\ n <= Rest("exit") /\ Rest("exit") \in Nat
          /\ Rest("entry")' = Rest("entry") /\ Rest("entry") \in Int
          /\ "entry" \in Active' => position + Rest("entry") <= MaxQty
      <4>1. "entry" \in Slots /\ "entry" # x /\ Rest("entry") \in Int
        BY <1>5, <2>4 DEF Rest, Slots
      <4> QED
        BY <1>3, <1>7, <1>8, <2>4, <4>1
    <3>6. "exit" \in Active' => Rest("exit") # n
      <4> HAVE "exit" \in Active'
      <4>1. orders'["exit"].cum < orders'["exit"].qty
        BY <1>3, <2>4 DEF Books, OrdersOk, OrderOk, Active
      <4>2. orders["exit"].cum + n < orders["exit"].qty
        BY <1>3, <1>4, <2>4, <4>1
      <4> QED
        BY <1>5, <2>4, <4>2 DEF Rest
    <3>7. lollipop'.forced => "exit" \in Active'
      <4> HAVE lollipop'.forced
      <4>1. lollipop.forced /\ n < position
        BY <3>4
      <4>2. orders["exit"].cum + n # orders["exit"].qty
        <5>1. CASE Rest("exit") = position
          BY <1>5, <1>6, <2>4, <4>1, <5>1 DEF Rest
        <5>2. CASE HasEnd("exit")
          <6>1. orders["exit"].cum + PendingFills("exit") < orders["exit"].qty
            BY <1>2, <2>4, <5>2 DEF InboxOk, HasEnd
          <6>2. PendingFills("exit") = n
            <7> PICK i \in DOMAIN inbox : i = 1
              BY <1>2, <1>4, TailPlaces DEF InboxOk
            <7>1. /\ IsFill(inbox[i], "exit")
                  /\ \A j \in DOMAIN inbox : IsFill(inbox[j], "exit") => j = i
              BY <1>2, <2>0, <2>4 DEF InboxOk
            <7>2. PendingFills("exit") = inbox[i].event.qty
              BY <7>1, PendingOne, PendingIs
            <7>3. n = inbox[i].event.qty
              BY <1>1, <2>0 DEF Told, IsFill, IsAck, IsEnd
            <7> QED
              BY <7>2, <7>3
          <6>3. orders["exit"].cum \in Nat /\ orders["exit"].qty \in Nat
            BY <1>5, <2>4
          <6> QED
            BY <1>5, <6>1, <6>2, <6>3
        <5> QED
          BY <1>10, <4>1, <5>1, <5>2
      <4>3. ~IsFinal(o)
        BY <1>1, <2>0, <2>4, <4>2 DEF Told, IsFill, IsAck, IsEnd
      <4> QED
        BY <1>3, <2>4, <4>3
    <3>8. ForcedOk'
      BY <1>14, <3>2, <3>4, <3>5, <3>7
    <3>9. position' \in 0 .. MaxQty
      BY <1>5, <1>6, <3>1, <3>2
    <3>10. /\ position' > 0 => lollipop'.phase # "IDLE"
           /\ "entry" \in Active' => position' + Rest("entry")' <= MaxQty
      <4>1. position' > 0 => n < position
        BY <1>5, <1>6, <3>2
      <4>2. "entry" \in Active' => position - n + Rest("entry") <= MaxQty
        BY <1>5, <1>6, <3>5
      <4> QED
        BY <1>6, <3>1, <3>2, <3>4, <3>5, <4>1, <4>2
    <3>11. "exit" \in Active' => Rest("exit")' <= position'
                                   /\ lollipop'.phase \in {"ACTIVE", "TIMEOUT"}
      <4> HAVE "exit" \in Active'
      <4>1. n < Rest("exit") /\ Rest("exit") <= position /\ n < position
        BY <1>5, <1>6, <3>1, <3>5, <3>6
      <4>2. Rest("exit") - n <= position - n
        BY <1>5, <1>6, <3>5, <4>1
      <4> QED
        BY <1>3, <1>7, <2>4, <3>2, <3>4, <3>5, <4>1, <4>2
    <3>12. pc = "halted" /\ position' > 0 => position' = Rest("exit")'
      BY <1>16, <3>1, <3>2, <3>5
    <3>13. "exit" \notin ToSubmit'
      BY <1>3, <2>4
    <3>14. PositionOk' /\ HaltOk'
      BY <1>15, <3>4, <3>9, <3>10, <3>11, <3>12, <3>13
    <3> QED
      BY <1>3, <1>9, <3>8, <3>14 DEF Kept, DryInv, Books
  <2> QED
    BY <2>3, <2>4 DEF Slots
<1> QED
  BY <1>17, <1>18

\* The two together: whatever is told, the invariant holds.
LEMMA DeliverKeeps == ASSUME DryInv, Deliver PROVE Kept
BY DeliverIs, DeliveredKeeps

-------------------------------------------------------------------------------
(***************************************************************************)
(* The theorems.                                                           *)
(***************************************************************************)

\* Initially there is nothing: no order, no message, no position.
LEMMA InitKept == Init => DryInv /\ V!Init
<1> SUFFICES ASSUME Init PROVE DryInv /\ V!Init
  OBVIOUS
<1>1. /\ pc = "board" /\ todo = {} /\ inbox = <<>> /\ position = 0 /\ lollipop = Idle
      /\ book = [s \in Slots |-> NotQueued] /\ orders = [s \in Slots |-> Absent]
      /\ plan = NoPlan
  BY DEF Init
<1>2. /\ DOMAIN Absent = OrderFields /\ Absent.qty = 0 /\ Absent.cum = 0
      /\ Absent.anchored = TRUE /\ Absent.status = "canceled" /\ Absent.seen = {}
  BY DEF Absent, NewOrder, OrderFields
<1>3. OrderOk(Absent) /\ IsFinal(Absent)
  BY <1>2, DryRunAssumption DEF OrderOk, IsFinal, FinalStatus
<1>4. OrdersOk /\ Active = {} /\ InBook = {}
  BY <1>1, <1>3 DEF OrdersOk, Active, InBook
<1>5. plan \in Plans /\ plan.entry = "" /\ plan.exit = ""
  BY <1>1 DEF NoPlan, Plans, Kinds
<1>6. \A s \in Slots : s \notin ToSubmit
  BY <1>1 DEF ToSubmit
<1>7. \A s : PendingFills(s) = 0 /\ ~HasEnd(s)
  BY <1>1, NothingPending
<1>8. StageOk
  BY <1>1, <1>5 DEF StageOk, Stages
<1>9. InboxOk
  <2>1. inbox \in Seq(Messages) /\ DOMAIN inbox = {}
    BY <1>1, EmptySeq
  <2> QED
    BY <1>1, <2>1 DEF InboxOk
<1>10. BooksOk
  <2>1. NotQueued \in [leaves : Nat, ahead : Nat]
    BY DEF NotQueued, Queued
  <2> QED
    BY <1>1, <1>4, <1>6, <2>1 DEF BooksOk, BookOk
<1>11. PositionOk
  <2>1. 0 \in 0 .. MaxQty /\ ~(0 > 0)
    BY DryRunAssumption
  <2>2. Idle \in [phase : Phases, retry : Nat, forced : BOOLEAN]
    BY DEF Idle, Phases
  <2> QED
    BY <1>1, <1>4, <1>6, <2>1, <2>2 DEF PositionOk, Slots
<1>12. ForcedOk /\ HaltOk
  BY <1>1, <1>4, <1>6 DEF ForcedOk, HaltOk, Idle, Slots
<1>13. V!Init
  <2>1. \A s \in Slots : LifeOf(s) = "free"
    BY <1>4, <1>6 DEF LifeOf
  <2>2. \A s \in Slots : /\ orders[s].qty = 0 /\ orders[s].cum = 0
                         /\ orders[s].cum + PendingFills(s) = 0
    BY <1>1, <1>2, <1>7
  <2> QED
    BY <2>1, <2>2 DEF V!Init
<1> QED
  BY <1>4, <1>8, <1>9, <1>10, <1>11, <1>12, <1>13 DEF DryInv

\* Every step keeps the invariant, and is a step of Venue or one Venue does not see.
LEMMA StepKept == DryInv /\ [Next]_vars => Kept
<1> SUFFICES ASSUME DryInv, [Next]_vars PROVE Kept
  OBVIOUS
<1>1. ASSUME Deliver PROVE Kept
  BY <1>1, DeliverKeeps
<1>2. ASSUME Board PROVE Kept
  BY <1>2, BoardKeeps
<1>3. ASSUME LookAtOne PROVE Kept
  <2>1. PICK s \in Slots, place \in Places, traded \in 0 .. 2 * MaxQty : LookAt(s, place, traded)
    BY <1>3 DEF LookAtOne
  <2>2. traded \in Nat
    BY DryRunAssumption
  <2> QED
    BY <2>1, <2>2, LookKeeps
<1>4. ASSUME DecideWith(BOOLEAN, BOOLEAN) PROVE Kept
  <2>1. PICK flip \in BOOLEAN, cancelEntry \in BOOLEAN, due \in BOOLEAN, expired \in BOOLEAN,
             n \in 0 .. MaxQty, kind \in {"limit", "market"} :
          Decide(flip, due, expired, cancelEntry, n, kind)
    BY <1>4 DEF DecideWith
  <2> QED
    BY <2>1, DecideKeeps
<1>5. ASSUME CancelStage("exitCancel", "exit") PROVE Kept
  BY <1>5, ExitCancelKeeps
<1>6. ASSUME CancelStage("entryCancel", "entry") PROVE Kept
  BY <1>6, EntryCancelKeeps
<1>7. ASSUME Release PROVE Kept
  BY <1>7, ReleaseKeeps
<1>8. ASSUME SubmitInto(0 .. MaxQty) PROVE Kept
  <2>1. PICK ahead \in 0 .. MaxQty, depth \in 0 .. MaxQty : Submit(ahead, depth)
    BY <1>8 DEF SubmitInto
  <2>2. depth \in Nat
    BY DryRunAssumption
  <2> QED
    BY <2>1, <2>2, SubmitKeeps
<1>9. ASSUME HardKill PROVE Kept
  BY <1>9, HardKillKeeps
<1>10. ASSUME CancelAll PROVE Kept
  BY <1>10, CancelAllKeeps
<1>11. ASSUME FlattenTick PROVE Kept
  BY <1>11, FlattenTickKeeps
<1>12. ASSUME IgnoreBoard PROVE Kept
  BY <1>12, IgnoreBoardKeeps
<1>13. ASSUME UNCHANGED vars PROVE Kept
  <2>1. UNCHANGED <<pc, todo, inbox, book, orders, position, lollipop, plan>>
    BY <1>13 DEF vars
  <2>2. /\ \A s : PendingFills(s)' = PendingFills(s) /\ (HasEnd(s)' <=> HasEnd(s))
        /\ ToSubmit' = ToSubmit /\ InBook' = InBook /\ Active' = Active
        /\ \A s \in Slots : Rest(s)' = Rest(s)
    BY <2>1 DEF PendingFills, HasEnd, ToSubmit, InBook, Active, Rest
  <2>3. \A s \in Slots : SameFor(s)
    BY <2>1, <2>2 DEF SameFor, LifeOf
  <2>4. \A s \in Slots : BookOk(s)'
    BY <2>1, <2>2 DEF DryInv, BooksOk, BookOk
  <2>5. StageOk' /\ OrdersOk' /\ InboxOk' /\ BooksOk'
    BY <2>1, <2>2, <2>4 DEF DryInv, StageOk, OrdersOk, InboxOk, BooksOk
  <2>6. PositionOk' /\ ForcedOk' /\ HaltOk'
    BY <2>1, <2>2 DEF DryInv, PositionOk, ForcedOk, HaltOk, Slots
  <2> QED
    BY <2>3, <2>5, <2>6, NothingSeen DEF Kept, DryInv
<1> QED
  BY <1>1, <1>2, <1>3, <1>4, <1>5, <1>6, <1>7, <1>8, <1>9, <1>10, <1>11, <1>12, <1>13
  DEF Next, Loop

\* The inductive invariant of the dry run.
THEOREM Inductive == Spec => []DryInv
<1>1. Init => DryInv
  BY InitKept
<1>2. DryInv /\ [Next]_vars => DryInv'
  BY StepKept DEF Kept
<1> QED
  BY <1>1, <1>2, PTL DEF Spec

\* Between two boards the simulator and the ledger have the same orders with the same
\* rest, and an exit never asks for more than the position (DryRunSimulator, OrderLedger).
THEOREM BooksAlwaysAgree == Spec => []BooksAgree
<1>1. DryInv => BooksAgree
  <2> SUFFICES ASSUME DryInv, At("board") PROVE BooksAgree
    BY DEF BooksAgree
  <2>1. pc = "board" /\ inbox = <<>>
    BY DEF At
  <2>2. \A s \in Slots : s \notin ToSubmit
    BY <2>1 DEF ToSubmit
  <2>3. \A s \in Slots : s \in InBook <=> s \in Active
    BY <2>1, <2>2, Settled
  <2>4. InBook = Active
    BY <2>3 DEF InBook, Active
  <2>5. \A s \in Active : LeavesQty(orders[s]) = Rest(s)
    <3>1. \A s \in Slots : orders[s].cum \in Nat /\ orders[s].qty \in Nat
      BY PendingRange DEF DryInv
    <3>2. \A s \in Active : s \in Slots /\ orders[s].cum < orders[s].qty
      BY DEF DryInv, OrdersOk, OrderOk, Active
    <3> QED
      BY <3>1, <3>2 DEF LeavesQty, Rest
  <2>6. ASSUME NEW s \in Active PROVE book[s].leaves = LeavesQty(orders[s])
    <3>1. orders[s].cum + book[s].leaves = orders[s].qty /\ s \in Slots
      BY <2>1, <2>4, <2>6, Settled DEF Active
    <3>2. orders[s].cum \in Nat /\ orders[s].qty \in Nat /\ book[s].leaves \in Nat
      BY <3>1, PendingRange DEF DryInv, BooksOk
    <3>3. book[s].leaves = orders[s].qty - orders[s].cum
      BY <3>1, <3>2
    <3> QED
      BY <2>5, <2>6, <3>3 DEF Rest
  <2>7. position \in 0 .. MaxQty /\ ("exit" \in Active => Rest("exit") <= position)
    BY DEF DryInv, PositionOk
  <2> QED
    BY <2>4, <2>5, <2>6, <2>7 DEF BooksAgree
<1> QED
  BY <1>1, Inductive, PTL

\* A hard kill leaves nothing at work, and of the position only what the one order for
\* all of it did not find in the book (_emergency_flatten_simulator).
THEOREM KillFlattens == Spec => []HaltFlattens
<1>1. DryInv => HaltFlattens
  <2> SUFFICES ASSUME DryInv, At("halted") PROVE HaltFlattens
    BY DEF HaltFlattens
  <2>1. pc = "halted" /\ inbox = <<>>
    BY DEF At
  <2>2. \A s \in Slots : s \notin ToSubmit
    BY <2>1 DEF ToSubmit
  <2>3. InBook = {} /\ (position > 0 => position = Rest("exit"))
    BY <2>1 DEF DryInv, HaltOk
  <2>4. \A s \in Slots : s \notin Active
    BY <2>1, <2>2, <2>3, Settled
  <2>5. Active = {}
    BY <2>4 DEF Active
  <2>6. position > 0 => LeavesQty(orders["exit"]) = Rest("exit")
    <3>1. orders["exit"].cum \in Nat /\ orders["exit"].qty \in Nat
      BY PendingRange DEF DryInv, Slots
    <3>2. position > 0 => orders["exit"].cum < orders["exit"].qty
      BY <2>3, <3>1 DEF Rest
    <3> QED
      BY <3>2 DEF LeavesQty, Rest
  <2> QED
    BY <2>3, <2>5, <2>6 DEF HaltFlattens
<1> QED
  BY <1>1, Inductive, PTL

\* The simulator and the ledger together implement Venue.
THEOREM RefinesVenue == Spec => ImplementsVenue
<1>1. Init => V!Init
  BY InitKept
<1>2. DryInv /\ [Next]_vars => [V!Next]_(V!venueVars)
  BY StepKept DEF Kept, VenueStep
<1> QED
  BY <1>1, <1>2, Inductive, PTL DEF Spec, ImplementsVenue, V!Spec

\* The promise, order by order.
Done(s) == orders[s].cum + PendingFills(s)

PromiseAt(s) ==
  /\ LifeOf(s) \in {"free", "open", "over"}
  /\ orders[s].qty \in Nat /\ Done(s) \in Nat /\ orders[s].cum \in Nat
  /\ orders[s].cum <= Done(s) /\ Done(s) <= orders[s].qty
  /\ LifeOf(s) = "free" => orders[s].cum = Done(s)
  /\ LifeOf(s) = "open" => Done(s) < orders[s].qty

\* It holds of all orders when it holds of each, before a step and after it.
LEMMA PromiseIs ==
  /\ V!Promise <=> \A s \in Slots : PromiseAt(s)
  /\ V!Promise' <=> \A s \in Slots : PromiseAt(s)'
BY DEF V!Promise, PromiseAt, Done

\* A venue keeps its promise, whatever the dry run makes of it.
LEMMA PromiseStep == V!Promise /\ [V!Next]_(V!venueVars) => V!Promise'
<1> SUFFICES ASSUME \A s \in Slots : PromiseAt(s), [V!Next]_(V!venueVars)
             PROVE  \A s \in Slots : PromiseAt(s)'
  BY PromiseIs
<1>1. ASSUME NEW x \in Slots, NEW n \in 1 .. MaxQty, V!Send(x, n),
             NEW s \in Slots
      PROVE  PromiseAt(s)'
  <2>1. /\ LifeOf(s)' = IF s = x THEN "open" ELSE LifeOf(s)
        /\ orders'[s].qty = IF s = x THEN n ELSE orders[s].qty
        /\ Done(s)' = IF s = x THEN 0 ELSE Done(s)
        /\ orders'[s].cum = IF s = x THEN 0 ELSE orders[s].cum
    BY <1>1 DEF V!Send, Done
  <2>2. n \in Nat /\ 0 < n
    BY DryRunAssumption
  <2> QED
    BY <2>1, <2>2 DEF PromiseAt
<1>2. ASSUME NEW x \in Slots, NEW n \in 0 .. MaxQty, NEW ends \in BOOLEAN,
             V!Execute(x, n, ends), NEW s \in Slots
      PROVE  PromiseAt(s)'
  <2>1. /\ LifeOf(s)' = IF s = x /\ ends THEN "over" ELSE LifeOf(s)
        /\ orders'[s].qty = orders[s].qty
        /\ Done(s)' = IF s = x THEN Done(s) + n ELSE Done(s)
        /\ orders'[s].cum = orders[s].cum
    BY <1>2 DEF V!Execute, Done
  <2>2. /\ LifeOf(x) = "open" /\ Done(x) + n <= orders[x].qty
        /\ Done(x) + n = orders[x].qty => ends
    BY <1>2 DEF V!Execute, Done
  <2>3. n \in Nat
    BY DryRunAssumption
  <2> QED
    BY <2>1, <2>2, <2>3 DEF PromiseAt
<1>3. ASSUME NEW x \in Slots, NEW n \in 0 .. MaxQty, NEW closes \in BOOLEAN,
             V!Tell(x, n, closes), NEW s \in Slots
      PROVE  PromiseAt(s)'
  <2>1. /\ LifeOf(s)' = IF s = x /\ closes THEN "free" ELSE LifeOf(s)
        /\ orders'[s].qty = orders[s].qty
        /\ Done(s)' = Done(s)
        /\ orders'[s].cum = IF s = x THEN orders[s].cum + n ELSE orders[s].cum
    BY <1>3 DEF V!Tell, Done
  <2>2. /\ orders[x].cum + n <= Done(x)
        /\ closes => orders[x].cum + n = Done(x)
        /\ LifeOf(x) # "free"
    BY <1>3 DEF V!Tell, Done
  <2>3. n \in Nat
    BY DryRunAssumption
  <2> QED
    BY <2>1, <2>2, <2>3 DEF PromiseAt
<1>4. CASE UNCHANGED V!venueVars
  <2>1. \A s \in Slots : /\ LifeOf(s)' = LifeOf(s) /\ orders'[s].qty = orders[s].qty
                         /\ Done(s)' = Done(s) /\ orders'[s].cum = orders[s].cum
    BY <1>4 DEF V!venueVars, Done
  <2> QED
    BY <2>1 DEF PromiseAt
<1> QED
  BY <1>1, <1>2, <1>3, <1>4 DEF V!Next

\* For every quantity: whatever implements Venue keeps its promise.
THEOREM VenueKeepsPromise == V!Spec => []V!Promise
<1>1. V!Init => V!Promise
  BY DEF V!Init, V!Promise
<1> QED
  BY <1>1, PromiseStep, PTL DEF V!Spec

\* And so do the simulator and the ledger: nothing is told that has not happened, and of
\* an order that is over everything is told in the end.
THEOREM PromiseKept == Spec => []V!Promise
BY RefinesVenue, VenueKeepsPromise, PTL DEF ImplementsVenue

===============================================================================
