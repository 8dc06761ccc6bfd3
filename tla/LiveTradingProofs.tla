--------------------------- MODULE LiveTradingProofs ---------------------------
(***************************************************************************)
(* What holds of the live loop for any number of orders, any lot size and  *)
(* any number of take-profit retries.                                      *)
(***************************************************************************)
EXTENDS LiveTrading, SumTheorems, TLAPS

-------------------------------------------------------------------------------
(***************************************************************************)
(* The inductive invariant.                                                *)
(***************************************************************************)

\* The stage of the loop; a poll belongs to the stage it returns to.
At == IF pc = "poll" THEN then ELSE pc

Labels == (TradingPcs \ {"poll"}) \cup FlattenPcs

\* Where polls return to.
PollLabels ==
  {"decide", "release", "entryCancel", "entry", "exit", "board", "scan", "lastPosition"}

\* The stages before a planned entry, or a planned exit, is sent.
BeforeEntry == {"exitCancel", "release", "deferred", "entryCancel", "entry"}
BeforeExit == BeforeEntry \cup {"exit", "flatten"}

Plans == [exitCancel : BOOLEAN, entryCancel : BOOLEAN,
          entry : Slots \cup {0}, exit : Slots \cup {0}]

\* The order may still execute.
Unsettled(o) == atBroker[o] \in {"live", "limbo"}

\* The ledger is never ahead of the broker, and what it holds final is over.
Sound(o) ==
  /\ role[o] = "none" => orders[o] = Absent /\ atBroker[o] = "none"
  /\ role[o] = "entry" => o \in EntrySlots
  /\ role[o] = "exit" => o \in ExitSlots
  /\ orders[o].cum <= exec[o]
  /\ exec[o] <= orders[o].qty
  /\ atBroker[o] = "live" => exec[o] < orders[o].qty
  /\ atBroker[o] = "filled" => exec[o] = orders[o].qty
  /\ atBroker[o] \in {"none", "limbo", "rejected"} => exec[o] = 0
  /\ orders[o].anchored
  /\ orders[o].broker \in {NoBroker, o}
  /\ orders[o].broker = o => atBroker[o] \notin {"none", "limbo"}
  /\ IsFinal(orders[o]) => orders[o].cum = exec[o] /\ ~Unsettled(o)
  /\ orders[o].cum >= orders[o].qty => IsFinal(orders[o])

BooksSound == \A o \in Slots : Sound(o)

Single(r) == \A o, p \in ActiveOf(r) : o = p

Mirrored ==
  held = position + drift + SumFunctionOnSet([o \in Slots |-> Unseen(o)], Slots)

Open(o) == orders[o].qty - orders[o].cum

\* The one exit order at work closes the position, or less when entries came after.
Covered ==
  \A o \in ActiveOf("exit") :
    /\ Open(o) <= position
    /\ uncovered \/ Open(o) = position
    /\ lollipop.phase \in {"ACTIVE", "TIMEOUT"}

ExitOwed ==
  position > 0
    => /\ lollipop.phase # "IDLE"
       /\ \/ ActiveOf("exit") # {}
          \/ lollipop.phase = "SCHEDULED"
          \/ lollipop.phase = "TIMEOUT" /\ ~lollipop.forced
          \/ uncovered

\* What the strategy knows of the account.
TradeSound ==
  /\ Single("entry") /\ Single("exit")
  /\ \A o \in Slots : Unsettled(o) => o \in Active
  /\ Mirrored
  /\ position >= 0
  /\ uncovered => position # 0
  /\ lollipop.forced => lollipop.phase = "TIMEOUT"
  /\ Covered
  /\ ExitOwed

\* A force exit that waits for a cancel is still owed when the cancel is through.
ForceOwed == position > 0 => lollipop.phase = "TIMEOUT" \/ uncovered

DeferredOwed == At \in {"exitCancel", "release"} => ForceOwed

Fresh(o, r) ==
  /\ role[o] = r
  /\ atBroker[o] = "none"
  /\ orders[o] = NewOrder(orders[o].qty, TRUE)

\* At the stage `at', the order o of the plan p is still to be sent.
ToSend(at, p, o) ==
  \/ at \in BeforeEntry /\ o = p.entry
  \/ at \in BeforeExit /\ o = p.exit

\* The plan p fits the stage `at': what is still to be sent is untouched, and only
\* that has no broker id.
PlanFits(at, p) ==
  /\ at \in BeforeEntry /\ p.entry # 0 => Fresh(p.entry, "entry")
  /\ at \in BeforeExit /\ p.exit # 0 => Fresh(p.exit, "exit")
  /\ at = "decide" => p = NoPlan
  /\ at = "entry" => p.entry # 0
  /\ at \in {"exit", "deferred", "flatten"} => p.exit # 0
  /\ at \in {"exitCancel", "release"} => p.exitCancel /\ p.exit = 0
  /\ at = "entryCancel" => p.entry = 0
  /\ p.entry # 0 => p.exit = 0 /\ ~p.exitCancel /\ ~p.entryCancel
  /\ at \in TradingPcs => \A o \in Active : orders[o].broker = o \/ ToSend(at, p, o)

CancelsFit ==
  /\ pc \in (TradingPcs \cup HandlerPcs) \ {"exitCancel", "entryCancel"} => cancels = {}
  /\ pc = "exitCancel" => cancels # {} /\ cancels \subseteq ActiveOf("exit")
  /\ pc = "entryCancel" => cancels # {} /\ cancels \subseteq ActiveOf("entry")
  /\ pc = "cancelAll" => cancels \subseteq Active

ControlSound ==
  /\ PlanFits(At, plan)
  /\ pc = "board" => plan = NoPlan
  /\ CancelsFit
  /\ pc = "poll" => then \in PollLabels /\ todo \subseteq Active
  /\ pc # "halted" => report = "none"
  /\ At \in TradingPcs \cup {"fault", "caught"} => ~guarded
  /\ pc = "again" => guarded

\* Slots are left for the orders to come after the stage `at': a cleanup that may break
\* off leaves room for the order of the next one.
RoomAt(at) ==
  /\ at = "decide"
       => \A o, p \in Slots : role[o] = "entry" /\ role[p] = "entry" => o = p
  /\ (\/ at \in {"decide", "exitCancel", "release"}
      \/ guarded /\ at \in {"cancelAll", "scan", "scanCancel", "verify", "readPosition"})
       => \A o, p \in Slots : role[o] = "exit" /\ role[p] = "exit" => o = p
  /\ at # "halted" /\ (at \in {"flatten", "lastPosition"} => guarded)
       => \E a, b \in Slots : \A o \in Slots : role[o] = "exit" => o \in {a, b}

Room == RoomAt(At)

\* What the cleanup knows of the broker, when every order had a broker id.
CleanupKnows ==
  ~unnamed =>
    /\ At = "cancelAll" => \A o \in Slots : atBroker[o] = "limbo" => o \in cancels
    /\ At \in {"scan", "scanCancel", "verify"} => \A o \in Slots : atBroker[o] # "limbo"
    /\ At \in {"readPosition", "flatten", "lastPosition"} => stray.buy = 0 /\ stray.sell = 0
    /\ At = "readPosition" => \A o \in Slots : ~Unsettled(o)
    /\ At \in {"flatten", "lastPosition"} =>
         \E f \in Slots : /\ role[f] = "exit" /\ held = Leaves(f)
                          /\ \A o \in Slots : Unsettled(o) => o = f
                          /\ At = "flatten" => f = plan.exit

LiveInv ==
  /\ TypeOK
  /\ BooksSound
  /\ Trading => TradeSound
  /\ DeferredOwed
  /\ ControlSound
  /\ Room
  /\ CleanupKnows
  /\ FlattenHonest

-------------------------------------------------------------------------------
(***************************************************************************)
(* What one event does to one order.                                       *)
(***************************************************************************)

\* Slots are finite, and 0 is none of them.
LEMMA SlotsFinite == IsFiniteSet(Slots) /\ 0 \notin Slots /\ EntrySlots \subseteq Slots
                     /\ ExitSlots \subseteq Slots
<1>1. Slots = 1 .. MaxOrders /\ MaxOrders \in Nat /\ MaxOrders >= 5
  BY BoundsAssumption DEF Slots
<1>2. IsFiniteSet(1 .. MaxOrders)
  BY <1>1, FS_Interval
<1> QED
  BY <1>1, <1>2 DEF EntrySlots, ExitSlots

\* A priced event adds what it claims.
LEMMA EventAdds ==
  ASSUME NEW o \in Order, NEW e \in OrderEvents, e.priced
  PROVE  LET s == AfterOrderEvent(o, e)
             c == ClaimedCum(o, e)
         IN  /\ s \in Order
             /\ s.qty = o.qty /\ s.anchored = o.anchored
             /\ s.broker = IF e.broker = NoBroker THEN o.broker ELSE e.broker
             /\ c \in Nat
             /\ s.cum = IF c > o.cum THEN c ELSE o.cum
             /\ s.status = StatusAfterEvent(o, e)
             /\ OrderEventFill(o, e) = s.cum - o.cum
<1>1. ClaimedCum(o, e) \in Nat
  BY DEF ClaimedCum, Order, OrderEvents
<1>2. OrderEventFill(o, e) \in Nat
  BY <1>1 DEF OrderEventFill, Order
<1>3. /\ CumAfterEvent(o, e) = IF ClaimedCum(o, e) > o.cum THEN ClaimedCum(o, e) ELSE o.cum
      /\ CumAfterEvent(o, e) \in Nat
      /\ OrderEventFill(o, e) = CumAfterEvent(o, e) - o.cum
  BY <1>1, <1>2 DEF CumAfterEvent, OrderEventFill, Order
<1>4. StatusAfterEvent(o, e) \in Status
  BY DEF StatusAfterEvent, Order, OrderEvents, Status, FinalStatus, OpenStatus
<1>5. WithBroker(o, e.broker) \in Order
  BY DEF WithBroker, Order, OrderEvents
<1>6. (WithBroker(o, e.broker).priced \/ OrderEventFill(o, e) > 0) \in BOOLEAN
  OBVIOUS
<1> QED
  BY <1>1, <1>3, <1>4, <1>5, <1>6 DEF AfterOrderEvent, WithBroker, Order

\* An event without a quantity adds nothing.  It ends an order only by saying so.
LEMMA SilentEvent ==
  ASSUME NEW o \in Order, NEW e \in OrderEvents, e.priced, e.cum = NoCum,
         e.status \in {"working", "unknown", "cancel_pending", "rejected"},
         o.cum >= o.qty => IsFinal(o), o.cum <= o.qty
  PROVE  LET s == AfterOrderEvent(o, e)
         IN  /\ s.cum = o.cum /\ OrderEventFill(o, e) = 0
             /\ IsFinal(s) => IsFinal(o) \/ e.status = "rejected"
             /\ e.status = "rejected" => s.status \in {"rejected", "filled"}
             /\ s.status = "filled" => s.cum = s.qty \/ IsFinal(o)
             /\ s.cum >= s.qty => IsFinal(s)
<1>1. ClaimedCum(o, e) = o.cum
  BY DEF ClaimedCum
<1>2. AfterOrderEvent(o, e).cum = o.cum /\ OrderEventFill(o, e) = 0
  BY <1>1, EventAdds DEF Order
<1>3. CumAfterEvent(o, e) = o.cum
  BY <1>2 DEF CumAfterEvent
<1>4. /\ AfterOrderEvent(o, e).status = StatusAfterEvent(o, e)
      /\ AfterOrderEvent(o, e).qty = o.qty
  BY EventAdds
<1> QED
  BY <1>2, <1>3, <1>4 DEF StatusAfterEvent, IsFinal, FinalStatus, Order

\* A snapshot of the broker's cumulative quantity is taken over.
LEMMA SnapshotEvent ==
  ASSUME NEW o \in Order, NEW e \in OrderEvents, e.priced, e.cum \in Nat,
         o.cum <= e.cum, e.cum <= o.qty,
         e.status \in {"working", "partially_filled", "filled", "canceled", "rejected"},
         e.status = "filled" => e.cum = o.qty,
         e.cum = o.qty => e.status \in FinalStatus
  PROVE  LET s == AfterOrderEvent(o, e)
         IN  /\ s.cum = e.cum /\ OrderEventFill(o, e) = e.cum - o.cum
             /\ IsFinal(s) => IsFinal(o) \/ e.status \in FinalStatus
             /\ s.status = "filled" => s.cum = s.qty \/ IsFinal(o)
             /\ s.cum >= s.qty => IsFinal(s)
<1>1. ClaimedCum(o, e) = e.cum
  BY NoCumAssumption DEF ClaimedCum, Order
<1>2. AfterOrderEvent(o, e).cum = e.cum /\ OrderEventFill(o, e) = e.cum - o.cum
  BY <1>1, EventAdds DEF Order
<1>3. CumAfterEvent(o, e) = e.cum
  BY <1>1, <1>2 DEF CumAfterEvent, Order
<1>4. /\ AfterOrderEvent(o, e).status = StatusAfterEvent(o, e)
      /\ AfterOrderEvent(o, e).qty = o.qty
  BY EventAdds
<1> QED
  BY <1>2, <1>3, <1>4 DEF StatusAfterEvent, IsFinal, FinalStatus, Order

-------------------------------------------------------------------------------
(***************************************************************************)
(* What an event does to the books and to the strategy.                    *)
(***************************************************************************)

\* One order of the ledger changes.
LEMMA LedgerAfter ==
  ASSUME TypeOK, NEW o \in Slots, NEW e \in OrderEvents, OnOrderEvent(o, e)
  PROVE  /\ \A p \in Slots :
              orders'[p] = IF p = o THEN AfterOrderEvent(orders[o], e) ELSE orders[p]
         /\ role' = role
         /\ position' = PositionAfter(position, role[o], OrderEventFill(orders[o], e))
BY DEF OnOrderEvent, TypeOK

\* The books stay sound if the order's own do.
LEMMA EventBooks ==
  ASSUME TypeOK, BooksSound, NEW o \in Slots, NEW e \in OrderEvents, OnOrderEvent(o, e),
         \A p \in Slots \ {o} : atBroker'[p] = atBroker[p] /\ exec'[p] = exec[p],
         Sound(o)'
  PROVE  BooksSound'
<1> SUFFICES ASSUME NEW p \in Slots, p # o PROVE Sound(p)'
  BY DEF BooksSound
<1>1. /\ orders'[p] = orders[p] /\ role'[p] = role[p]
      /\ atBroker'[p] = atBroker[p] /\ exec'[p] = exec[p]
  BY LedgerAfter
<1>2. Sound(p)
  BY DEF BooksSound
<1> QED
  BY <1>1, <1>2 DEF Sound, Absent, Unsettled

\* Types stay right: the strategy's, that is.
LEMMA EventTypes ==
  ASSUME TypeOK, NEW o \in Slots, NEW e \in OrderEvents, e.priced, OnOrderEvent(o, e)
  PROVE  /\ orders' \in [Slots -> Order] /\ role' \in [Slots -> {"entry", "exit", "none"}]
         /\ position' \in Int /\ lollipop' \in Workflow /\ uncovered' \in BOOLEAN
<1> DEFINE n == OrderEventFill(orders[o], e)
           s == AfterOrderEvent(orders[o], e)
<1>1. s \in Order /\ n \in Int
  BY EventAdds DEF TypeOK, Order
<1>2. orders' \in [Slots -> Order] /\ role' = role
  BY <1>1 DEF OnOrderEvent, TypeOK
<1>3. position' = PositionAfter(position, role[o], n)
  BY DEF OnOrderEvent
<1>4. position' \in Int
  BY <1>1, <1>3 DEF PositionAfter, TypeOK
<1>5. WorkflowAfterFill(lollipop, position, role[o], n) \in Workflow
  BY RetriesAssumption DEF TypeOK, WorkflowAfterFill, OnEntryFill, OnScaleInFill, OnExitFill,
        Idle, Workflow, Phases
<1>6. ASSUME NEW w \in Workflow PROVE WorkflowAfterFinal(w, position', role[o], s) \in Workflow
  <2>1. /\ ResetForceExit(w) \in Workflow /\ Reschedule(w) \in Workflow
        /\ ForceExitNextTick(w) \in Workflow
    BY DEF ResetForceExit, Reschedule, ForceExitNextTick, Workflow, Phases
  <2> QED
    BY <2>1 DEF WorkflowAfterFinal
<1>7. lollipop' \in Workflow
  BY <1>3, <1>5, <1>6 DEF OnOrderEvent
<1>8. uncovered' \in BOOLEAN
  BY DEF OnOrderEvent
<1> QED
  BY <1>2, <1>4, <1>7, <1>8 DEF TypeOK

\* A force exit that waits for a cancel stays owed.
OwedStays == plan.exitCancel /\ ForceOwed => ForceOwed'

\* An event that claims no more than the broker executed, and ends no order that may
\* still execute, keeps the strategy's knowledge right.
LEMMA EventTrade ==
  ASSUME TypeOK, BooksSound, TradeSound, NEW o \in Slots, o \in Active,
         NEW e \in OrderEvents, e.priced, OnOrderEvent(o, e),
         exec' = exec, held' = held /\ stray' = stray /\ drift' = drift,
         \A p \in Slots \ {o} : atBroker'[p] = atBroker[p],
         Sound(o)',
         AfterOrderEvent(orders[o], e).status = "filled"
           => AfterOrderEvent(orders[o], e).cum = orders[o].qty
  PROVE  TradeSound' /\ OwedStays
<1> DEFINE n == OrderEventFill(orders[o], e)
           s == AfterOrderEvent(orders[o], e)
<1>1. /\ s \in Order /\ s.qty = orders[o].qty /\ n = s.cum - orders[o].cum
      /\ n \in Nat /\ orders[o] \in Order
  BY EventAdds DEF TypeOK, Order
<1>2. /\ \A p \in Slots : orders'[p] = IF p = o THEN s ELSE orders[p]
      /\ role' = role
      /\ position' = PositionAfter(position, role[o], n)
  BY LedgerAfter
<1>3. role[o] \in {"entry", "exit"} /\ ~IsFinal(orders[o])
  BY DEF Active, Used, TypeOK
<1>4. s.cum <= exec[o] /\ exec[o] <= s.qty /\ (s.cum >= s.qty => IsFinal(s))
      /\ (IsFinal(s) => s.cum = exec[o])
  BY <1>1, <1>2 DEF Sound
<1>5. orders[o].cum < orders[o].qty
  BY <1>1, <1>3 DEF BooksSound, Sound, Order
<1>6. /\ Active' = IF IsFinal(s) THEN Active \ {o} ELSE Active
      /\ \A r : ActiveOf(r)' = IF IsFinal(s) THEN ActiveOf(r) \ {o} ELSE ActiveOf(r)
  BY <1>2, <1>3 DEF Active, ActiveOf, Used
<1>7. position \in Int /\ position >= 0
  BY DEF TradeSound, TypeOK
<1>8. role[o] = "exit" => n <= position
  <2>1. ASSUME role[o] = "exit" PROVE Open(o) <= position
    BY <2>1 DEF TradeSound, Covered, ActiveOf
  <2> QED
    BY <2>1, <1>1, <1>4, <1>7 DEF Open, Order, TypeOK
<1>9. position' = IF role[o] = "entry" THEN position + n ELSE position - n
  BY <1>2, <1>3, <1>7, <1>8, <1>1 DEF PositionAfter
<1>10. Single("entry")' /\ Single("exit")'
  BY <1>6 DEF TradeSound, Single
<1>11. \A p \in Slots : Unsettled(p)' => p \in Active'
  BY <1>2, <1>6 DEF TradeSound, Unsettled, Sound
<1>12. position' >= 0 /\ position' \in Int
  BY <1>1, <1>3, <1>7, <1>8, <1>9
<1>13. Mirrored'
  <2> DEFINE f == [p \in Slots |-> Unseen(p)]
             g == [p \in Slots |-> Unseen(p)']
  <2>1. \A p \in Slots : f[p] \in Int /\ g[p] \in Int
    <3> SUFFICES ASSUME NEW p \in Slots PROVE f[p] \in Int /\ g[p] \in Int
      OBVIOUS
    <3>1. orders[p] \in Order /\ orders'[p] \in Order /\ exec[p] \in Int /\ exec'[p] \in Int
      BY <1>1, <1>2 DEF TypeOK
    <3> QED
      BY <3>1 DEF Unseen, Order
  <2>2. \A p \in Slots \ {o} : g[p] = f[p]
    BY <1>2 DEF Unseen
  <2>3. g[o] - f[o] = IF role[o] = "entry" THEN -n ELSE n
    <3>1. g[o] = Unseen(o)' /\ f[o] = Unseen(o)
      OBVIOUS
    <3>2. exec[o] \in Int /\ s.cum \in Int /\ orders[o].cum \in Int
      BY <1>1 DEF TypeOK, Order
    <3>3. orders'[o].cum = s.cum
      BY <1>2
    <3> QED
      BY <3>1, <3>2, <3>3, <1>1, <1>2, <1>3 DEF Unseen
  <2>4. f[o] \in Int /\ g[o] \in Int
    BY <2>1
  <2> HIDE DEF f, g
  <2>5. SumFunctionOnSet(g, Slots) = SumFunctionOnSet(f, Slots) + g[o] - f[o]
    BY <2>1, <2>2, SlotsFinite, SumChanges
  <2>6. SumFunctionOnSet(f, Slots) \in Int
    BY <2>1, SlotsFinite, SumIsInt
  <2>7. held = position + drift + SumFunctionOnSet(f, Slots) /\ drift \in Int
    BY DEF TradeSound, Mirrored, TypeOK, f
  <2>8. held' = position' + drift' + SumFunctionOnSet(g, Slots)
    BY <2>3, <2>4, <2>5, <2>6, <2>7, <1>1, <1>3, <1>7, <1>9
  <2> QED
    BY <2>8 DEF Mirrored, g
<1>14. uncovered' => position' # 0
  BY <1>2 DEF OnOrderEvent
<1> DEFINE w == WorkflowAfterFill(lollipop, position, role[o], n)
<1>15. lollipop' = WorkflowAfterFinal(w, position', role[o], s)
  BY <1>2 DEF OnOrderEvent
<1>16. w = IF n = 0 THEN lollipop
           ELSE IF position = 0 THEN OnEntryFill(lollipop)
           ELSE IF role[o] = "entry" THEN OnScaleInFill(lollipop)
           ELSE IF position' = 0 THEN OnExitFill(lollipop)
           ELSE lollipop
  <2>1. role[o] = "entry" /\ n > 0 => position + n # 0
    BY <1>1, <1>7
  <2> QED
    BY <2>1, <1>1, <1>2, <1>3, <1>7, <1>8, <1>9 DEF WorkflowAfterFill, PositionAfter
<1>17. lollipop \in Workflow /\ (lollipop.forced => lollipop.phase = "TIMEOUT")
  BY DEF TradeSound, TypeOK
<1>18. w \in Workflow /\ (w.forced => w.phase = "TIMEOUT")
  BY <1>16, <1>17, RetriesAssumption
     DEF OnEntryFill, OnScaleInFill, OnExitFill, Idle, Workflow, Phases
<1>19. lollipop'.forced => lollipop'.phase = "TIMEOUT"
  <2> HIDE DEF w
  <2> QED
    BY <1>15, <1>18 DEF WorkflowAfterFinal, ResetForceExit, Reschedule, ForceExitNextTick,
         Workflow, Phases
<1>20. uncovered' = /\ position' # 0
                    /\ \/ uncovered
                       \/ /\ n > 0 /\ role[o] = "entry"
                          /\ lollipop.phase \in {"ACTIVE", "TIMEOUT"} \/ plan.exitCancel
  BY <1>2 DEF OnOrderEvent
<1>21. Covered'
  <2> SUFFICES ASSUME NEW x \in ActiveOf("exit")'
               PROVE  /\ Open(x)' <= position'
                      /\ uncovered' \/ Open(x)' = position'
                      /\ lollipop'.phase \in {"ACTIVE", "TIMEOUT"}
    BY DEF Covered
  <2>1. x \in ActiveOf("exit") /\ x \in Slots /\ role[x] = "exit" /\ ~IsFinal(orders[x])
    BY <1>6 DEF ActiveOf, Active, Used
  <2>2. /\ Open(x) <= position /\ (uncovered \/ Open(x) = position)
        /\ lollipop.phase \in {"ACTIVE", "TIMEOUT"}
    BY <2>1 DEF TradeSound, Covered
  <2>3. orders[x].cum < orders[x].qty /\ orders[x] \in Order
    BY <2>1 DEF BooksSound, Sound, TypeOK, Order
  <2>4. Open(x) >= 1 /\ position >= 1 /\ Open(x) \in Int
    BY <2>2, <2>3, <1>7 DEF Open, Order
  <2>5. Open(x)' = IF x = o THEN Open(x) - n ELSE Open(x)
    BY <1>1, <1>2, <2>1 DEF Open, Order
  <2>6. CASE x = o
    <3>1. ~IsFinal(s) /\ s.cum < s.qty
      BY <2>6, <1>2, <1>1, <1>4 DEF ActiveOf, Active, Order
    <3>2. position' = position - n /\ Open(x)' = Open(x) - n /\ Open(x)' >= 1
      BY <2>1, <2>5, <2>6, <1>1, <1>2, <1>9, <3>1 DEF Open, Order
    <3>3. w = lollipop /\ lollipop' = w
      BY <1>15, <1>16, <2>1, <2>2, <2>4, <2>6, <3>1, <3>2, <1>1, <1>7 DEF WorkflowAfterFinal
    <3>4. Open(x)' <= position' /\ position' # 0
      BY <2>2, <2>4, <3>2, <1>1, <1>7
    <3>5. uncovered' <=> uncovered
      BY <1>20, <2>1, <2>6, <3>4
    <3>6. Open(x) = position => Open(x)' = position'
      BY <3>2
    <3> QED
      BY <2>2, <3>3, <3>4, <3>5, <3>6
  <2>7. CASE x # o
    <3>1. role[o] = "entry"
      BY <2>1, <2>7, <1>3 DEF TradeSound, Single, ActiveOf
    <3>2. position' = position + n /\ Open(x)' = Open(x)
      BY <1>9, <3>1, <2>5, <2>7
    <3>3. w = lollipop /\ lollipop' = w
      BY <1>15, <1>16, <2>2, <2>4, <3>1, <1>7 DEF WorkflowAfterFinal, OnScaleInFill
    <3>4. n = 0 \/ uncovered'
      BY <1>20, <2>2, <2>4, <3>1, <3>2, <1>1, <1>7
    <3>5. uncovered => uncovered'
      BY <1>20, <2>4, <3>2, <1>1, <1>7
    <3> QED
      BY <2>2, <2>4, <3>2, <3>3, <3>4, <3>5, <1>1, <1>7
  <2> QED
    BY <2>6, <2>7
<1>22. ExitOwed'
  <2> SUFFICES ASSUME position' > 0
               PROVE  /\ lollipop'.phase # "IDLE"
                      /\ \/ ActiveOf("exit")' # {}
                         \/ lollipop'.phase = "SCHEDULED"
                         \/ lollipop'.phase = "TIMEOUT" /\ ~lollipop'.forced
                         \/ uncovered'
    BY DEF ExitOwed
  <2>1. CASE role[o] = "entry"
    <3>1. lollipop' = w
      BY <1>15, <2>1 DEF WorkflowAfterFinal
    <3>2. ActiveOf("exit")' = ActiveOf("exit")
      BY <1>6, <2>1 DEF ActiveOf
    <3>3. uncovered => uncovered'
      BY <1>20
    <3>4. CASE position = 0
      <4>1. n # 0
        BY <3>4, <1>9, <2>1, <1>7
      <4>2. w.phase = "SCHEDULED"
        BY <4>1, <3>4, <1>16 DEF OnEntryFill
      <4> QED
        BY <3>1, <4>2
    <3>5. CASE position > 0
      <4>1. w = lollipop
        BY <1>16, <2>1, <3>5, <1>7 DEF OnScaleInFill, TradeSound, ExitOwed
      <4> QED
        BY <4>1, <3>1, <3>2, <3>3, <3>5 DEF TradeSound, ExitOwed
    <3> QED
      BY <3>4, <3>5, <1>7
  <2>2. CASE role[o] = "exit"
    <3>1. position' = position - n /\ position > 0
      BY <2>2, <1>9, <1>1, <1>7
    <3>2. w = lollipop
      BY <1>16, <2>2, <3>1, <1>7, <1>1
    <3>3. uncovered' <=> uncovered
      BY <1>20, <2>2, <1>12
    <3>4. /\ lollipop.phase \in {"ACTIVE", "TIMEOUT"} /\ (uncovered \/ Open(o) = position)
          /\ o \in ActiveOf("exit")
      BY <2>2 DEF TradeSound, Covered, ActiveOf
    <3>5. CASE ~IsFinal(s)
      BY <3>2, <3>4, <3>5, <1>15, <1>6 DEF WorkflowAfterFinal
    <3>6. CASE s.status = "filled"
      <4>1. s.cum = orders[o].qty
        BY <3>6
      <4>2. uncovered
        BY <4>1, <3>1, <3>4, <1>1, <1>7 DEF Open, Order
      <4>3. lollipop' = lollipop
        BY <3>2, <3>6, <1>15 DEF WorkflowAfterFinal
      <4> QED
        BY <4>2, <4>3, <3>3, <3>4
    <3>7. CASE s.status \in {"canceled", "rejected"}
      <4>1. lollipop'.phase = "SCHEDULED" \/ (lollipop'.phase = "TIMEOUT" /\ ~lollipop'.forced)
        BY <3>2, <3>4, <3>7, <2>2, <1>15, <1>17
           DEF WorkflowAfterFinal, IsFinal, FinalStatus, ResetForceExit, Reschedule,
               ForceExitNextTick, Workflow
      <4> QED
        BY <4>1
    <3> QED
      BY <3>5, <3>6, <3>7 DEF IsFinal, FinalStatus
  <2> QED
    BY <2>1, <2>2, <1>3
<1>23. OwedStays
  <2> SUFFICES ASSUME plan.exitCancel, ForceOwed, position' > 0
               PROVE  lollipop'.phase = "TIMEOUT" \/ uncovered'
    BY DEF OwedStays, ForceOwed
  <2>1. CASE position = 0
    BY <2>1, <1>1, <1>7, <1>9, <1>20
  <2>2. CASE position > 0 /\ uncovered
    BY <2>2, <1>20
  <2>3. CASE position > 0 /\ lollipop.phase = "TIMEOUT"
    <3>1. w = lollipop
      BY <2>3, <1>16 DEF OnScaleInFill
    <3> QED
      BY <2>3, <3>1, <1>15, <1>17 DEF WorkflowAfterFinal, ResetForceExit, Reschedule,
           ForceExitNextTick, Workflow
  <2> QED
    BY <2>1, <2>2, <2>3, <1>7 DEF ForceOwed
<1> QED
  BY <1>10, <1>11, <1>12, <1>13, <1>14, <1>19, <1>21, <1>22, <1>23 DEF TradeSound

-------------------------------------------------------------------------------
(***************************************************************************)
(* What the executor's calls and the polls do.                             *)
(***************************************************************************)

\* One order may have changed, the others have not, and none that was final is open
\* again.
Touches(o) ==
  /\ role' = role
  /\ \A p \in Slots \ {o} : orders'[p] = orders[p]
  /\ Active' \subseteq Active
  /\ Active \ {o} \subseteq Active'
  /\ orders' \in [Slots -> Order] /\ role' \in [Slots -> {"entry", "exit", "none"}]
  /\ position' \in Int /\ lollipop' \in Workflow /\ uncovered' \in BOOLEAN
  /\ orders'[o].qty = orders[o].qty

\* A call that adds no execution: the order stays open.
LEMMA CallKeeps ==
  ASSUME TypeOK, BooksSound, NEW o \in Slots, o \in Active, NEW named \in BOOLEAN,
         NEW status \in {"working", "unknown", "cancel_pending"},
         OnOrderEvent(o, Event(o, status, NoCum, named)),
         exec' = exec, held' = held /\ stray' = stray /\ drift' = drift,
         \A p \in Slots \ {o} : atBroker'[p] = atBroker[p],
         atBroker'[o] = "live" => exec[o] < orders[o].qty,
         atBroker'[o] = "filled" => exec[o] = orders[o].qty,
         atBroker'[o] \in {"none", "limbo", "rejected"} => exec[o] = 0,
         named \/ orders[o].broker = o => atBroker'[o] \notin {"none", "limbo"}
  PROVE  /\ Touches(o) /\ BooksSound' /\ (TradeSound => TradeSound' /\ OwedStays)
         /\ Active' = Active
         /\ orders'[o].broker = IF named THEN o ELSE orders[o].broker
<1> DEFINE e == Event(o, status, NoCum, named)
           s == AfterOrderEvent(orders[o], e)
<1>1. /\ e \in OrderEvents /\ e.priced /\ e.cum = NoCum /\ e.status = status
      /\ e.broker = IF named THEN o ELSE NoBroker
  BY SlotsAssumption DEF Event, OrderEvents, Status, OpenStatus, FinalStatus
<1>2. /\ orders[o] \in Order /\ Sound(o) /\ role[o] # "none" /\ ~IsFinal(orders[o])
      /\ o # NoBroker
  BY SlotsFinite, SlotsAssumption DEF TypeOK, BooksSound, Active, Used
<1> HIDE DEF e
<1>3. /\ s \in Order /\ s.qty = orders[o].qty /\ s.anchored = orders[o].anchored
      /\ s.broker = IF named THEN o ELSE orders[o].broker
  BY <1>1, <1>2, EventAdds
<1>4. orders[o].cum <= orders[o].qty
  BY <1>2 DEF Sound, Order, TypeOK
<1>5. s.cum = orders[o].cum /\ ~IsFinal(s) /\ (s.cum >= s.qty => IsFinal(s))
  BY <1>1, <1>2, <1>4, SilentEvent DEF Sound
<1>6. /\ \A p \in Slots : orders'[p] = IF p = o THEN s ELSE orders[p]
      /\ role' = role
  BY <1>1, LedgerAfter DEF e
<1>7. Sound(o)'
  BY <1>2, <1>3, <1>5, <1>6 DEF Sound, Unsettled
<1>8. BooksSound'
  BY <1>1, <1>7, EventBooks DEF e
<1>9. Active' = Active
  BY <1>2, <1>5, <1>6 DEF Active, Used
<1>10. TradeSound => TradeSound' /\ OwedStays
  <2>1. s.status # "filled"
    BY <1>5 DEF IsFinal, FinalStatus
  <2> QED
    BY <1>1, <1>7, <2>1, EventTrade DEF e
<1>11. Touches(o)
  <2>1. /\ orders' \in [Slots -> Order] /\ role' \in [Slots -> {"entry", "exit", "none"}]
        /\ position' \in Int /\ lollipop' \in Workflow /\ uncovered' \in BOOLEAN
    BY <1>1, EventTypes DEF e
  <2> QED
    BY <2>1, <1>3, <1>6, <1>9 DEF Touches
<1> QED
  BY <1>3, <1>6, <1>8, <1>9, <1>10, <1>11

\* An order that was never sent is over.
LEMMA RefusalKeeps ==
  ASSUME TypeOK, BooksSound, NEW o \in Slots, NEW r \in {"entry", "exit"}, Fresh(o, r),
         SubmitRefused(o)
  PROVE  /\ Touches(o) /\ BooksSound' /\ (TradeSound => TradeSound' /\ OwedStays)
<1> DEFINE e == Event(o, "rejected", NoCum, FALSE)
           s == AfterOrderEvent(orders[o], e)
<1>1. /\ e \in OrderEvents /\ e.priced /\ e.cum = NoCum /\ e.status = "rejected"
      /\ e.broker = NoBroker
  BY SlotsAssumption DEF Event, OrderEvents, Status, OpenStatus, FinalStatus
<1>2. /\ orders[o] \in Order /\ Sound(o) /\ role[o] # "none" /\ ~IsFinal(orders[o])
      /\ o \in Active /\ OnOrderEvent(o, e) /\ orders[o].cum = 0 /\ exec[o] = 0
  <2>1. orders[o].cum = 0 /\ orders[o].status = "new_pending"
    BY DEF Fresh, NewOrder
  <2>2. orders[o] \in Order /\ Sound(o) /\ role[o] # "none"
    BY DEF TypeOK, BooksSound, Fresh
  <2>3. exec[o] = 0
    BY <2>2 DEF Sound, Fresh
  <2> QED
    BY <2>1, <2>2, <2>3 DEF Active, Used, IsFinal, FinalStatus, SubmitRefused
<1> HIDE DEF e
<1>3. /\ s \in Order /\ s.qty = orders[o].qty /\ s.anchored = orders[o].anchored
      /\ s.broker = orders[o].broker
  BY <1>1, <1>2, EventAdds
<1>4. orders[o].cum <= orders[o].qty
  BY <1>2 DEF Sound, Order, TypeOK
<1>5. s.cum = 0 /\ (s.cum >= s.qty => IsFinal(s)) /\ s.qty # 0
  BY <1>1, <1>2, <1>3, <1>4, SilentEvent DEF Sound, Order
<1>6. /\ \A p \in Slots : orders'[p] = IF p = o THEN s ELSE orders[p]
      /\ role' = role /\ broker' = broker
  BY <1>1, <1>2, LedgerAfter DEF SubmitRefused
<1>7. Sound(o)'
  BY <1>2, <1>3, <1>5, <1>6 DEF Sound, Unsettled, broker, Fresh
<1>8. BooksSound'
  BY <1>1, <1>2, <1>6, <1>7, EventBooks DEF broker
<1>9. Active' \subseteq Active /\ Active \ {o} \subseteq Active'
  BY <1>2, <1>6 DEF Active, Used
<1>10. TradeSound => TradeSound' /\ OwedStays
  <2>1. s.status # "filled"
    <3>1. s.status \in {"rejected", "filled"} /\ (s.status = "filled" => s.cum = s.qty)
      BY <1>1, <1>2, <1>4, SilentEvent DEF Sound
    <3> QED
      BY <3>1, <1>5
  <2> QED
    BY <1>1, <1>2, <1>6, <1>7, <2>1, EventTrade DEF broker
<1>11. Touches(o)
  <2>1. /\ orders' \in [Slots -> Order] /\ role' \in [Slots -> {"entry", "exit", "none"}]
        /\ position' \in Int /\ lollipop' \in Workflow /\ uncovered' \in BOOLEAN
    BY <1>1, <1>2, EventTypes
  <2> QED
    BY <2>1, <1>3, <1>6, <1>9 DEF Touches
<1> QED
  BY <1>8, <1>10, <1>11

\* A poll takes over what the broker says.
LEMMA ReadKeeps ==
  ASSUME TypeOK, BooksSound, NEW o \in Slots, o \in Active, orders[o].broker # NoBroker,
         OnOrderEvent(o, Event(o, SnapshotStatus(o), exec[o], TRUE)), UNCHANGED broker
  PROVE  /\ Touches(o) /\ BooksSound' /\ (TradeSound => TradeSound' /\ OwedStays)
         /\ orders'[o].broker = o
<1> DEFINE st == SnapshotStatus(o)
           e == Event(o, st, exec[o], TRUE)
           s == AfterOrderEvent(orders[o], e)
<1>1. /\ orders[o] \in Order /\ Sound(o) /\ role[o] # "none" /\ ~IsFinal(orders[o])
      /\ orders[o].broker = o /\ exec[o] \in Nat /\ atBroker[o] \in BrokerStates
      /\ o # NoBroker
  BY SlotsFinite, SlotsAssumption DEF TypeOK, BooksSound, Active, Used, Sound
<1>2. /\ st \in {"working", "partially_filled", "filled", "canceled", "rejected"}
      /\ st = "filled" => exec[o] = orders[o].qty
      /\ st \in FinalStatus <=> atBroker[o] # "live"
      /\ exec[o] = orders[o].qty => st \in FinalStatus
  BY <1>1 DEF SnapshotStatus, Sound, BrokerStates, FinalStatus, Order
<1> HIDE DEF st
<1>3. /\ e \in OrderEvents /\ e.priced /\ e.cum = exec[o] /\ e.status = st /\ e.broker = o
  BY <1>1, <1>2, SlotsAssumption DEF Event, OrderEvents, Status, OpenStatus, FinalStatus
<1>4. OnOrderEvent(o, e)
  BY DEF st
<1> HIDE DEF e
<1>5. /\ s \in Order /\ s.qty = orders[o].qty /\ s.anchored = orders[o].anchored
      /\ s.broker = o
  BY <1>1, <1>3, EventAdds
<1>6. /\ s.cum = exec[o] /\ (s.cum >= s.qty => IsFinal(s))
      /\ IsFinal(s) => st \in FinalStatus
      /\ s.status = "filled" => s.cum = s.qty
  <2>1. orders[o].cum <= exec[o] /\ exec[o] <= orders[o].qty
    BY <1>1 DEF Sound
  <2> QED
    BY <1>1, <1>2, <1>3, <2>1, SnapshotEvent
<1>7. /\ \A p \in Slots : orders'[p] = IF p = o THEN s ELSE orders[p]
      /\ role' = role
  BY <1>3, <1>4, LedgerAfter
<1>8. Sound(o)'
  <2>1. /\ orders'[o] = s /\ role'[o] = role[o] /\ exec'[o] = exec[o]
        /\ atBroker'[o] = atBroker[o]
    BY <1>7 DEF broker
  <2>2. IsFinal(s) => atBroker[o] \notin {"live", "limbo"}
    BY <1>1, <1>2, <1>6 DEF Sound
  <2> QED
    BY <2>1, <2>2, <1>1, <1>5, <1>6 DEF Sound, Unsettled
<1>9. BooksSound'
  BY <1>3, <1>4, <1>8, EventBooks DEF broker
<1>10. Active' \subseteq Active /\ Active \ {o} \subseteq Active'
  BY <1>1, <1>7 DEF Active, Used
<1>11. TradeSound => TradeSound' /\ OwedStays
  BY <1>3, <1>4, <1>5, <1>6, <1>8, EventTrade DEF broker
<1>12. Touches(o)
  <2>1. /\ orders' \in [Slots -> Order] /\ role' \in [Slots -> {"entry", "exit", "none"}]
        /\ position' \in Int /\ lollipop' \in Workflow /\ uncovered' \in BOOLEAN
    BY <1>3, <1>4, EventTypes
  <2> QED
    BY <2>1, <1>5, <1>7, <1>10 DEF Touches
<1> QED
  BY <1>5, <1>7, <1>9, <1>11, <1>12

-------------------------------------------------------------------------------
(***************************************************************************)
(* Control flow.                                                           *)
(***************************************************************************)

ControlTypes ==
  /\ pc \in TradingPcs \cup FlattenPcs \cup HandlerPcs \cup {"halted"}
  /\ then \in TradingPcs \cup FlattenPcs
  /\ todo \subseteq Slots /\ cancels \subseteq Slots
  /\ plan \in Plans

\* A stage may be passed over when no entry is left to cancel.
Reached(label, p) ==
  At' = label \/ (label = "entryCancel" /\ At' \in {"exit", "board"})

\* Going on at a stage that the plan fits.
LEMMA EnterFits ==
  ASSUME NEW label \in Labels, NEW ids \in SUBSET Slots, NEW p \in Plans,
         Enter(label, ids, p), PlanFits(label, p)', report' = "none",
         guarded' => label \in FlattenPcs,
         label = "exitCancel" => ids # {} /\ ids \subseteq ActiveOf("exit")',
         label = "cancelAll" => ids \subseteq Active',
         label \notin {"exitCancel", "cancelAll"} => ids = {}
  PROVE  ControlSound' /\ ControlTypes' /\ Reached(label, p) /\ pc' # "poll"
<1>1. ActiveOf("entry")' \subseteq Slots /\ 0 \notin Slots
  BY SlotsFinite DEF ActiveOf, Active, Used
<1>2. NoPlan \in Plans
  BY DEF NoPlan, Plans
<1>3. Labels \subseteq (TradingPcs \cup FlattenPcs) /\ "poll" \notin Labels
      /\ HandlerPcs \cap Labels = {} /\ "halted" \notin Labels
      /\ FlattenPcs \cap (TradingPcs \cup {"fault", "caught"}) = {}
      /\ "again" \notin Labels
      /\ {"board", "exit", "entryCancel", "exitCancel", "cancelAll"} \subseteq Labels
  BY DEF Labels, TradingPcs, FlattenPcs, HandlerPcs
<1>4. CASE label # "entryCancel" \/ ActiveOf("entry")' # {}
  <2>1. /\ pc' = label /\ todo' = {} /\ then' = "board"
        /\ cancels' = IF label = "entryCancel" THEN ActiveOf("entry")' ELSE ids
        /\ plan' = IF label = "board" THEN NoPlan ELSE p
    BY <1>4 DEF Enter
  <2>2. At' = label
    BY <2>1, <1>3 DEF At
  <2>3. PlanFits(At, plan)'
    BY <2>1, <2>2 DEF PlanFits, ToSend, BeforeEntry, BeforeExit, NoPlan
  <2>4. CancelsFit'
    BY <1>4, <2>1 DEF CancelsFit, TradingPcs, HandlerPcs
  <2>5. ControlTypes'
    BY <1>1, <1>2, <1>3, <2>1 DEF ControlTypes
  <2> QED
    BY <1>3, <2>1, <2>2, <2>3, <2>4, <2>5 DEF ControlSound, Reached
<1>5. CASE label = "entryCancel" /\ ActiveOf("entry")' = {}
  <2> DEFINE at == AfterEntryCancel(p)
  <2>1. at \in {"exit", "board"} /\ (at = "exit" <=> p.exit # 0) /\ p.entry = 0
    BY <1>5 DEF PlanFits, AfterEntryCancel, AfterEntry
  <2>2. /\ pc' = at /\ todo' = {} /\ then' = "board" /\ cancels' = {}
        /\ plan' = IF at = "board" THEN NoPlan ELSE p
    BY <1>5 DEF Enter
  <2>3. At' = at
    BY <2>1, <2>2 DEF At
  <2>4. PlanFits(At, plan)'
    <3>1. \A o \in Active' : o # 0
      BY <1>1 DEF Active, Used
    <3> QED
      BY <1>5, <2>1, <2>2, <2>3, <3>1
         DEF PlanFits, ToSend, BeforeEntry, BeforeExit, NoPlan, TradingPcs
  <2>5. CancelsFit'
    BY <2>1, <2>2 DEF CancelsFit
  <2>6. ControlTypes'
    BY <1>2, <2>1, <2>2 DEF ControlTypes, TradingPcs, FlattenPcs
  <2>7. ~guarded'
    BY <1>5 DEF FlattenPcs
  <2> QED
    BY <1>5, <2>1, <2>2, <2>3, <2>4, <2>5, <2>6, <2>7 DEF ControlSound, Reached
<1> QED
  BY <1>4, <1>5

\* Polling on the way there.
LEMMA PollFits ==
  ASSUME NEW label \in PollLabels, NEW p \in Plans,
         StartPoll(label, {}, p), PlanFits(label, p)', report' = "none",
         guarded' => label \in FlattenPcs
  PROVE  ControlSound' /\ ControlTypes' /\ Reached(label, p)
<1>1. label \in Labels /\ label # "cancelAll" /\ label # "exitCancel"
  BY DEF Labels, PollLabels, TradingPcs, FlattenPcs
<1>4. FlattenPcs \cap (TradingPcs \cup {"fault", "caught"}) = {}
  BY DEF TradingPcs, FlattenPcs
<1>2. CASE Active' = {}
  <2>1. Enter(label, {}, p)
    BY <1>2 DEF StartPoll
  <2> QED
    BY <1>1, <2>1, EnterFits
<1>3. CASE Active' # {}
  <2>1. pc' = "poll" /\ then' = label /\ todo' = Active' /\ cancels' = {} /\ plan' = p
    BY <1>3 DEF StartPoll
  <2>2. At' = label
    BY <2>1 DEF At
  <2>3. ControlTypes'
    BY <1>1, <2>1 DEF ControlTypes, Labels, TradingPcs, FlattenPcs, Active, Used
  <2> QED
    BY <1>4, <2>1, <2>2, <2>3 DEF ControlSound, CancelsFit, Reached
<1> QED
  BY <1>2, <1>3

\* Leaving the plan behind.
LEMMA LeaveFits ==
  ASSUME NEW label \in HandlerPcs \cup {"verify", "readPosition", "halted"}, Leave(label),
         label # "halted" => report' = "none",
         label \in {"fault", "caught"} => ~guarded',
         label = "again" => guarded'
  PROVE  ControlSound' /\ ControlTypes' /\ At' = label /\ pc' = label
<1>1. /\ pc' = label /\ todo' = {} /\ cancels' = {} /\ then' = "board" /\ plan' = NoPlan
  BY DEF Leave
<1>2. At' = label
  BY <1>1 DEF At, HandlerPcs
<1>3. PlanFits(At, plan)'
  BY <1>1, <1>2 DEF PlanFits, NoPlan, BeforeEntry, BeforeExit, TradingPcs, HandlerPcs
<1>4. ControlTypes'
  BY <1>1 DEF ControlTypes, TradingPcs, FlattenPcs, Plans, NoPlan
<1> QED
  BY <1>1, <1>2, <1>3, <1>4 DEF ControlSound, CancelsFit, TradingPcs, HandlerPcs

\* What a step of the loop has to show.
LEMMA LoopSteps ==
  ASSUME TypeOK', BooksSound', TradeSound', DeferredOwed', ControlSound', Room',
         At' \in TradingPcs \cup {"fault", "caught"}
  PROVE  LiveInv'
<1>1. CleanupKnows'
  BY DEF CleanupKnows, TradingPcs
<1>2. FlattenHonest'
  BY DEF FlattenHonest, ControlSound, At, TradingPcs
<1> QED
  BY <1>1, <1>2 DEF LiveInv

\* What a step of the cleanup has to show.
LEMMA CleanupSteps ==
  ASSUME TypeOK', BooksSound', ControlSound', Room', CleanupKnows', At' \in FlattenPcs
  PROVE  LiveInv'
<1>1. ~Trading'
  BY DEF Trading, Flattening, At, TradingPcs, FlattenPcs
<1>2. DeferredOwed' /\ FlattenHonest'
  BY DEF FlattenHonest, ControlSound, At, FlattenPcs, DeferredOwed
<1> QED
  BY <1>1, <1>2 DEF LiveInv

\* What a broken-off cleanup has to show: the books tell the next one what is open.
LEMMA AgainSteps ==
  ASSUME TypeOK', BooksSound', ControlSound', Room', pc' = "again"
  PROVE  LiveInv'
<1>1. At' = "again" /\ ~Trading'
  BY DEF At, Trading, TradingPcs
<1>2. DeferredOwed' /\ CleanupKnows' /\ FlattenHonest'
  BY <1>1 DEF DeferredOwed, CleanupKnows, FlattenHonest, ControlSound
<1> QED
  BY <1>1, <1>2 DEF LiveInv

\* The end of a process keeps what the broker knows.
LEMMA StopKeeps ==
  ASSUME TypeOK, BooksSound, NEW r \in Reports, Stop(r),
         held' = held /\ stray' = stray /\ drift' = drift,
         \A o \in Slots :
           /\ exec'[o] = exec[o]
           /\ \/ atBroker'[o] = atBroker[o]
              \/ atBroker[o] = "none" /\ role[o] # "none" /\ atBroker'[o] \in {"limbo", "live"},
         atBroker' \in [Slots -> BrokerStates], exec' \in [Slots -> Nat],
         r = "completed" /\ ~unnamed
           => /\ held = 0 /\ stray.buy = 0 /\ stray.sell = 0
              /\ \A o \in Slots : atBroker'[o] \notin {"live", "limbo"},
         r = "not_required" /\ ~guarded
           => held = drift /\ \A o \in Slots : atBroker'[o] \notin {"live", "limbo"}
  PROVE  LiveInv'
<1>1. /\ \A o \in Slots : orders'[o] = NewOrder(orders[o].qty, TRUE)
      /\ role' = role /\ unnamed' = unnamed /\ guarded' = guarded
      /\ report' = r /\ rounds' = 0 /\ tried' = {}
      /\ position' = 0 /\ lollipop' = Idle /\ uncovered' = FALSE /\ Leave("halted")
      /\ orders' = [o \in Slots |-> NewOrder(orders[o].qty, TRUE)]
  BY DEF Stop
<1>2. ControlSound' /\ ControlTypes' /\ At' = "halted" /\ pc' = "halted"
  BY <1>1, LeaveFits DEF HandlerPcs
<1>3. \A o \in Slots : NewOrder(orders[o].qty, TRUE) \in Order
  BY DEF NewOrder, TypeOK, Order, Status, OpenStatus
<1>4. TypeOK'
  <2>1. /\ orders' \in [Slots -> Order] /\ role' \in [Slots -> {"entry", "exit", "none"}]
        /\ held' \in Nat /\ stray' \in [buy : Nat, sell : Nat] /\ drift' \in Int
        /\ guarded' \in BOOLEAN /\ unnamed' \in BOOLEAN /\ report' \in Reports
    BY <1>1, <1>3 DEF TypeOK
  <2>2. /\ lollipop' \in Workflow /\ position' \in Int /\ uncovered' \in BOOLEAN
        /\ rounds' \in 0 .. 3 /\ tried' \subseteq Slots
    <3>1. Idle \in Workflow
      BY RetriesAssumption DEF Idle, Workflow, Phases
    <3>2. 0 \in 0 .. 3 /\ 0 \in Int
      OBVIOUS
    <3>3. lollipop' \in Workflow /\ position' \in Int /\ rounds' \in 0 .. 3
      BY <1>1, <3>1, <3>2
    <3>4. uncovered' \in BOOLEAN /\ tried' \subseteq Slots
      BY <1>1
    <3> QED
      BY <3>3, <3>4
  <2> QED
    BY <1>2, <2>1, <2>2 DEF TypeOK, ControlTypes, Plans
<1>5. BooksSound'
  <2> SUFFICES ASSUME NEW o \in Slots PROVE Sound(o)'
    BY DEF BooksSound
  <2>1. Sound(o) /\ orders[o] \in Order /\ exec[o] \in Nat /\ o # 0 /\ NoBroker = 0
    BY SlotsFinite, SlotsAssumption DEF BooksSound, TypeOK
  <2>2. orders'[o] = NewOrder(orders[o].qty, TRUE) /\ role'[o] = role[o] /\ exec'[o] = exec[o]
    BY <1>1
  <2>3. role[o] = "none" => orders'[o] = Absent /\ atBroker'[o] = "none"
    <3>1. ASSUME role[o] = "none" PROVE orders[o] = NewOrder(1, TRUE) /\ atBroker'[o] = "none"
      BY <2>1, <3>1 DEF Sound, Absent
    <3>2. NewOrder(1, TRUE).qty = 1
      BY DEF NewOrder
    <3> QED
      BY <2>2, <3>1, <3>2 DEF Absent
  <2>4. /\ orders'[o].cum = 0 /\ orders'[o].qty = orders[o].qty /\ orders'[o].anchored
        /\ orders'[o].broker = NoBroker /\ ~IsFinal(orders'[o])
        /\ orders[o].qty \in Nat \ {0}
    BY <2>1, <2>2 DEF NewOrder, IsFinal, FinalStatus, Order
  <2>5. /\ exec[o] <= orders[o].qty
        /\ atBroker'[o] = "live" => exec[o] < orders[o].qty
        /\ atBroker'[o] = "filled" => exec[o] = orders[o].qty
        /\ atBroker'[o] \in {"none", "limbo", "rejected"} => exec[o] = 0
    BY <2>1, <2>4 DEF Sound
  <2> QED
    <3>1. /\ exec[o] \in Nat /\ o # NoBroker
          /\ orders'[o].cum <= exec'[o] /\ ~(orders'[o].cum >= orders'[o].qty)
      <4>1. exec[o] \in Nat /\ o # NoBroker /\ exec'[o] = exec[o]
        BY <2>1, <2>2
      <4>2. orders'[o].cum = 0 /\ orders'[o].qty \in Nat \ {0}
        BY <2>4
      <4> QED
        BY <4>1, <4>2
    <3>2. /\ exec'[o] <= orders'[o].qty
          /\ atBroker'[o] = "live" => exec'[o] < orders'[o].qty
          /\ atBroker'[o] = "filled" => exec'[o] = orders'[o].qty
          /\ atBroker'[o] \in {"none", "limbo", "rejected"} => exec'[o] = 0
      BY <2>2, <2>4, <2>5
    <3>3. (role[o] = "entry" => o \in EntrySlots) /\ (role[o] = "exit" => o \in ExitSlots)
      BY <2>1 DEF Sound
    <3> QED
      BY <2>2, <2>3, <2>4, <3>1, <3>2, <3>3 DEF Sound
<1>6. ~Trading' /\ DeferredOwed' /\ Room' /\ CleanupKnows'
  BY <1>2 DEF Trading, Flattening, TradingPcs, FlattenPcs, DeferredOwed, Room, RoomAt,
       CleanupKnows
<1>7. FlattenHonest'
  BY <1>1 DEF FlattenHonest
<1> QED
  BY <1>2, <1>4, <1>5, <1>6, <1>7 DEF LiveInv

-------------------------------------------------------------------------------
(***************************************************************************)
(* The broker's steps.                                                     *)
(***************************************************************************)

\* What a step of the broker about the order o has to show; k lots execute.
LEMMA BrokerSteps ==
  ASSUME LiveInv, NEW o \in Slots, Unsettled(o), UNCHANGED <<strategy, runtime>>,
         NEW k \in {0, 1},
         atBroker' \in [Slots -> BrokerStates], exec' \in [Slots -> Nat], held' \in Nat,
         \A p \in Slots \ {o} : atBroker'[p] = atBroker[p] /\ exec'[p] = exec[p],
         atBroker'[o] \notin {"none", "limbo"},
         exec'[o] = exec[o] + k,
         held' = IF role[o] = "entry" THEN held + k ELSE held - k,
         stray' = stray, drift' = drift,
         exec'[o] <= orders[o].qty,
         atBroker'[o] = "live" => exec'[o] < orders[o].qty,
         atBroker'[o] = "filled" => exec'[o] = orders[o].qty,
         atBroker'[o] = "rejected" => exec'[o] = 0
  PROVE  LiveInv'
<1>1. /\ orders' = orders /\ role' = role /\ position' = position /\ lollipop' = lollipop
      /\ uncovered' = uncovered /\ pc' = pc /\ then' = then /\ todo' = todo
      /\ cancels' = cancels /\ plan' = plan /\ rounds' = rounds /\ tried' = tried
      /\ report' = report /\ unnamed' = unnamed /\ guarded' = guarded
  BY DEF strategy, runtime, control, cleanup
<1>2. TypeOK /\ BooksSound /\ Sound(o) /\ ControlSound
  BY DEF LiveInv, BooksSound
<1>3. orders[o] \in Order /\ exec[o] \in Nat /\ held \in Nat /\ role[o] \in {"entry", "exit"}
  BY <1>2 DEF TypeOK, Sound, Unsettled
<1>4. TypeOK'
  BY <1>1, <1>2 DEF TypeOK
<1>5. At' = At /\ Active' = Active /\ \A r : ActiveOf(r)' = ActiveOf(r)
  BY <1>1 DEF At, Active, ActiveOf, Used
<1>6. Trading' <=> Trading
  BY <1>1 DEF Trading, Flattening
<1>7. BooksSound'
  <2> SUFFICES ASSUME NEW p \in Slots PROVE Sound(p)'
    BY DEF BooksSound
  <2>1. Sound(p)
    BY <1>2 DEF BooksSound
  <2>2. CASE p # o
    BY <1>1, <2>1, <2>2 DEF Sound, Absent, Unsettled
  <2>3. CASE p = o
    <3>1. orders[o].cum <= exec'[o]
      BY <1>2, <1>3 DEF Sound, Order
    <3>2. ~IsFinal(orders[o])
      BY <1>2 DEF Sound
    <3> QED
      BY <1>1, <1>2, <1>3, <2>3, <3>1, <3>2 DEF Sound
  <2> QED
    BY <2>2, <2>3
<1>8. ASSUME Trading PROVE TradeSound'
  <2>1. TradeSound
    BY <1>8 DEF LiveInv
  <2>2. \A p \in Slots : Unsettled(p)' => p \in Active'
    BY <1>5, <2>1 DEF TradeSound, Unsettled
  <2>3. Mirrored'
    <3> DEFINE f == [p \in Slots |-> Unseen(p)]
               g == [p \in Slots |-> Unseen(p)']
    <3>1. \A p \in Slots : f[p] \in Int /\ g[p] \in Int
      <4> SUFFICES ASSUME NEW p \in Slots PROVE f[p] \in Int /\ g[p] \in Int
        OBVIOUS
      <4>1. orders[p] \in Order /\ exec[p] \in Int /\ exec'[p] \in Int
        BY <1>2 DEF TypeOK
      <4> QED
        BY <4>1, <1>1 DEF Unseen, Order
    <3>2. \A p \in Slots \ {o} : g[p] = f[p]
      BY <1>1 DEF Unseen
    <3>3. g[o] - f[o] = IF role[o] = "entry" THEN k ELSE -k
      <4>1. g[o] = Unseen(o)' /\ f[o] = Unseen(o)
        OBVIOUS
      <4>2. exec[o] \in Int /\ orders[o].cum \in Int /\ exec'[o] = exec[o] + k /\ k \in Int
        BY <1>3 DEF Order
      <4> QED
        BY <4>1, <4>2, <1>1, <1>3 DEF Unseen
    <3>4. f[o] \in Int /\ g[o] \in Int
      BY <3>1
    <3> HIDE DEF f, g
    <3>5. SumFunctionOnSet(g, Slots) = SumFunctionOnSet(f, Slots) + g[o] - f[o]
      BY <3>1, <3>2, SlotsFinite, SumChanges
    <3>6. SumFunctionOnSet(f, Slots) \in Int
      BY <3>1, SlotsFinite, SumIsInt
    <3>7. /\ held = position + drift + SumFunctionOnSet(f, Slots)
          /\ position \in Int /\ drift \in Int
      BY <1>2, <2>1 DEF TradeSound, Mirrored, TypeOK, f
    <3>8. held' = position' + drift' + SumFunctionOnSet(g, Slots)
      BY <3>3, <3>4, <3>5, <3>6, <3>7, <1>1, <1>3
    <3> QED
      BY <3>8 DEF Mirrored, g
  <2> QED
    BY <1>1, <1>5, <2>1, <2>2, <2>3
       DEF TradeSound, Single, Covered, ExitOwed, Open
<1>9. DeferredOwed' /\ Room'
  BY <1>1, <1>5 DEF LiveInv, DeferredOwed, ForceOwed, Room, RoomAt
<1>10. ControlSound'
  <2>1. \A p \in Slots, r \in {"entry", "exit"} : Fresh(p, r) => Fresh(p, r)'
    BY <1>1 DEF Fresh, Unsettled
  <2>2. PlanFits(At, plan)'
    <3>1. plan.entry # 0 => plan.entry \in Slots
      BY <1>2 DEF TypeOK
    <3>2. plan.exit # 0 => plan.exit \in Slots
      BY <1>2 DEF TypeOK
    <3> QED
      BY <1>1, <1>2, <1>5, <2>1, <3>1, <3>2 DEF ControlSound, PlanFits, ToSend
  <2>3. CancelsFit'
    BY <1>1, <1>2, <1>5 DEF ControlSound, CancelsFit
  <2> QED
    BY <1>1, <1>2, <1>5, <2>2, <2>3 DEF ControlSound
<1>11. CleanupKnows'
  <2> SUFFICES ASSUME ~unnamed PROVE CleanupKnows'
    BY <1>1 DEF CleanupKnows
  <2>1. CleanupKnows
    BY DEF LiveInv
  <2>2. /\ At # "readPosition"
        /\ At \in {"flatten", "lastPosition"} => stray'.buy = 0 /\ stray'.sell = 0
    BY <2>1 DEF CleanupKnows
  <2>3. At = "cancelAll" => \A p \in Slots : atBroker'[p] = "limbo" => p \in cancels'
    BY <1>1, <2>1 DEF CleanupKnows
  <2>4. At \in {"scan", "scanCancel", "verify"} => \A p \in Slots : atBroker'[p] # "limbo"
    BY <2>1 DEF CleanupKnows
  <2>5. ASSUME At \in {"flatten", "lastPosition"}
        PROVE  /\ role[o] = "exit" /\ held' = Leaves(o)'
               /\ \A p \in Slots : Unsettled(p)' => p = o
               /\ At = "flatten" => o = plan.exit
    <3>1. /\ role[o] = "exit" /\ held = Leaves(o)
          /\ \A p \in Slots : Unsettled(p) => p = o
          /\ At = "flatten" => o = plan.exit
      BY <2>1, <2>5 DEF CleanupKnows
    <3>2. held' = Leaves(o)'
      <4>1. held = orders[o].qty - exec[o] /\ exec'[o] = exec[o] + k /\ held' = held - k
        BY <3>1 DEF Leaves
      <4>2. exec[o] \in Int /\ orders[o].qty \in Int /\ k \in Int
        BY <1>3 DEF Order
      <4> QED
        BY <1>1, <4>1, <4>2 DEF Leaves
    <3> QED
      BY <3>1, <3>2 DEF Unsettled
  <2> QED
    BY <1>1, <1>5, <2>2, <2>3, <2>4, <2>5 DEF CleanupKnows
<1>12. FlattenHonest'
  BY <1>1 DEF LiveInv, FlattenHonest, Unsettled
<1> QED
  BY <1>4, <1>6, <1>7, <1>8, <1>9, <1>10, <1>11, <1>12 DEF LiveInv

\* Executions, cancels, rejections and late arrivals of the orders of the ledger.
LEMMA OwnOrdersInv ==
  ASSUME LiveInv, NEW o \in Slots,
         Execute(o) \/ BrokerCancels(o) \/ BrokerRejects(o) \/ LimboEnds(o)
  PROVE  LiveInv'
<1>1. /\ TypeOK /\ Sound(o) /\ orders[o] \in Order /\ exec[o] \in Nat /\ held \in Nat
      /\ atBroker \in [Slots -> BrokerStates] /\ exec \in [Slots -> Nat]
      /\ orders[o].qty \in Nat
  BY DEF LiveInv, BooksSound, TypeOK, Order
<1>2. CASE Execute(o)
  <2>1. /\ atBroker[o] = "live" /\ exec[o] < orders[o].qty
        /\ UNCHANGED <<strategy, runtime>> /\ stray' = stray /\ drift' = drift
        /\ exec' = [exec EXCEPT ![o] = @ + 1]
        /\ held' = IF role[o] = "entry" THEN held + 1 ELSE held - 1
        /\ atBroker' = [atBroker EXCEPT ![o] = IF Leaves(o) = 1 THEN "filled" ELSE "live"]
        /\ role[o] \in {"entry", "exit"} /\ (role[o] = "exit" => held > 0)
    BY <1>1, <1>2 DEF Execute, Sound, TypeOK
  <2>2. Leaves(o) = 1 <=> exec[o] + 1 = orders[o].qty
    BY <1>1 DEF Leaves
  <2>3. /\ exec'[o] = exec[o] + 1 /\ exec' \in [Slots -> Nat] /\ held' \in Nat
        /\ atBroker' \in [Slots -> BrokerStates]
        /\ atBroker'[o] = IF exec'[o] = orders[o].qty THEN "filled" ELSE "live"
        /\ \A p \in Slots \ {o} : atBroker'[p] = atBroker[p] /\ exec'[p] = exec[p]
    BY <1>1, <2>1, <2>2 DEF BrokerStates
  <2>4. exec'[o] <= orders[o].qty /\ (atBroker'[o] = "live" => exec'[o] < orders[o].qty)
    BY <1>1, <2>1, <2>3
  <2> QED
    BY <2>1, <2>3, <2>4, BrokerSteps DEF Unsettled
<1>3. CASE BrokerCancels(o) \/ BrokerRejects(o) \/ LimboEnds(o)
  <2>1. /\ Unsettled(o) /\ UNCHANGED <<exec, held, strategy, runtime>>
        /\ stray' = stray /\ drift' = drift
        /\ \E s \in {"live", "rejected", "canceled"} :
             /\ atBroker' = [atBroker EXCEPT ![o] = s]
             /\ s = "rejected" => exec[o] = 0
             /\ s = "live" => exec[o] = 0
    BY <1>1, <1>3 DEF BrokerCancels, BrokerRejects, LimboEnds, Unsettled, Sound
  <2>2. exec[o] <= orders[o].qty /\ orders[o].qty # 0
    BY <1>1 DEF Sound, Order
  <2>3. /\ atBroker' \in [Slots -> BrokerStates] /\ exec' \in [Slots -> Nat] /\ held' \in Nat
        /\ \A p \in Slots \ {o} : atBroker'[p] = atBroker[p] /\ exec'[p] = exec[p]
        /\ atBroker'[o] \in {"live", "rejected", "canceled"}
        /\ exec'[o] = exec[o] + 0 /\ held' = held + 0 /\ held' = held - 0
        /\ exec'[o] <= orders[o].qty
        /\ atBroker'[o] = "live" => exec'[o] < orders[o].qty
        /\ atBroker'[o] = "rejected" => exec'[o] = 0
    BY <1>1, <2>1, <2>2 DEF BrokerStates
  <2> QED
    BY <2>1, <2>3, BrokerSteps
<1> QED
  BY <1>2, <1>3

\* Orders no ledger holds execute and end: held and drift move together.
LEMMA StrayInv ==
  ASSUME LiveInv, StrayExecutes \/ StrayEnds
  PROVE  LiveInv'
<1>1. /\ orders' = orders /\ role' = role /\ position' = position /\ lollipop' = lollipop
      /\ uncovered' = uncovered /\ pc' = pc /\ then' = then /\ todo' = todo
      /\ cancels' = cancels /\ plan' = plan /\ rounds' = rounds /\ tried' = tried
      /\ report' = report /\ unnamed' = unnamed /\ guarded' = guarded
      /\ atBroker' = atBroker /\ exec' = exec
  BY DEF StrayExecutes, StrayEnds, strategy, runtime, control, cleanup
<1>2. TypeOK /\ held \in Nat /\ drift \in Int /\ stray.buy \in Nat /\ stray.sell \in Nat
      /\ stray \in [buy : Nat, sell : Nat]
  BY DEF LiveInv, TypeOK
<1>3. /\ held' \in Nat /\ drift' \in Int
      /\ held' - drift' = held - drift
      /\ stray.buy > 0 \/ stray.sell > 0
  BY <1>2 DEF StrayExecutes, StrayEnds
<1>4. stray' \in [buy : Nat, sell : Nat]
  <2>1. PICK side \in {"buy", "sell"} :
          stray[side] > 0 /\ stray' = [stray EXCEPT ![side] = stray[side] - 1]
    BY DEF StrayExecutes, StrayEnds
  <2>2. stray[side] - 1 \in Nat
    BY <1>2, <2>1
  <2> QED
    BY <1>2, <2>1, <2>2
<1>5. TypeOK'
  BY <1>1, <1>2, <1>3, <1>4 DEF TypeOK
<1>6. /\ At' = At /\ Active' = Active /\ \A r : ActiveOf(r)' = ActiveOf(r)
      /\ (Trading' <=> Trading)
  BY <1>1 DEF At, Active, ActiveOf, Used, Trading, Flattening
<1>7. BooksSound'
  BY <1>1 DEF LiveInv, BooksSound, Sound, Absent, Unsettled
<1>8. ASSUME Trading PROVE TradeSound'
  <2>1. TradeSound
    BY <1>8 DEF LiveInv
  <2>2. [o \in Slots |-> Unseen(o)]' = [o \in Slots |-> Unseen(o)]
    BY <1>1 DEF Unseen
  <2>3. SumFunctionOnSet([o \in Slots |-> Unseen(o)], Slots) \in Int /\ position \in Int
    <3> DEFINE f == [o \in Slots |-> Unseen(o)]
    <3>1. ASSUME NEW o \in Slots PROVE f[o] \in Int
      <4>1. orders[o] \in Order /\ exec[o] \in Int
        BY <1>2 DEF TypeOK
      <4> QED
        BY <4>1 DEF Unseen, Order
    <3> HIDE DEF f
    <3>2. SumFunctionOnSet(f, Slots) \in Int
      BY <3>1, SlotsFinite, SumIsInt
    <3> QED
      BY <1>2, <3>2 DEF TypeOK, f
  <2>4. PICK m : m = SumFunctionOnSet([o \in Slots |-> Unseen(o)], Slots)
    OBVIOUS
  <2>5. held = position + drift + m
    BY <2>1, <2>4 DEF TradeSound, Mirrored
  <2>6. held' = position' + drift' + m
    BY <1>1, <1>2, <1>3, <2>3, <2>4, <2>5
  <2>7. Mirrored'
    BY <2>2, <2>4, <2>6 DEF Mirrored
  <2> QED
    BY <1>1, <1>6, <2>1, <2>7 DEF TradeSound, Single, Unsettled, Covered, ExitOwed, Open
<1>9. DeferredOwed' /\ Room'
  BY <1>1, <1>6 DEF LiveInv, DeferredOwed, ForceOwed, Room, RoomAt
<1>10. ControlSound'
  <2>1. \A p \in Slots, r \in {"entry", "exit"} : Fresh(p, r)' <=> Fresh(p, r)
    BY <1>1 DEF Fresh
  <2>2. ControlSound /\ plan \in Plans
    BY <1>2 DEF LiveInv, TypeOK, Plans
  <2>3. PlanFits(At, plan)'
    BY <1>1, <1>6, <2>1, <2>2 DEF ControlSound, PlanFits, ToSend, Plans
  <2>4. CancelsFit'
    BY <1>1, <1>6, <2>2 DEF ControlSound, CancelsFit
  <2> QED
    BY <1>1, <1>6, <2>2, <2>3, <2>4 DEF ControlSound
<1>11. CleanupKnows'
  BY <1>1, <1>3, <1>6 DEF LiveInv, CleanupKnows, Unsettled
<1>12. FlattenHonest'
  <2>1. FlattenHonest
    BY DEF LiveInv
  <2>2. report = "completed" => unnamed
    BY <1>3, <2>1 DEF FlattenHonest
  <2>3. ASSUME held = drift PROVE held' = drift'
    <3>1. (held' = held + 1 /\ drift' = drift + 1) \/ (held' = held - 1 /\ drift' = drift - 1)
            \/ (held' = held /\ drift' = drift)
      BY DEF StrayExecutes, StrayEnds
    <3> QED
      BY <2>3, <3>1
  <2> QED
    BY <1>1, <2>1, <2>2, <2>3 DEF FlattenHonest
<1> QED
  BY <1>5, <1>6, <1>7, <1>8, <1>9, <1>10, <1>11, <1>12 DEF LiveInv

\* Executions, cancels, rejections and late arrivals.
LEMMA EnvironmentInv ==
  ASSUME LiveInv, Environment
  PROVE  LiveInv'
BY OwnOrdersInv, StrayInv DEF Environment

-------------------------------------------------------------------------------
(***************************************************************************)
(* Polls.                                                                  *)
(***************************************************************************)

\* The cleanup's own variables are reset.
Reset == rounds' = 0 /\ tried' = {} /\ unnamed' \in BOOLEAN /\ UNCHANGED <<report, guarded>>

\* Types after a step that leaves the cleanup alone, or resets it.
LEMMA TypesJoin ==
  ASSUME TypeOK, ControlTypes',
         atBroker' \in [Slots -> BrokerStates], exec' \in [Slots -> Nat], held' \in Nat,
         orders' \in [Slots -> Order], role' \in [Slots -> {"entry", "exit", "none"}],
         position' \in Int, lollipop' \in Workflow, uncovered' \in BOOLEAN,
         stray' = stray, drift' = drift, UNCHANGED cleanup \/ Reset
  PROVE  TypeOK'
<1>1. /\ rounds' \in 0 .. 3 /\ tried' \subseteq Slots /\ report' \in Reports
      /\ unnamed' \in BOOLEAN /\ guarded' \in BOOLEAN
  <2>1. 0 \in 0 .. 3
    OBVIOUS
  <2> QED
    BY <2>1 DEF TypeOK, cleanup, Reset
<1> QED
  BY <1>1 DEF TypeOK, ControlTypes, Plans

\* A plan still fits when an order that is not in it was named by the broker.
LEMMA FitStays ==
  ASSUME BooksSound, NEW o \in Slots, Touches(o), orders'[o].broker = o,
         orders[o].broker # NoBroker, UNCHANGED broker,
         NEW at, NEW p \in Plans, PlanFits(at, p)
  PROVE  PlanFits(at, p)'
<1>1. \A q \in Slots : q # o => orders'[q] = orders[q]
  BY DEF Touches
<1>2. /\ role' = role /\ atBroker' = atBroker /\ Active' \subseteq Active
  BY DEF Touches, broker
<1>3. \A q \in Slots, r \in {"entry", "exit"} : Fresh(q, r) => q # o /\ Fresh(q, r)'
  <2> SUFFICES ASSUME NEW q \in Slots, NEW r \in {"entry", "exit"}, Fresh(q, r)
               PROVE  q # o /\ Fresh(q, r)'
    OBVIOUS
  <2>1. orders[q].broker = NoBroker
    BY DEF Fresh, NewOrder
  <2> QED
    BY <1>1, <1>2, <2>1 DEF Fresh
<1>4. (p.entry # 0 => p.entry \in Slots) /\ (p.exit # 0 => p.exit \in Slots)
  BY DEF Plans
<1>5. \A q \in Active' : orders'[q].broker = q \/ (orders'[q] = orders[q] /\ q \in Active)
  BY <1>1, <1>2 DEF Active, Used
<1> QED
  BY <1>2, <1>3, <1>4, <1>5 DEF PlanFits, ToSend

\* Polls go on with the next order, with the stage they return to, or to a fault.
LEMMA PollSteps ==
  ASSUME LiveInv, NEW o \in todo, pc = "poll", Touches(o), BooksSound',
         TradeSound => TradeSound' /\ OwedStays, UNCHANGED broker,
         \/ /\ orders'[o].broker = o /\ orders[o].broker # NoBroker
            /\ AfterPolling(o)
         \/ IF Flattening THEN Enter(then, cancels, plan) /\ UNCHANGED cleanup ELSE Halt
  PROVE  LiveInv'
<1>1. /\ TypeOK /\ BooksSound /\ ControlSound /\ o \in Slots /\ o \in Active
      /\ then \in PollLabels /\ At = then /\ PlanFits(then, plan)
      /\ cancels = {} /\ report = "none" /\ plan \in Plans
  BY DEF LiveInv, TypeOK, ControlSound, CancelsFit, At, TradingPcs, Plans
<1>2. /\ orders' \in [Slots -> Order] /\ role' \in [Slots -> {"entry", "exit", "none"}]
      /\ position' \in Int /\ lollipop' \in Workflow /\ uncovered' \in BOOLEAN
      /\ role' = role /\ Active' \subseteq Active /\ Active \ {o} \subseteq Active'
      /\ \A p \in Slots : orders'[p].qty = orders[p].qty
  BY DEF Touches
<1>3. /\ atBroker' = atBroker /\ exec' = exec /\ held' = held /\ stray' = stray /\ drift' = drift
      /\ atBroker' \in [Slots -> BrokerStates] /\ exec' \in [Slots -> Nat] /\ held' \in Nat
  BY <1>1 DEF broker, TypeOK
<1>4. Flattening <=> then \in {"scan", "lastPosition"}
  BY <1>1 DEF Flattening, FlattenPcs, PollLabels
<1>10. ~Flattening => ~guarded
  <2>1. ~Flattening => then \in TradingPcs
    BY <1>1, <1>4 DEF PollLabels, TradingPcs
  <2> QED
    BY <1>1, <2>1 DEF ControlSound
<1> PICK label \in PollLabels, p \in Plans : label = then /\ p = plan
  BY <1>1
<1>5. ASSUME UNCHANGED cleanup, ControlSound', ControlTypes', Reached(label, p)
      PROVE  LiveInv'
  <2>1. report' = "none" /\ unnamed' = unnamed /\ guarded' = guarded
    BY <1>1, <1>5 DEF cleanup
  <2>2. TypeOK'
    BY <1>1, <1>2, <1>3, <1>5, TypesJoin
  <2>3. Room'
    <3>1. RoomAt(then)
      BY <1>1 DEF LiveInv, Room
    <3> QED
      BY <1>1, <1>2, <1>5, <2>1, <3>1 DEF Room, RoomAt, Reached, PollLabels
  <2>4. CASE Flattening
    <3>1. At' = then /\ then \in {"scan", "lastPosition"}
      BY <1>4, <1>5, <2>4 DEF Reached
    <3>2. CleanupKnows
      BY DEF LiveInv
    <3>3. CleanupKnows'
      BY <1>1, <1>2, <1>3, <2>1, <3>1, <3>2 DEF CleanupKnows, Unsettled, Leaves
    <3> QED
      BY <1>5, <2>2, <2>3, <3>1, <3>3, CleanupSteps DEF FlattenPcs
  <2>5. CASE ~Flattening
    <3>1. At' \in TradingPcs /\ then \notin {"exitCancel"}
          /\ (At' = "release" => then = "release") /\ At' # "exitCancel"
      BY <1>1, <1>4, <1>5, <2>5 DEF Reached, PollLabels, TradingPcs
    <3>2. TradeSound
      <4>1. Trading
        BY <1>1, <1>4, <2>5 DEF Trading, TradingPcs
      <4> QED
        BY <4>1 DEF LiveInv
    <3>3. TradeSound' /\ OwedStays
      BY <3>2
    <3>4. DeferredOwed'
      <4> SUFFICES ASSUME At' = "release" PROVE ForceOwed'
        BY <3>1 DEF DeferredOwed
      <4>1. then = "release" /\ plan.exitCancel /\ ForceOwed
        BY <1>1, <3>1 DEF PlanFits, LiveInv, DeferredOwed
      <4> QED
        BY <4>1, <3>3 DEF OwedStays
    <3> QED
      BY <1>5, <2>2, <2>3, <3>1, <3>3, <3>4, LoopSteps
  <2> QED
    BY <2>4, <2>5
<1>6. CASE Halt /\ ~Flattening
  <2>1. UNCHANGED cleanup /\ Leave("fault")
    BY <1>6 DEF Halt
  <2>2. report' = "none" /\ ~guarded'
    BY <1>1, <1>6, <1>10, <2>1 DEF cleanup
  <2>3. ControlSound' /\ ControlTypes' /\ At' = "fault"
    BY <2>1, <2>2, LeaveFits DEF HandlerPcs
  <2>4. TypeOK'
    BY <1>1, <1>2, <1>3, <2>1, <2>3, TypesJoin
  <2>5. Room' /\ DeferredOwed'
    <3>1. RoomAt(then) /\ then # "lastPosition"
      BY <1>1, <1>4, <1>6 DEF LiveInv, Room
    <3> QED
      BY <1>1, <1>2, <2>3, <3>1 DEF Room, RoomAt, PollLabels, DeferredOwed
  <2>6. TradeSound'
    <3>1. Trading
      BY <1>1, <1>4, <1>6 DEF Trading, TradingPcs
    <3> QED
      BY <3>1 DEF LiveInv
  <2> QED
    BY <2>3, <2>4, <2>5, <2>6, LoopSteps
<1>7. ASSUME Enter(then, cancels, plan), UNCHANGED cleanup, PlanFits(label, p)'
      PROVE  LiveInv'
  <2>1. report' = "none" /\ (guarded' => label \in FlattenPcs)
    <3>1. Flattening => then \in FlattenPcs
      BY <1>4 DEF FlattenPcs
    <3> QED
      BY <1>1, <1>7, <1>10, <3>1 DEF cleanup
  <2>2. Enter(label, {}, p) /\ label \in Labels /\ label \notin {"exitCancel", "cancelAll"}
    BY <1>1, <1>7 DEF PollLabels, Labels, TradingPcs, FlattenPcs
  <2>3. ControlSound' /\ ControlTypes' /\ Reached(label, p)
    BY <1>7, <2>1, <2>2, EnterFits
  <2> QED
    BY <1>5, <1>7, <2>3
<1>8. CASE orders'[o].broker = o /\ orders[o].broker # NoBroker /\ AfterPolling(o)
  <2>1. PlanFits(label, p)'
    BY <1>1, <1>8, FitStays
  <2>2. CASE todo # {o}
    <3>1. /\ todo' = todo \ {o} /\ pc' = pc /\ then' = then /\ cancels' = cancels
          /\ plan' = plan /\ UNCHANGED cleanup
      BY <1>8, <2>2 DEF AfterPolling
    <3>2. At' = then /\ report' = "none" /\ guarded' = guarded
      BY <1>1, <3>1 DEF At, cleanup
    <3>3. todo' \subseteq Active'
      BY <1>1, <1>2, <3>1 DEF ControlSound
    <3>4. ControlSound'
      <4>1. PlanFits(At, plan)'
        BY <2>1, <3>1, <3>2 DEF PlanFits, ToSend
      <4> QED
        BY <1>1, <3>1, <3>2, <3>3, <4>1 DEF ControlSound, CancelsFit
    <3>5. ControlTypes'
      BY <1>1, <3>1 DEF TypeOK, ControlTypes, Plans
    <3> QED
      BY <1>5, <3>1, <3>2, <3>4, <3>5 DEF Reached
  <2>3. CASE todo = {o}
    BY <1>6, <1>7, <1>8, <2>1, <2>3 DEF AfterPolling
  <2> QED
    BY <2>2, <2>3
<1>9. CASE IF Flattening THEN Enter(then, cancels, plan) /\ UNCHANGED cleanup ELSE Halt
  <2>1. CASE Flattening
    <3>1. PlanFits(label, p)'
      <4>1. then \in {"scan", "lastPosition"}
        BY <1>4, <2>1
      <4> QED
        BY <1>1, <4>1 DEF PlanFits, BeforeEntry, BeforeExit, TradingPcs
    <3> QED
      BY <1>7, <1>9, <2>1, <3>1
  <2>2. CASE ~Flattening
    BY <1>6, <1>9, <2>2
  <2> QED
    BY <2>1, <2>2
<1> QED
  BY <1>8, <1>9

\* A poll reads an order, fails at it, or meets one that has no broker id.
LEMMA PollInv ==
  ASSUME LiveInv, Poll
  PROVE  LiveInv'
<1> PICK o \in Slots : PollReads(o) \/ PollFails(o) \/ PollMissesId(o)
  BY DEF Poll
<1>1. /\ pc = "poll" /\ o \in todo /\ UNCHANGED broker
  BY DEF PollReads, PollFails, PollMissesId
<1>2. TypeOK /\ BooksSound /\ o \in Active /\ Sound(o)
  BY <1>1 DEF LiveInv, ControlSound, BooksSound
<1>3. /\ exec' = exec /\ held' = held /\ stray' = stray /\ drift' = drift /\ atBroker' = atBroker
      /\ atBroker[o] = "live" => exec[o] < orders[o].qty
      /\ atBroker[o] = "filled" => exec[o] = orders[o].qty
      /\ atBroker[o] \in {"none", "limbo", "rejected"} => exec[o] = 0
      /\ orders[o].broker \in {NoBroker, o}
      /\ orders[o].broker = o => atBroker[o] \notin {"none", "limbo"}
  BY <1>1, <1>2 DEF broker, Sound
<1>4. CASE PollReads(o)
  <2>1. /\ orders[o].broker # NoBroker /\ AfterPolling(o)
        /\ OnOrderEvent(o, Event(o, SnapshotStatus(o), exec[o], TRUE))
    BY <1>4 DEF PollReads
  <2>2. /\ Touches(o) /\ BooksSound' /\ (TradeSound => TradeSound' /\ OwedStays)
        /\ orders'[o].broker = o
    BY <1>1, <1>2, <2>1, ReadKeeps
  <2> QED
    BY <1>1, <2>1, <2>2, PollSteps
<1>5. CASE PollFails(o)
  <2>1. orders[o].broker # NoBroker /\ AfterPolling(o)
    BY <1>5 DEF PollFails
  <2>2. CASE OnOrderEvent(o, Event(o, "unknown", NoCum, TRUE))
    <3>1. /\ Touches(o) /\ BooksSound' /\ (TradeSound => TradeSound' /\ OwedStays)
          /\ orders'[o].broker = o
      BY <1>2, <1>3, <2>1, <2>2, CallKeeps
    <3> QED
      BY <1>1, <2>1, <3>1, PollSteps
  <2>3. CASE UNCHANGED strategy
    <3>1. /\ orders' = orders /\ role' = role /\ position' = position
          /\ lollipop' = lollipop /\ uncovered' = uncovered
      BY <2>3 DEF strategy
    <3>2. Active' = Active /\ \A r : ActiveOf(r)' = ActiveOf(r)
      BY <3>1 DEF Active, Used, ActiveOf
    <3>3. Touches(o)
      BY <1>2, <3>1, <3>2 DEF Touches, TypeOK
    <3>4. BooksSound'
      BY <1>2, <1>3, <3>1 DEF BooksSound, Sound, Absent, Unsettled
    <3>5. TradeSound => TradeSound' /\ OwedStays
      BY <1>3, <3>1, <3>2
         DEF TradeSound, Single, Unsettled, Mirrored, Unseen, Covered, Open, ExitOwed,
             OwedStays, ForceOwed
    <3> QED
      BY <1>1, <1>3, <2>1, <3>1, <3>3, <3>4, <3>5, PollSteps
  <2> QED
    BY <1>5, <2>2, <2>3 DEF PollFails
<1>6. CASE PollMissesId(o)
  <2>1. /\ OnOrderEvent(o, Event(o, "unknown", NoCum, FALSE))
        /\ IF Flattening THEN Enter(then, cancels, plan) /\ UNCHANGED cleanup ELSE Halt
    BY <1>6 DEF PollMissesId
  <2>2. Touches(o) /\ BooksSound' /\ (TradeSound => TradeSound' /\ OwedStays)
    BY <1>2, <1>3, <2>1, CallKeeps
  <2> QED
    BY <1>1, <2>1, <2>2, PollSteps
<1> QED
  BY <1>4, <1>5, <1>6

-------------------------------------------------------------------------------
(***************************************************************************)
(* Boards, faults and reconnects.                                          *)
(***************************************************************************)

\* A halt of a sound strategy, or an exception.
LEMMA HaltSteps ==
  ASSUME LiveInv, At \in TradingPcs, Halt \/ Raise,
         atBroker' \in [Slots -> BrokerStates], exec' \in [Slots -> Nat], held' \in Nat,
         stray' = stray, drift' = drift,
         orders' \in [Slots -> Order], role' \in [Slots -> {"entry", "exit", "none"}],
         position' \in Int, lollipop' \in Workflow, uncovered' \in BOOLEAN,
         \A o \in Slots : role'[o] = "exit" => role[o] = "exit", BooksSound', TradeSound'
  PROVE  LiveInv'
<1> PICK label \in {"fault", "caught"} : Leave(label)
  BY DEF Halt, Raise
<1>1. UNCHANGED cleanup
  BY DEF Halt, Raise
<1>2. TypeOK /\ report = "none" /\ RoomAt(At) /\ ~guarded
  <2>1. pc # "halted"
    BY DEF At, TradingPcs
  <2> QED
    BY <2>1 DEF LiveInv, ControlSound, Room
<1>3. report' = "none" /\ ~guarded'
  BY <1>1, <1>2 DEF cleanup
<1>4. ControlSound' /\ ControlTypes' /\ At' = label
  BY <1>3, LeaveFits DEF HandlerPcs
<1>5. TypeOK'
  BY <1>1, <1>2, <1>4, TypesJoin
<1>6. Room' /\ DeferredOwed'
  BY <1>2, <1>4 DEF Room, RoomAt, DeferredOwed, TradingPcs
<1> QED
  BY <1>4, <1>5, <1>6, LoopSteps

\* With no order open, the account holds the strategy's position and what orders no
\* ledger holds bought.
LEMMA FlatMirror ==
  ASSUME TypeOK, BooksSound, TradeSound, Active = {}
  PROVE  held = position + drift /\ \A o \in Slots : ~Unsettled(o)
<1> DEFINE f == [o \in Slots |-> Unseen(o)]
<1>1. \A o \in Slots : f[o] = 0
  <2> SUFFICES ASSUME NEW o \in Slots PROVE Unseen(o) = 0
    OBVIOUS
  <2>1. role[o] # "none" => IsFinal(orders[o])
    BY DEF Active, Used
  <2>2. role[o] # "none" => orders[o].cum = exec[o]
    BY <2>1 DEF BooksSound, Sound
  <2>3. orders[o].cum \in Int /\ exec[o] \in Int
    BY DEF TypeOK, Order
  <2> QED
    BY <2>2, <2>3 DEF Unseen
<1>2. held = position + drift + SumFunctionOnSet(f, Slots) /\ position \in Int /\ drift \in Int
  BY DEF TradeSound, Mirrored, TypeOK
<1> HIDE DEF f
<1>3. SumFunctionOnSet(f, Slots) = 0
  BY <1>1, SlotsFinite, SumOfZeros
<1> QED
  BY <1>2, <1>3 DEF TradeSound

\* Orders that are over on both sides are dropped: what is open stays as it is.
LEMMA ForgetKeeps ==
  ASSUME TypeOK, BooksSound, Forget
  PROVE  /\ orders' \in [Slots -> Order] /\ role' \in [Slots -> {"entry", "exit", "none"}]
         /\ atBroker' \in [Slots -> BrokerStates] /\ exec' \in [Slots -> Nat]
         /\ held' = held /\ stray' = stray /\ drift' = drift
         /\ position' = position /\ lollipop' = lollipop /\ uncovered' = uncovered
         /\ BooksSound' /\ Active' = Active /\ \A r : ActiveOf(r)' = ActiveOf(r)
         /\ \A o \in Active : orders'[o] = orders[o]
         /\ \A o \in Slots : role'[o] # "none" => role'[o] = role[o] /\ o \in Active
         /\ TradeSound => TradeSound'
<1>3. /\ \A o \in Slots :
           /\ orders'[o] = IF o \in Finished THEN Absent ELSE orders[o]
           /\ role'[o] = IF o \in Finished THEN "none" ELSE role[o]
           /\ atBroker'[o] = IF o \in Finished THEN "none" ELSE atBroker[o]
           /\ exec'[o] = IF o \in Finished THEN 0 ELSE exec[o]
      /\ held' = held /\ stray' = stray /\ drift' = drift /\ position' = position /\ lollipop' = lollipop
      /\ uncovered' = uncovered
  BY DEF Forget
<1>4. /\ Absent \in Order /\ Absent.cum = 0 /\ Absent.qty = 1 /\ Absent.anchored
      /\ Absent.broker = NoBroker /\ ~IsFinal(Absent)
  BY DEF Absent, NewOrder, Order, Status, OpenStatus, IsFinal, FinalStatus
<1>5. /\ orders' \in [Slots -> Order] /\ role' \in [Slots -> {"entry", "exit", "none"}]
      /\ atBroker' \in [Slots -> BrokerStates] /\ exec' \in [Slots -> Nat]
  BY <1>4 DEF Forget, TypeOK, BrokerStates
<1>6. \A o \in Slots : o \in Finished => IsFinal(orders[o]) /\ ~Unsettled(o) /\ o \in Used
  BY DEF Finished, Unsettled
<1>7. Active' = Active /\ \A r : ActiveOf(r)' = ActiveOf(r)
  <2>1. \A o \in Slots : o \in Active' <=> o \in Active
    BY <1>3, <1>6 DEF Active, Used
  <2>2. Active' = Active
    BY <2>1 DEF Active, Used
  <2>3. \A o \in Active : role'[o] = role[o]
    BY <1>3, <1>6 DEF Active, Used
  <2> QED
    BY <2>2, <2>3 DEF ActiveOf
<1>8. BooksSound'
  <2> SUFFICES ASSUME NEW o \in Slots PROVE Sound(o)'
    BY DEF BooksSound
  <2>1. Sound(o)
    BY DEF BooksSound
  <2>2. CASE o \in Finished
    <3>1. /\ orders'[o] = Absent /\ role'[o] = "none" /\ atBroker'[o] = "none" /\ exec'[o] = 0
      BY <1>3, <2>2
    <3>2. o # NoBroker
      BY SlotsFinite, SlotsAssumption
    <3>3. Absent' = Absent
      BY DEF Absent, NewOrder
    <3> QED
      BY <1>4, <3>1, <3>2, <3>3 DEF Sound, Unsettled
  <2>3. CASE o \notin Finished
    BY <1>3, <2>1, <2>3 DEF Sound, Unsettled, Absent
  <2> QED
    BY <2>2, <2>3
<1>9. ASSUME TradeSound PROVE TradeSound'
  <2>1. \A o \in Slots : Unsettled(o)' => o \in Active'
    BY <1>3, <1>7, <1>9 DEF TradeSound, Unsettled
  <2>2. Mirrored'
    <3>1. ASSUME NEW o \in Slots PROVE Unseen(o)' = Unseen(o)
      <4>1. CASE o \in Finished
        <5>1. Unseen(o)' = 0
          BY <1>3, <4>1 DEF Unseen
        <5>2. orders[o].cum = exec[o] /\ exec[o] \in Nat /\ role[o] # "none"
          BY <1>6, <4>1 DEF BooksSound, Sound, TypeOK, Used
        <5> QED
          BY <5>1, <5>2 DEF Unseen
      <4>2. CASE o \notin Finished
        BY <1>3, <4>2 DEF Unseen
      <4> QED
        BY <4>1, <4>2
    <3>2. [o \in Slots |-> Unseen(o)]' = [o \in Slots |-> Unseen(o)]
      BY <3>1
    <3> QED
      BY <1>3, <1>9, <3>2 DEF TradeSound, Mirrored
  <2>3. \A o \in Active : orders'[o] = orders[o]
    BY <1>3, <1>6 DEF Active, Used
  <2>4. ActiveOf("exit") \subseteq Active
    BY DEF ActiveOf
  <2> QED
    BY <1>3, <1>7, <1>9, <2>1, <2>2, <2>3, <2>4
       DEF TradeSound, Single, Covered, ExitOwed, Open
<1>10. \A o \in Active : orders'[o] = orders[o]
  BY <1>3, <1>6 DEF Active, Used
<1>11. ASSUME NEW o \in Slots, role'[o] # "none"
       PROVE  role'[o] = role[o] /\ o \in Active
  <2>1. o \notin Finished /\ role[o] # "none" /\ role'[o] = role[o]
    BY <1>3, <1>11
  <2>2. ~IsFinal(orders[o])
    BY <2>1 DEF Finished, Used, BooksSound, Sound, Unsettled
  <2> QED
    BY <2>1, <2>2 DEF Active, Used
<1> QED
  BY <1>3, <1>5, <1>7, <1>8, <1>9, <1>10, <1>11

\* A board: finished orders are dropped; a poll follows, or breaks off.
LEMMA ReceiveBoardInv ==
  ASSUME LiveInv, ReceiveBoard
  PROVE  LiveInv'
<1>1. pc = "board" /\ Forget /\ PollOrRaise("decide", {}, NoPlan)
  BY DEF ReceiveBoard
<1>2. /\ TypeOK /\ BooksSound /\ ControlSound /\ At = "board" /\ TradeSound
      /\ report = "none" /\ Room /\ ~guarded /\ At \in TradingPcs
  BY <1>1 DEF LiveInv, ControlSound, At, Trading, Flattening, TradingPcs, FlattenPcs
<1>3. /\ orders' \in [Slots -> Order] /\ role' \in [Slots -> {"entry", "exit", "none"}]
      /\ atBroker' \in [Slots -> BrokerStates] /\ exec' \in [Slots -> Nat]
      /\ held' = held /\ stray' = stray /\ drift' = drift
      /\ position' = position /\ lollipop' = lollipop /\ uncovered' = uncovered
      /\ BooksSound' /\ Active' = Active
      /\ \A o \in Active : orders'[o] = orders[o]
      /\ \A o \in Slots : role'[o] # "none" => role'[o] = role[o] /\ o \in Active
      /\ TradeSound'
  BY <1>1, <1>2, ForgetKeeps
<1>4. /\ held' \in Nat /\ position' \in Int /\ lollipop' \in Workflow /\ uncovered' \in BOOLEAN
      /\ \A o \in Slots : role'[o] = "exit" => role[o] = "exit"
  <2>1. \A o \in Slots : role'[o] = "exit" => role[o] = "exit"
    BY <1>3
  <2> QED
    BY <1>2, <1>3, <2>1 DEF TypeOK
<1>5. CASE Raise
  BY <1>2, <1>3, <1>4, <1>5, HaltSteps
<1>6. CASE StartPoll("decide", {}, NoPlan) /\ UNCHANGED cleanup
  <2>1. PlanFits("decide", NoPlan)'
    <3>1. \A o \in Active : orders[o].broker = o
      BY <1>2 DEF ControlSound, PlanFits, ToSend, BeforeEntry, BeforeExit, TradingPcs
    <3>2. \A o \in Active' : orders'[o].broker = o
      BY <1>3, <3>1
    <3> QED
      BY <3>2 DEF PlanFits, NoPlan
  <2>2. ControlSound' /\ ControlTypes' /\ Reached("decide", NoPlan)
    <3>1. NoPlan \in Plans /\ "decide" \in PollLabels
      BY DEF NoPlan, Plans, PollLabels
    <3>2. report' = "none" /\ ~guarded'
      BY <1>2, <1>6 DEF cleanup
    <3> QED
      BY <1>6, <2>1, <3>1, <3>2, PollFits
  <2>3. At' = "decide"
    BY <2>2 DEF Reached
  <2>4. TypeOK'
    BY <1>2, <1>3, <1>4, <1>6, <2>2, TypesJoin
  <2>5. Room'
    <3>1. \A r \in {"entry", "exit"}, o, p \in Slots : role'[o] = r /\ role'[p] = r => o = p
      BY <1>2, <1>3 DEF TradeSound, Single, ActiveOf
    <3>2. \E a, b \in Slots : \A o \in Slots : role'[o] = "exit" => o \in {a, b}
      <4>1. PICK a \in Slots, b \in Slots : \A o \in Slots : role[o] = "exit" => o \in {a, b}
        BY <1>2 DEF Room, RoomAt
      <4> QED
        BY <1>4, <4>1
    <3> QED
      BY <2>3, <3>1, <3>2 DEF Room, RoomAt
  <2>6. DeferredOwed'
    BY <2>3 DEF DeferredOwed
  <2> QED
    BY <1>3, <2>2, <2>3, <2>4, <2>5, <2>6, LoopSteps DEF TradingPcs
<1> QED
  BY <1>1, <1>5, <1>6 DEF PollOrRaise

\* A board that on_board drops.
LEMMA IgnoreBoardInv ==
  ASSUME LiveInv, IgnoreBoard
  PROVE  LiveInv'
<1>1. /\ pc = "decide" /\ Enter("board", {}, NoPlan) /\ UNCHANGED <<broker, strategy, cleanup>>
  BY DEF IgnoreBoard
<1>2. /\ TypeOK /\ BooksSound /\ ControlSound /\ At = "decide" /\ TradeSound
      /\ report = "none" /\ Room /\ ~guarded
  BY <1>1 DEF LiveInv, ControlSound, At, Trading, Flattening, TradingPcs, FlattenPcs
<1>3. /\ orders' = orders /\ role' = role /\ position' = position /\ lollipop' = lollipop
      /\ uncovered' = uncovered /\ atBroker' = atBroker /\ exec' = exec /\ held' = held /\ stray' = stray /\ drift' = drift
  BY <1>1 DEF strategy, broker
<1>4. Active' = Active /\ \A r : ActiveOf(r)' = ActiveOf(r)
  BY <1>3 DEF Active, Used, ActiveOf
<1>5. PlanFits("board", NoPlan)'
  BY <1>2, <1>3, <1>4
     DEF ControlSound, PlanFits, ToSend, BeforeEntry, BeforeExit, TradingPcs, NoPlan
<1>6. ControlSound' /\ ControlTypes' /\ Reached("board", NoPlan)
  <2>1. NoPlan \in Plans /\ "board" \in Labels
    BY DEF NoPlan, Plans, Labels, TradingPcs
  <2>2. report' = "none" /\ ~guarded'
    BY <1>1, <1>2 DEF cleanup
  <2> QED
    BY <1>1, <1>5, <2>1, <2>2, EnterFits
<1>7. At' = "board"
  BY <1>6 DEF Reached
<1>8. TypeOK'
  BY <1>1, <1>2, <1>3, <1>6, TypesJoin DEF TypeOK
<1>9. BooksSound' /\ TradeSound'
  BY <1>2, <1>3, <1>4
     DEF BooksSound, Sound, Absent, Unsettled, TradeSound, Single, Mirrored, Unseen, Covered,
         Open, ExitOwed
<1>10. Room' /\ DeferredOwed'
  BY <1>2, <1>3, <1>7 DEF Room, RoomAt, DeferredOwed
<1> QED
  BY <1>6, <1>7, <1>8, <1>9, <1>10, LoopSteps DEF TradingPcs

\* What halts the loop between boards.
LEMMA FaultInv ==
  ASSUME LiveInv, Fault
  PROVE  LiveInv'
<1>1. pc = "board" /\ (Halt \/ Raise) /\ UNCHANGED <<broker, strategy>>
  BY DEF Fault
<1>2. /\ TypeOK /\ BooksSound /\ At = "board" /\ TradeSound
  BY <1>1 DEF LiveInv, At, Trading, Flattening, TradingPcs, FlattenPcs
<1>3. /\ orders' = orders /\ role' = role /\ position' = position /\ lollipop' = lollipop
      /\ uncovered' = uncovered /\ atBroker' = atBroker /\ exec' = exec /\ held' = held /\ stray' = stray /\ drift' = drift
  BY <1>1 DEF strategy, broker
<1>4. Active' = Active /\ \A r : ActiveOf(r)' = ActiveOf(r)
  BY <1>3 DEF Active, Used, ActiveOf
<1>5. BooksSound' /\ TradeSound'
  BY <1>2, <1>3, <1>4
     DEF BooksSound, Sound, Absent, Unsettled, TradeSound, Single, Mirrored, Unseen, Covered,
         Open, ExitOwed
<1>6. At \in TradingPcs
  BY <1>2 DEF TradingPcs
<1> QED
  BY <1>1, <1>2, <1>3, <1>5, <1>6, HaltSteps DEF TypeOK

\* The loop ends because it may not reconnect.
LEMMA GiveUpInv ==
  ASSUME LiveInv, GiveUp
  PROVE  LiveInv'
<1>1. pc \in {"caught", "again"} /\ position = 0 /\ Active = {} /\ UNCHANGED broker
  BY DEF GiveUp, Unexposed, Exposed
<1>2. PICK r \in {"not_required", "unchecked"} : Stop(r)
  BY DEF GiveUp
<1>3. TypeOK /\ BooksSound /\ ControlSound /\ (pc = "caught" => TradeSound)
  BY DEF LiveInv, Trading, Flattening, FlattenPcs
<1>4. /\ atBroker' = atBroker /\ exec' = exec /\ held' = held /\ stray' = stray /\ drift' = drift
      /\ atBroker' \in [Slots -> BrokerStates] /\ exec' \in [Slots -> Nat] /\ r \in Reports
  BY <1>1, <1>3 DEF broker, TypeOK, Reports
<1>5. ~guarded => held = drift /\ \A o \in Slots : atBroker[o] \notin {"live", "limbo"}
  <2> SUFFICES ASSUME ~guarded
               PROVE  held = drift /\ \A o \in Slots : atBroker[o] \notin {"live", "limbo"}
    OBVIOUS
  <2>1. TradeSound
    BY <1>1, <1>3 DEF ControlSound
  <2>2. held = position + drift /\ \A o \in Slots : ~Unsettled(o)
    BY <1>1, <1>3, <2>1, FlatMirror
  <2> QED
    BY <1>1, <1>3, <2>2 DEF Unsettled, TypeOK
<1> QED
  BY <1>2, <1>3, <1>4, <1>5, StopKeeps

-------------------------------------------------------------------------------
(***************************************************************************)
(* Orders go to the broker, and cancels.                                   *)
(***************************************************************************)

\* A request nobody saw answered: the order stays as it was tracked.
LEMMA LostKeeps ==
  ASSUME TypeOK, BooksSound, NEW o \in Slots, NEW r \in {"entry", "exit"}, Fresh(o, r),
         SubmitLost(o), UNCHANGED strategy
  PROVE  /\ BooksSound' /\ (TradeSound => TradeSound')
         /\ atBroker' \in [Slots -> BrokerStates] /\ exec' \in [Slots -> Nat]
         /\ held' \in Nat /\ stray' = stray /\ drift' = drift
         /\ orders' = orders /\ role' = role /\ position' = position
         /\ lollipop' = lollipop /\ uncovered' = uncovered
         /\ Active' = Active /\ \A q \in Slots \ {o} : atBroker'[q] = atBroker[q]
<1>1. /\ exec' = exec /\ held' = held /\ stray' = stray /\ drift' = drift
      /\ orders' = orders /\ role' = role /\ position' = position /\ lollipop' = lollipop
      /\ uncovered' = uncovered
  BY DEF SubmitLost, strategy
<1>2. PICK a \in {"none", "limbo", "live"} : atBroker' = [atBroker EXCEPT ![o] = a]
  BY DEF SubmitLost
<1>3. /\ atBroker' \in [Slots -> BrokerStates] /\ atBroker'[o] = a
      /\ \A q \in Slots \ {o} : atBroker'[q] = atBroker[q]
  BY <1>2 DEF TypeOK, BrokerStates
<1>4. /\ orders[o] \in Order /\ orders[o].broker = NoBroker /\ orders[o].status = "new_pending"
      /\ o # NoBroker /\ role[o] = r /\ Sound(o)
  <2>1. orders[o] = NewOrder(orders[o].qty, TRUE) /\ role[o] = r
    BY DEF Fresh
  <2>2. orders[o].broker = NoBroker /\ orders[o].status = "new_pending"
    BY <2>1 DEF NewOrder
  <2> QED
    BY <2>1, <2>2, SlotsFinite, SlotsAssumption DEF TypeOK, BooksSound
<1>5. exec[o] = 0 /\ orders[o].qty \in Nat \ {0} /\ ~IsFinal(orders[o])
  <2>1. atBroker[o] = "none"
    BY DEF Fresh
  <2> QED
    BY <1>4, <2>1 DEF Sound, Order, IsFinal, FinalStatus
<1>6. Sound(o)'
  <2>1. exec[o] < orders[o].qty /\ a \notin {"filled"}
    BY <1>5
  <2> QED
    BY <1>1, <1>3, <1>4, <1>5, <2>1 DEF Sound, Absent
<1>7. BooksSound'
  <2> SUFFICES ASSUME NEW q \in Slots PROVE Sound(q)'
    BY DEF BooksSound
  <2>1. CASE q = o
    BY <1>6, <2>1
  <2>2. CASE q # o
    <3>1. Sound(q) /\ atBroker'[q] = atBroker[q]
      BY <1>3, <2>2 DEF BooksSound
    <3> QED
      BY <1>1, <3>1 DEF Sound, Unsettled, Absent
  <2> QED
    BY <2>1, <2>2
<1>8. Active' = Active /\ o \in Active
  BY <1>1, <1>4, <1>5 DEF Active, Used
<1>9. ASSUME TradeSound PROVE TradeSound'
  <2>1. \A q \in Slots : Unsettled(q)' => q \in Active'
    BY <1>3, <1>8, <1>9 DEF TradeSound, Unsettled
  <2>2. Mirrored'
    BY <1>1, <1>9 DEF TradeSound, Mirrored, Unseen
  <2>3. \A x : ActiveOf(x)' = ActiveOf(x)
    BY <1>1, <1>8 DEF ActiveOf
  <2> QED
    BY <1>1, <1>9, <2>1, <2>2, <2>3 DEF TradeSound, Single, Covered, ExitOwed, Open
<1>10. exec' \in [Slots -> Nat] /\ held' \in Nat
  BY <1>1 DEF TypeOK
<1> QED
  BY <1>1, <1>3, <1>7, <1>8, <1>9, <1>10

\* A cancel nobody saw answered: the order stays open, marked as being canceled.
LEMMA PendingKeeps ==
  ASSUME TypeOK, BooksSound, NEW o \in Slots, o \in Active, CancelTimesOut(o)
  PROVE  /\ Touches(o) /\ BooksSound' /\ (TradeSound => TradeSound') /\ Active' = Active
         /\ atBroker' \in [Slots -> BrokerStates] /\ exec' \in [Slots -> Nat]
         /\ held' \in Nat /\ stray' = stray /\ drift' = drift
         /\ exec' = exec /\ held' = held /\ atBroker' = atBroker
<1>1. /\ orders[o] \in Order /\ role[o] # "none" /\ ~IsFinal(orders[o]) /\ Sound(o)
  BY DEF Active, Used, TypeOK, BooksSound
<1> DEFINE m == MarkCancelPending(orders[o])
<1>2. /\ m \in Order /\ m.cum = orders[o].cum /\ m.qty = orders[o].qty
      /\ m.broker = orders[o].broker /\ m.anchored = orders[o].anchored /\ ~IsFinal(m)
  BY <1>1 DEF MarkCancelPending, Order, IsFinal, Status, OpenStatus, FinalStatus
<1> HIDE DEF m
<1>3. /\ orders' = [orders EXCEPT ![o] = m] /\ role' = role /\ position' = position
      /\ lollipop' = lollipop /\ uncovered' = uncovered /\ atBroker' = atBroker
      /\ exec' = exec /\ held' = held /\ stray' = stray /\ drift' = drift
  BY DEF CancelTimesOut, broker, m
<1>4. /\ orders' \in [Slots -> Order] /\ \A q \in Slots \ {o} : orders'[q] = orders[q]
      /\ orders'[o] = m
  BY <1>2, <1>3 DEF TypeOK
<1>5. Active' = Active
  BY <1>1, <1>2, <1>3, <1>4 DEF Active, Used
<1>6. BooksSound'
  <2> SUFFICES ASSUME NEW q \in Slots PROVE Sound(q)'
    BY DEF BooksSound
  <2>1. CASE q = o
    BY <1>1, <1>2, <1>3, <1>4, <2>1 DEF Sound, Unsettled
  <2>2. CASE q # o
    BY <1>3, <1>4, <2>2 DEF BooksSound, Sound, Unsettled, Absent
  <2> QED
    BY <2>1, <2>2
<1>7. ASSUME TradeSound PROVE TradeSound'
  <2>1. \A q \in Slots : orders'[q].cum = orders[q].cum /\ orders'[q].qty = orders[q].qty
    BY <1>2, <1>4
  <2>2. Mirrored'
    <3>1. \A q \in Slots : Unseen(q)' = Unseen(q)
      BY <1>3, <2>1 DEF Unseen
    <3>2. [q \in Slots |-> Unseen(q)]' = [q \in Slots |-> Unseen(q)]
      BY <3>1
    <3> QED
      BY <1>3, <1>7, <3>2 DEF TradeSound, Mirrored
  <2>3. \A x : ActiveOf(x)' = ActiveOf(x) /\ ActiveOf(x) \subseteq Slots
    BY <1>3, <1>5 DEF ActiveOf, Active, Used
  <2>4. \A q \in Slots : Open(q)' = Open(q) /\ (Unsettled(q)' <=> Unsettled(q))
    BY <1>3, <2>1 DEF Open, Unsettled
  <2>5. Covered'
    BY <1>3, <1>7, <2>3, <2>4 DEF TradeSound, Covered
  <2> QED
    BY <1>3, <1>5, <1>7, <2>2, <2>3, <2>4, <2>5 DEF TradeSound, Single, ExitOwed
<1>8. Touches(o)
  BY <1>2, <1>3, <1>4, <1>5 DEF Touches, TypeOK
<1> QED
  BY <1>3, <1>5, <1>6, <1>7, <1>8 DEF TypeOK

\* The ways a submit ends, all but one of them in a halt.
LEMMA SubmitSteps ==
  ASSUME LiveInv, At \in TradingPcs, pc # "poll", pc # "fault",
         NEW o \in Slots, NEW r \in {"entry", "exit"}, Fresh(o, r),
         \A q \in Active : q = o \/ orders[q].broker = q,
         NEW label \in {"board", "entryCancel"}, NEW p \in Plans,
         p.entry # 0 => p.exit = 0 /\ ~p.exitCancel /\ ~p.entryCancel,
         label = "entryCancel" => p.entry = 0 /\ p.exit = 0,
         Submit(o, label, p)
  PROVE  LiveInv'
<1>1. /\ TypeOK /\ BooksSound /\ TradeSound /\ Sound(o) /\ orders[o] \in Order
      /\ report = "none" /\ RoomAt(At) /\ ~guarded
  <2>1. At = pc /\ pc \in TradingPcs /\ pc \notin FlattenPcs /\ pc # "halted"
    BY DEF At, TradingPcs, FlattenPcs
  <2>2. Trading
    BY <2>1 DEF Trading, Flattening
  <2>3. TypeOK /\ BooksSound /\ TradeSound /\ ControlSound /\ Room
    BY <2>2 DEF LiveInv
  <2>4. orders[o] \in Order
    BY <2>3 DEF TypeOK
  <2> QED
    BY <2>1, <2>3, <2>4 DEF BooksSound, ControlSound, Room
<1>2. /\ o \in Active /\ exec[o] = 0 /\ orders[o].qty # 0 /\ orders[o].qty \in Nat
      /\ atBroker[o] = "none" /\ orders[o].broker # o
  <2>1. orders[o].status = "new_pending" /\ orders[o].broker = NoBroker /\ role[o] # "none"
    BY DEF Fresh, NewOrder
  <2>2. o # NoBroker
    BY SlotsFinite, SlotsAssumption
  <2> QED
    BY <1>1, <2>1, <2>2 DEF Active, Used, Sound, Fresh, Order, IsFinal, FinalStatus
<1>3. /\ exec \in [Slots -> Nat] /\ held \in Nat /\ atBroker \in [Slots -> BrokerStates]
  BY <1>1 DEF TypeOK
<1>4. /\ exec' = exec /\ held' = held /\ stray' = stray /\ drift' = drift /\ atBroker' \in [Slots -> BrokerStates]
      /\ \A q \in Slots \ {o} : atBroker'[q] = atBroker[q]
  <2>1. SubmitAccepted(o) \/ SubmitUnknown(o) \/ SubmitRefused(o) \/ SubmitLost(o)
    BY DEF Submit
  <2> QED
    BY <1>3, <2>1 DEF SubmitAccepted, SubmitUnknown, SubmitLost, SubmitRefused, broker,
         BrokerStates
<1>5. CASE SubmitAccepted(o) /\ (PollOrRaise(label, {}, p) \/ Halt)
  <2>1. /\ atBroker' = [atBroker EXCEPT ![o] = "live"]
        /\ OnOrderEvent(o, Event(o, "working", NoCum, TRUE))
    BY <1>5 DEF SubmitAccepted
  <2>2. atBroker'[o] = "live" /\ exec[o] < orders[o].qty
    BY <1>2, <1>3, <2>1
  <2>3. /\ Touches(o) /\ BooksSound' /\ TradeSound' /\ Active' = Active
        /\ orders'[o].broker = o
    BY <1>1, <1>2, <1>4, <2>1, <2>2, CallKeeps
  <2>4. CASE Halt \/ Raise
    BY <1>3, <1>4, <2>3, <2>4, HaltSteps DEF Touches
  <2>5. CASE StartPoll(label, {}, p) /\ UNCHANGED cleanup
    <3>1. \A q \in Active' : orders'[q].broker = q
      BY <2>3 DEF Touches, Active, Used
    <3>2. PlanFits(label, p)'
      BY <3>1 DEF PlanFits, BeforeEntry, BeforeExit
    <3>3. report' = "none" /\ label \in PollLabels /\ ~guarded'
      BY <1>1, <2>5 DEF cleanup, PollLabels
    <3>4. ControlSound' /\ ControlTypes' /\ Reached(label, p)
      BY <2>5, <3>2, <3>3, PollFits
    <3>5. At' \in {"board", "entryCancel", "exit"}
      BY <3>4 DEF Reached
    <3>6. TypeOK'
      BY <1>1, <1>3, <1>4, <2>3, <2>5, <3>4, TypesJoin DEF Touches
    <3>7. Room' /\ DeferredOwed'
      BY <1>1, <2>3, <3>5 DEF Room, RoomAt, DeferredOwed, Touches, TradingPcs
    <3> QED
      BY <2>3, <3>4, <3>5, <3>6, <3>7, LoopSteps DEF TradingPcs
  <2> QED
    BY <1>5, <2>4, <2>5 DEF PollOrRaise
<1>6. CASE SubmitUnknown(o) /\ Halt
  <2>1. /\ atBroker'[o] \in {"none", "limbo", "live"}
        /\ OnOrderEvent(o, Event(o, "unknown", NoCum, FALSE))
    BY <1>3, <1>6 DEF SubmitUnknown, SubmitLost
  <2>2. exec[o] < orders[o].qty
    BY <1>2
  <2>3. Touches(o) /\ BooksSound' /\ TradeSound'
    BY <1>1, <1>2, <1>4, <2>1, <2>2, CallKeeps
  <2> QED
    BY <1>3, <1>4, <1>6, <2>3, HaltSteps DEF Touches
<1>7. CASE SubmitRefused(o) /\ Halt
  <2>1. Touches(o) /\ BooksSound' /\ TradeSound'
    BY <1>1, <1>7, RefusalKeeps
  <2> QED
    BY <1>3, <1>4, <1>7, <2>1, HaltSteps DEF Touches
<1>8. CASE SubmitLost(o) /\ UNCHANGED strategy /\ Raise
  <2>1. /\ BooksSound' /\ TradeSound' /\ held' \in Nat /\ exec' \in [Slots -> Nat]
        /\ orders' = orders /\ role' = role /\ position' = position
        /\ lollipop' = lollipop /\ uncovered' = uncovered
    BY <1>1, <1>8, LostKeeps
  <2>2. /\ orders' \in [Slots -> Order] /\ role' \in [Slots -> {"entry", "exit", "none"}]
        /\ position' \in Int /\ lollipop' \in Workflow /\ uncovered' \in BOOLEAN
    BY <1>1, <2>1 DEF TypeOK
  <2> QED
    BY <1>4, <1>8, <2>1, <2>2, HaltSteps
<1> QED
  BY <1>5, <1>6, <1>7, <1>8 DEF Submit

\* The entry, the exit and the deferred exit are sent as the plan says.
LEMMA SubmitInv ==
  ASSUME LiveInv, SubmitEntry \/ SubmitExit \/ SubmitDeferred
  PROVE  LiveInv'
<1>1. pc \in {"entry", "exit", "deferred"} /\ At = pc /\ At \in TradingPcs
  BY DEF SubmitEntry, SubmitExit, SubmitDeferred, At, TradingPcs
<1>2. /\ PlanFits(At, plan) /\ plan \in Plans
  BY DEF LiveInv, ControlSound, TypeOK, Plans
<1>3. CASE SubmitEntry
  <2>1. pc = "entry" /\ Submit(plan.entry, AfterEntry(plan), plan)
    BY <1>3 DEF SubmitEntry
  <2>2. /\ plan.entry # 0 /\ plan.exit = 0 /\ ~plan.exitCancel /\ ~plan.entryCancel
        /\ Fresh(plan.entry, "entry") /\ plan.entry \in Slots
    BY <1>1, <1>2, <2>1 DEF PlanFits, BeforeEntry, Plans
  <2>3. AfterEntry(plan) = "board"
    BY <2>2 DEF AfterEntry
  <2>4. \A q \in Active : q = plan.entry \/ orders[q].broker = q
    BY <1>1, <1>2, <2>1, <2>2, SlotsFinite DEF PlanFits, ToSend, TradingPcs, Active, Used
  <2>5. PICK o \in Slots, p \in Plans : o = plan.entry /\ p = plan
    BY <1>2, <2>2
  <2> QED
    BY <1>1, <2>1, <2>2, <2>3, <2>4, <2>5, SubmitSteps
<1>4. CASE SubmitExit
  <2>1. pc = "exit" /\ Submit(plan.exit, "board", plan)
    BY <1>4 DEF SubmitExit
  <2>2. /\ plan.exit # 0 /\ plan.entry = 0
        /\ Fresh(plan.exit, "exit") /\ plan.exit \in Slots
    BY <1>1, <1>2, <2>1 DEF PlanFits, BeforeExit, Plans
  <2>3. \A q \in Active : q = plan.exit \/ orders[q].broker = q
    BY <1>1, <1>2, <2>1, <2>2, SlotsFinite DEF PlanFits, ToSend, TradingPcs, Active, Used
  <2>4. PICK o \in Slots, p \in Plans : o = plan.exit /\ p = plan
    BY <1>2, <2>2
  <2> QED
    BY <1>1, <2>1, <2>2, <2>3, <2>4, SubmitSteps
<1>5. CASE SubmitDeferred
  <2> DEFINE d == [plan EXCEPT !.exit = 0]
  <2>1. pc = "deferred" /\ Submit(plan.exit, AfterExitCancel(d), d)
    BY <1>5 DEF SubmitDeferred
  <2>2. /\ plan.exit # 0 /\ plan.entry = 0
        /\ Fresh(plan.exit, "exit") /\ plan.exit \in Slots
    BY <1>1, <1>2, <2>1 DEF PlanFits, BeforeEntry, BeforeExit, Plans
  <2>3. d \in Plans /\ d.entry = 0 /\ d.exit = 0
    BY <1>2, <2>2 DEF Plans
  <2>4. AfterExitCancel(d) \in {"board", "entryCancel"}
    BY <2>3 DEF AfterExitCancel, AfterEntryCancel, AfterEntry
  <2>5. \A q \in Active : q = plan.exit \/ orders[q].broker = q
    BY <1>1, <1>2, <2>1, <2>2, SlotsFinite DEF PlanFits, ToSend, TradingPcs, Active, Used
  <2>6. PICK o \in Slots, p \in Plans, label \in {"board", "entryCancel"} :
          o = plan.exit /\ p = d /\ label = AfterExitCancel(d)
    BY <2>2, <2>3, <2>4
  <2> HIDE DEF d
  <2> QED
    BY <1>1, <2>1, <2>2, <2>3, <2>5, <2>6, SubmitSteps
<1> QED
  BY <1>3, <1>4, <1>5

\* The cancel of a working order: the loop polls and goes on, or halts.
LEMMA CancelWorkingInv ==
  ASSUME LiveInv, NEW o \in Slots, CancelWorking(o)
  PROVE  LiveInv'
<1>1. /\ pc \in {"exitCancel", "entryCancel"} /\ o \in cancels
      /\ CancelAccepted(o) \/ CancelUnknown(o) \/ CancelTimesOut(o)
  BY DEF CancelWorking
<1>2. /\ TypeOK /\ BooksSound /\ ControlSound /\ At = pc /\ TradeSound /\ At \in TradingPcs
      /\ report = "none" /\ ~guarded /\ Room /\ PlanFits(pc, plan) /\ plan \in Plans /\ DeferredOwed
  BY <1>1 DEF LiveInv, ControlSound, At, Trading, Flattening, TradingPcs, FlattenPcs, TypeOK,
       Plans
<1>3. /\ o \in Active /\ Sound(o) /\ cancels = {o}
      /\ (pc = "exitCancel" => role[o] = "exit") /\ (pc = "entryCancel" => role[o] = "entry")
  BY <1>1, <1>2 DEF ControlSound, CancelsFit, ActiveOf, TradeSound, Single, BooksSound
<1>4. orders[o].broker = o /\ orders[o].broker # NoBroker
  <2>1. o # 0 /\ NoBroker = 0
    BY SlotsFinite, SlotsAssumption
  <2>2. ~ToSend(pc, plan, o)
    <3>1. pc = "exitCancel" => plan.exit = 0 /\ plan.entry = 0
      BY <1>2 DEF PlanFits
    <3>2. pc = "entryCancel" => plan.entry = 0 /\ (plan.exit # 0 => role[plan.exit] = "exit")
      BY <1>2 DEF PlanFits, BeforeEntry, BeforeExit, Fresh
    <3> QED
      BY <1>1, <1>3, <2>1, <3>1, <3>2 DEF ToSend
  <2> QED
    BY <1>1, <1>2, <1>3, <2>1, <2>2 DEF PlanFits, TradingPcs
<1>11. CASE CancelTimesOut(o) /\ Raise
  <2>1. /\ Touches(o) /\ BooksSound' /\ TradeSound'
        /\ atBroker' \in [Slots -> BrokerStates] /\ exec' \in [Slots -> Nat]
        /\ held' \in Nat /\ stray' = stray /\ drift' = drift
    BY <1>2, <1>3, <1>11, PendingKeeps
  <2> QED
    BY <1>2, <1>11, <2>1, HaltSteps DEF Touches
<1> DEFINE next == IF pc = "exitCancel" THEN "release" ELSE AfterEntryCancel(plan)
<1>12. /\ cancels \ {o} = {}
       /\ (IF pc = "exitCancel" THEN "release"
           ELSE IF cancels = {o} THEN AfterEntryCancel(plan)
           ELSE "entryCancel") = next
  BY <1>3
<1> SUFFICES ASSUME CancelAccepted(o) \/ CancelUnknown(o),
                    PollOrRaise(next, {}, plan) \/ Halt
             PROVE  LiveInv'
  <2> HIDE DEF next
  <2> QED
    BY <1>3, <1>11, <1>12 DEF CancelWorking
<1>5. /\ UNCHANGED broker /\ exec' = exec /\ held' = held /\ stray' = stray /\ drift' = drift /\ atBroker' = atBroker
      /\ \E status \in {"cancel_pending", "unknown"} :
           OnOrderEvent(o, Event(o, status, NoCum, TRUE))
  BY DEF CancelAccepted, CancelUnknown, broker
<1>6. /\ atBroker[o] = "live" => exec[o] < orders[o].qty
      /\ atBroker[o] = "filled" => exec[o] = orders[o].qty
      /\ atBroker[o] \in {"none", "limbo", "rejected"} => exec[o] = 0
      /\ atBroker[o] \notin {"none", "limbo"}
  BY <1>3, <1>4 DEF Sound
<1>7. /\ Touches(o) /\ BooksSound' /\ TradeSound' /\ OwedStays /\ Active' = Active
      /\ orders'[o].broker = o
  <2>1. PICK status \in {"cancel_pending", "unknown"} :
          OnOrderEvent(o, Event(o, status, NoCum, TRUE))
    BY <1>5
  <2> QED
    BY <1>2, <1>3, <1>5, <1>6, <2>1, CallKeeps
<1>8. atBroker' \in [Slots -> BrokerStates] /\ exec' \in [Slots -> Nat] /\ held' \in Nat
  BY <1>2, <1>5 DEF TypeOK
<1>9. CASE Halt \/ Raise
  BY <1>2, <1>5, <1>7, <1>8, <1>9, HaltSteps DEF Touches
<1>10. CASE ~(Halt \/ Raise)
  <2>1. StartPoll(next, {}, plan) /\ UNCHANGED cleanup
    BY <1>10 DEF PollOrRaise
  <2>2. PICK p \in Plans, label \in PollLabels : p = plan /\ label = next
    <3>1. plan.entry = 0
      BY <1>1, <1>2 DEF PlanFits
    <3>2. next \in PollLabels
      BY <3>1 DEF PollLabels, AfterEntryCancel, AfterEntry
    <3> QED
      BY <1>2, <3>2
  <2>3. PICK at \in {"exitCancel", "entryCancel"} : at = pc
    BY <1>1
  <2>4. PlanFits(at, p)'
    BY <1>2, <1>4, <1>5, <1>7, <2>2, <2>3, FitStays
  <2>5. label = IF at = "exitCancel" THEN "release" ELSE AfterEntryCancel(p)
    BY <2>2, <2>3
  <2>6. PlanFits(label, p)'
    <3>1. CASE at = "exitCancel"
      BY <2>4, <2>5, <3>1 DEF PlanFits, ToSend, BeforeEntry, BeforeExit, TradingPcs
    <3>2. CASE at = "entryCancel"
      <4>1. p.entry = 0 /\ label = IF p.exit # 0 THEN "exit" ELSE "board"
        BY <2>4, <2>5, <3>2 DEF PlanFits, AfterEntryCancel, AfterEntry
      <4>2. \A q \in Active' : q # 0
        BY SlotsFinite DEF Active, Used
      <4> QED
        BY <2>4, <3>2, <4>1, <4>2 DEF PlanFits, ToSend, BeforeEntry, BeforeExit, TradingPcs
    <3> QED
      BY <3>1, <3>2
  <2>7. report' = "none" /\ ~guarded'
    BY <1>2, <2>1 DEF cleanup
  <2> HIDE DEF next
  <2>8. ControlSound' /\ ControlTypes' /\ Reached(label, p)
    BY <2>1, <2>2, <2>6, <2>7, PollFits
  <2>9. At' = label /\ label \in {"release", "exit", "board", "entry"}
    <3>1. label \in {"release", "exit", "board", "entry"}
      BY <2>5 DEF AfterEntryCancel, AfterEntry
    <3> QED
      BY <2>8, <3>1 DEF Reached
  <2>10. TypeOK'
    BY <1>2, <1>5, <1>7, <1>8, <2>1, <2>8, TypesJoin DEF Touches
  <2>11. Room'
    BY <1>2, <1>7, <2>3, <2>5, <2>9 DEF Room, RoomAt, Touches, AfterEntryCancel, AfterEntry
  <2>12. DeferredOwed'
    <3> SUFFICES ASSUME At' = "release" PROVE ForceOwed'
      BY <2>9 DEF DeferredOwed
    <3>1. pc = "exitCancel"
      BY <2>3, <2>5, <2>9 DEF AfterEntryCancel, AfterEntry
    <3>2. plan.exitCancel /\ ForceOwed
      BY <1>2, <3>1 DEF PlanFits, DeferredOwed
    <3> QED
      BY <1>7, <3>2 DEF OwedStays
  <2> QED
    BY <1>7, <2>8, <2>9, <2>10, <2>11, <2>12, LoopSteps DEF TradingPcs
<1> QED
  BY <1>9, <1>10

-------------------------------------------------------------------------------
(***************************************************************************)
(* New orders.                                                             *)
(***************************************************************************)

\* A free slot of a role is found when there is one.
LEMMA NextSlotFree ==
  ASSUME NEW r \in {"entry", "exit"},
         NEW q \in (IF r = "entry" THEN EntrySlots ELSE ExitSlots), q \notin Used
  PROVE  /\ NextSlot(r) \in (IF r = "entry" THEN EntrySlots ELSE ExitSlots)
         /\ NextSlot(r) \in Slots /\ NextSlot(r) # 0 /\ role[NextSlot(r)] = "none"
<1> DEFINE free == (IF r = "entry" THEN EntrySlots ELSE ExitSlots) \ Used
<1>1. free \subseteq Slots /\ free \subseteq Nat /\ free # {}
  <2>1. Slots \subseteq Nat
    BY BoundsAssumption DEF Slots
  <2> QED
    BY <2>1, SlotsFinite
<1>2. NextSlot(r) = CHOOSE o \in free : \A p \in free : o <= p
  BY DEF NextSlot
<1> HIDE DEF free
<1>3. NextSlot(r) \in free
  <2>1. \E o \in free : \A p \in free : o <= p
    BY <1>1, LeastNatural
  <2> QED
    BY <1>2, <2>1
<1> QED
  BY <1>1, <1>3, SlotsFinite DEF free, Used

\* Two exits leave a slot for a third.
LEMMA ExitSlotFree ==
  ASSUME TypeOK, BooksSound, \E a, b \in Slots : \A o \in Slots : role[o] = "exit" => o \in {a, b}
  PROVE  /\ NextSlot("exit") \in ExitSlots
         /\ NextSlot("exit") \in Slots /\ NextSlot("exit") # 0
         /\ role[NextSlot("exit")] = "none"
<1> PICK a \in Slots, b \in Slots : \A o \in Slots : role[o] = "exit" => o \in {a, b}
  OBVIOUS
<1>1. /\ 3 \in ExitSlots /\ 4 \in ExitSlots /\ 5 \in ExitSlots
  BY BoundsAssumption DEF ExitSlots, EntrySlots, Slots
<1>2. PICK q \in {3, 4, 5} : q \notin {a, b}
  OBVIOUS
<1>3. q \in ExitSlots /\ q \in Slots /\ role[q] # "exit"
  BY <1>1, <1>2, SlotsFinite
<1>4. q \notin Used
  <2>1. q \notin EntrySlots
    BY <1>3 DEF ExitSlots
  <2>2. ASSUME q \in Used PROVE role[q] \in {"entry", "exit"}
    BY <2>2, <1>3 DEF Used, TypeOK
  <2> QED
    BY <1>3, <2>1, <2>2 DEF BooksSound, Sound
<1> QED
  BY <1>3, <1>4, NextSlotFree

\* One entry leaves a slot for a second.
LEMMA EntrySlotFree ==
  ASSUME TypeOK, BooksSound,
         \A o, p \in Slots : role[o] = "entry" /\ role[p] = "entry" => o = p
  PROVE  /\ NextSlot("entry") \in EntrySlots
         /\ NextSlot("entry") \in Slots /\ NextSlot("entry") # 0
         /\ role[NextSlot("entry")] = "none"
<1>1. 1 \in EntrySlots /\ 2 \in EntrySlots /\ 1 \in Slots /\ 2 \in Slots
  BY BoundsAssumption DEF EntrySlots, Slots
<1>2. ASSUME NEW q \in EntrySlots, q \in Used PROVE role[q] = "entry"
  <2>1. q \notin ExitSlots /\ q \in Slots
    BY SlotsFinite DEF ExitSlots
  <2> QED
    BY <1>2, <2>1 DEF Used, BooksSound, Sound, TypeOK
<1>3. PICK q \in {1, 2} : q \notin Used
  BY <1>1, <1>2
<1> QED
  BY <1>1, <1>3, NextSlotFree

\* A new order is open, untouched, and the only thing that changes.
LEMMA TrackKeeps ==
  ASSUME TypeOK, BooksSound, NEW o \in Slots, role[o] = "none", NEW r \in {"entry", "exit"},
         o \in (IF r = "entry" THEN EntrySlots ELSE ExitSlots),
         NEW qty \in Nat \ {0}, Track(o, r, qty), UNCHANGED broker
  PROVE  /\ BooksSound' /\ Fresh(o, r)' /\ Open(o)' = qty
         /\ orders' \in [Slots -> Order] /\ role' \in [Slots -> {"entry", "exit", "none"}]
         /\ \A p \in Slots : p # o => orders'[p] = orders[p] /\ role'[p] = role[p]
         /\ role'[o] = r /\ o \notin Active /\ Active' = Active \cup {o}
         /\ ActiveOf(r)' = ActiveOf(r) \cup {o}
         /\ \A s \in {"entry", "exit"} : s # r => ActiveOf(s)' = ActiveOf(s)
         /\ position' = position /\ Mirrored => Mirrored'
<1>1. /\ \A p \in Slots : p # o => orders'[p] = orders[p] /\ role'[p] = role[p]
      /\ orders'[o] = NewOrder(qty, TRUE) /\ role'[o] = r
      /\ atBroker' = atBroker /\ exec' = exec /\ held' = held /\ stray' = stray /\ drift' = drift
  BY DEF Track, TypeOK, broker
<1>2. /\ NewOrder(qty, TRUE) \in Order /\ NewOrder(qty, TRUE).cum = 0
      /\ NewOrder(qty, TRUE).qty = qty /\ NewOrder(qty, TRUE).anchored
      /\ NewOrder(qty, TRUE).broker = NoBroker /\ ~IsFinal(NewOrder(qty, TRUE))
  BY DEF NewOrder, Order, Status, OpenStatus, FinalStatus, IsFinal
<1>4. /\ orders'[o].cum = 0 /\ orders'[o].qty = qty /\ orders'[o].anchored
       /\ orders'[o].broker = NoBroker /\ ~IsFinal(orders'[o]) /\ qty \in Nat /\ qty > 0
       /\ exec'[o] = 0 /\ atBroker'[o] = "none"
  <2>1. exec'[o] = exec[o] /\ atBroker'[o] = atBroker[o] /\ exec[o] = 0 /\ atBroker[o] = "none"
    BY <1>1 DEF BooksSound, Sound
  <2> QED
    BY <1>1, <2>1 DEF NewOrder, IsFinal, FinalStatus
<1>3. orders' \in [Slots -> Order] /\ role' \in [Slots -> {"entry", "exit", "none"}]
  BY <1>2 DEF Track, TypeOK
<1>5. BooksSound'
  <2> SUFFICES ASSUME NEW p \in Slots PROVE Sound(p)'
    BY DEF BooksSound
  <2>1. CASE p # o
    <3>1. /\ orders'[p] = orders[p] /\ role'[p] = role[p] /\ atBroker'[p] = atBroker[p]
          /\ exec'[p] = exec[p] /\ Sound(p) /\ Absent' = Absent
      BY <1>1, <2>1 DEF BooksSound, Absent, NewOrder
    <3> QED
      BY <3>1 DEF Sound, Unsettled
  <2>2. CASE p = o
    <3>1. o # NoBroker
      BY SlotsFinite, SlotsAssumption
    <3>2. /\ role'[o] \in {"entry", "exit"} /\ (role'[o] = "entry" => o \in EntrySlots)
          /\ (role'[o] = "exit" => o \in ExitSlots)
      BY <1>1
    <3>3. /\ orders'[o].cum <= exec'[o] /\ exec'[o] <= orders'[o].qty
          /\ ~(orders'[o].cum >= orders'[o].qty)
      BY <1>4
    <3>4. Sound(o)'
      BY <1>4, <3>1, <3>2, <3>3 DEF Sound
    <3> QED
      BY <2>2, <3>4
  <2> QED
    BY <2>1, <2>2
<1>6. Fresh(o, r)' /\ Open(o)' = qty
  <2>1. Fresh(o, r)'
    <3>1. orders'[o] = NewOrder(orders'[o].qty, TRUE)
      BY <1>1, <1>4
    <3>2. role'[o] = r /\ atBroker'[o] = "none"
      BY <1>1, <1>4
    <3> QED
      BY <3>1, <3>2 DEF Fresh
  <2>2. Open(o)' = qty
    BY <1>4 DEF Open
  <2> QED
    BY <2>1, <2>2
<1>7. o \notin Active /\ Active' = Active \cup {o}
  BY <1>1, <1>2 DEF Active, Used
<1>8. /\ ActiveOf(r)' = ActiveOf(r) \cup {o}
      /\ \A s \in {"entry", "exit"} : s # r => ActiveOf(s)' = ActiveOf(s)
  BY <1>1, <1>7 DEF ActiveOf, Active, Used
<1>9. ASSUME position' = position, Mirrored PROVE Mirrored'
  <2>1. ASSUME NEW p \in Slots PROVE Unseen(p)' = Unseen(p)
    <3>1. CASE p # o
      BY <1>1, <3>1 DEF Unseen
    <3>2. CASE p = o
      <4>1. Unseen(o) = 0
        BY DEF Unseen
      <4>2. Unseen(o)' = 0
        <5>1. role'[o] \in {"entry", "exit"}
          BY <1>1
        <5>2. exec'[o] - orders'[o].cum = 0 /\ orders'[o].cum - exec'[o] = 0
          BY <1>4
        <5> QED
          BY <5>1, <5>2 DEF Unseen
      <4> QED
        BY <3>2, <4>1, <4>2
    <3> QED
      BY <3>1, <3>2
  <2>2. [p \in Slots |-> Unseen(p)]' = [p \in Slots |-> Unseen(p)]
    BY <2>1
  <2> QED
    BY <1>1, <1>9, <2>2 DEF Mirrored
<1> QED
  BY <1>1, <1>3, <1>5, <1>6, <1>7, <1>8, <1>9

\* What the tick t of the workflow w tells at the position p.
TickSound(w, p, t) ==
  /\ t.workflow \in Workflow /\ t.action \in {"none", "tp", "force"}
  /\ t.workflow.forced => t.workflow.phase = "TIMEOUT"
  /\ t.action # "none" => p > 0 /\ t.workflow.phase \in {"ACTIVE", "TIMEOUT"}
  /\ t.action = "force" => t.workflow.phase = "TIMEOUT"
  /\ t.action = "tp" => w.phase = "SCHEDULED"
  /\ t.action = "none" /\ p > 0 => t.workflow = w /\ (w.phase = "TIMEOUT" => w.forced)

\* Which ticks ask for an order, and what they leave behind.
LEMMA TickEffect ==
  ASSUME NEW w \in Workflow, NEW p \in Nat, NEW due \in BOOLEAN, NEW expired \in BOOLEAN,
         w.forced => w.phase = "TIMEOUT"
  PROVE  TickSound(w, p, Tick(w, p, due, expired))
<1> USE DEF TickSound
<1>1. /\ w.phase \in Phases /\ w.retry \in 0 .. MaxRetries /\ w.forced \in BOOLEAN
      /\ MaxRetries \in Nat
  BY RetriesAssumption DEF Workflow
<1>2. Idle \in Workflow /\ ~Idle.forced
  BY <1>1 DEF Idle, Workflow, Phases
<1>3. /\ [w EXCEPT !.phase = "TIMEOUT"] \in Workflow /\ [w EXCEPT !.forced = TRUE] \in Workflow
      /\ w.retry < MaxRetries
           => [w EXCEPT !.phase = "ACTIVE", !.retry = @ + 1] \in Workflow
  <2>1. w.retry < MaxRetries => w.retry + 1 \in 0 .. MaxRetries
    BY <1>1
  <2> QED
    BY <1>1, <2>1 DEF Workflow, Phases
<1>4. ASSUME NEW v \in Workflow, v.phase = "TIMEOUT"
      PROVE  LET t == HandleTimeout(v, p)
             IN  /\ t.workflow \in Workflow /\ t.action \in {"none", "force"}
                 /\ t.workflow.forced => t.workflow.phase = "TIMEOUT"
                 /\ t.action = "force" => p > 0 /\ t.workflow.phase = "TIMEOUT"
                 /\ t.action = "none" /\ p > 0 => t.workflow = v /\ v.forced
  <2> DEFINE u == [v EXCEPT !.forced = TRUE]
  <2>1. u \in Workflow /\ u.phase = "TIMEOUT"
    BY <1>4 DEF Workflow
  <2>2. HandleTimeout(v, p) = IF p <= 0 THEN Action(Idle, "none")
                              ELSE IF v.forced THEN Action(v, "none") ELSE Action(u, "force")
    BY DEF HandleTimeout
  <2> HIDE DEF u
  <2>3. \A x, a : Action(x, a).workflow = x /\ Action(x, a).action = a
    BY DEF Action
  <2>4. CASE p <= 0
    BY <1>2, <2>2, <2>3, <2>4
  <2>5. CASE ~(p <= 0) /\ v.forced
    BY <1>4, <2>2, <2>3, <2>5
  <2>6. CASE ~(p <= 0) /\ ~v.forced
    BY <2>1, <2>2, <2>3, <2>6
  <2> QED
    BY <2>4, <2>5, <2>6
<1>5. CASE w.phase = "IDLE"
  BY <1>5 DEF Tick, Action
<1>6. CASE w.phase = "TIMEOUT"
  BY <1>4, <1>6 DEF Tick
<1>7. CASE w.phase = "ACTIVE"
  <2>1. CASE expired
    <3>1. /\ Tick(w, p, due, expired) = HandleTimeout([w EXCEPT !.phase = "TIMEOUT"], p)
          /\ ~[w EXCEPT !.phase = "TIMEOUT"].forced
          /\ [w EXCEPT !.phase = "TIMEOUT"].phase = "TIMEOUT"
      BY <1>7, <2>1 DEF Tick, Workflow
    <3> QED
      BY <1>3, <1>4, <1>7, <3>1
  <2>2. CASE ~expired
    BY <1>7, <2>2 DEF Tick, Action
  <2> QED
    BY <2>1, <2>2
<1>8. CASE w.phase = "SCHEDULED"
  <2>1. Tick(w, p, due, expired) = HandleScheduled(w, p, due)
    BY <1>8 DEF Tick
  <2>2. CASE ~due
    BY <1>8, <2>1, <2>2 DEF HandleScheduled, Action
  <2>3. CASE due /\ w.retry >= MaxRetries
    <3>1. /\ HandleScheduled(w, p, due) = HandleTimeout([w EXCEPT !.phase = "TIMEOUT"], p)
          /\ ~[w EXCEPT !.phase = "TIMEOUT"].forced
          /\ [w EXCEPT !.phase = "TIMEOUT"].phase = "TIMEOUT"
      BY <1>8, <2>3 DEF HandleScheduled, Workflow
    <3>2. [w EXCEPT !.phase = "TIMEOUT"] \in Workflow
      BY <1>3
    <3> DEFINE v == [w EXCEPT !.phase = "TIMEOUT"]
    <3>3. v \in Workflow /\ v.phase = "TIMEOUT" /\ ~v.forced
          /\ Tick(w, p, due, expired) = HandleTimeout(v, p)
      BY <2>1, <3>1, <3>2
    <3> HIDE DEF v
    <3> QED
      BY <1>4, <1>8, <3>3
  <2>4. CASE due /\ ~(w.retry >= MaxRetries) /\ p <= 0
    BY <1>8, <2>1, <2>4 DEF HandleScheduled, Action
  <2>5. CASE due /\ ~(w.retry >= MaxRetries) /\ p > 0
    <3>1. HandleScheduled(w, p, due)
            = Action([w EXCEPT !.phase = "ACTIVE", !.retry = @ + 1], "tp")
      BY <2>5 DEF HandleScheduled
    <3>2. [w EXCEPT !.phase = "ACTIVE", !.retry = @ + 1] \in Workflow
      <4>1. w.retry < MaxRetries
        BY <1>1, <2>5
      <4> QED
        BY <1>3, <4>1
    <3>3. /\ [w EXCEPT !.phase = "ACTIVE", !.retry = @ + 1].phase = "ACTIVE"
          /\ ~[w EXCEPT !.phase = "ACTIVE", !.retry = @ + 1].forced
      BY <1>8 DEF Workflow
    <3>4. /\ Tick(w, p, due, expired).action = "tp"
          /\ Tick(w, p, due, expired).workflow
               = [w EXCEPT !.phase = "ACTIVE", !.retry = @ + 1]
      BY <2>1, <3>1 DEF Action
    <3> QED
      BY <1>8, <2>5, <3>2, <3>3, <3>4
  <2> QED
    BY <2>2, <2>3, <2>4, <2>5
<1> QED
  BY <1>1, <1>5, <1>6, <1>7, <1>8 DEF Phases

\* No exit works without a position.
LEMMA ExitNeedsPosition ==
  ASSUME TypeOK, BooksSound, TradeSound, position = 0
  PROVE  ActiveOf("exit") = {}
<1> SUFFICES ASSUME NEW o \in ActiveOf("exit") PROVE FALSE
  OBVIOUS
<1>1. o \in Slots /\ ~IsFinal(orders[o]) /\ Open(o) <= 0
  BY DEF ActiveOf, Active, Used, TradeSound, Covered
<1>2. orders[o].cum \in Nat /\ orders[o].qty \in Nat
  BY <1>1 DEF TypeOK, Order
<1> QED
  BY <1>1, <1>2 DEF Open, BooksSound, Sound

\* on_board: a replacement, an exit, an entry, or none of them.
LEMMA DecideInv ==
  ASSUME LiveInv, NEW flip \in BOOLEAN, NEW due \in BOOLEAN, NEW expired \in BOOLEAN,
         NEW cancelEntry \in BOOLEAN, NEW qty \in 0 .. MaxQty,
         Decide(flip, due, expired, cancelEntry, qty)
  PROVE  LiveInv'
<1> DEFINE w == IF flip THEN ForceExitNextTick(lollipop) ELSE lollipop
           tick == Tick(w, position, due, expired)
           replaces == tick.action = "force" /\ ActiveOf("exit") # {}
           exits == tick.action # "none" /\ ~replaces
           enters == qty > 0
           d == [exitCancel |-> replaces, entryCancel |-> cancelEntry,
                 entry |-> IF enters THEN NextSlot("entry") ELSE 0,
                 exit |-> IF exits THEN NextSlot("exit") ELSE 0]
<1>1. /\ pc = "decide"
      /\ flip => position > 0 /\ lollipop.phase # "TIMEOUT"
      /\ cancelEntry => ActiveOf("entry") # {}
      /\ enters => MayEnter(tick.workflow)
      /\ lollipop' = tick.workflow
      /\ IF exits THEN Track(NextSlot("exit"), "exit", position)
         ELSE IF enters THEN Track(NextSlot("entry"), "entry", qty)
         ELSE UNCHANGED <<orders, role>>
      /\ uncovered' = (uncovered /\ ~exits)
      /\ UNCHANGED <<position, broker, cleanup>>
      /\ IF replaces THEN Enter("exitCancel", ActiveOf("exit"), d)
         ELSE Enter(AfterExitCancel(d), {}, d)
  BY DEF Decide
<1>2. /\ TypeOK /\ BooksSound /\ ControlSound /\ At = "decide" /\ TradeSound
      /\ report = "none" /\ RoomAt("decide") /\ ~guarded
  BY <1>1 DEF LiveInv, ControlSound, At, Trading, Flattening, TradingPcs, FlattenPcs, Room
<1>3. /\ position \in Nat /\ lollipop \in Workflow /\ uncovered \in BOOLEAN
      /\ lollipop.phase \in Phases
      /\ (lollipop.forced => lollipop.phase = "TIMEOUT")
  BY <1>2 DEF TypeOK, TradeSound, Workflow
<1>4. /\ w \in Workflow /\ (w.forced => w.phase = "TIMEOUT")
      /\ (flip => w.phase \in {"IDLE", "TIMEOUT"} /\ ~w.forced)
  BY <1>1, <1>3 DEF ForceExitNextTick, Workflow, Phases
<1>5. /\ tick.workflow \in Workflow /\ tick.action \in {"none", "tp", "force"}
      /\ tick.workflow.forced => tick.workflow.phase = "TIMEOUT"
      /\ tick.action # "none" => position > 0 /\ tick.workflow.phase \in {"ACTIVE", "TIMEOUT"}
      /\ tick.action = "force" => tick.workflow.phase = "TIMEOUT"
      /\ tick.action = "tp" => w.phase = "SCHEDULED"
      /\ tick.action = "none" /\ position > 0
           => tick.workflow = w /\ (w.phase = "TIMEOUT" => w.forced)
  <2> PICK v \in Workflow : v = w
    BY <1>4
  <2> PICK t : t = Tick(v, position, due, expired)
    OBVIOUS
  <2>1. /\ t.workflow \in Workflow /\ t.action \in {"none", "tp", "force"}
        /\ t.workflow.forced => t.workflow.phase = "TIMEOUT"
        /\ t.action # "none" => position > 0 /\ t.workflow.phase \in {"ACTIVE", "TIMEOUT"}
        /\ t.action = "force" => t.workflow.phase = "TIMEOUT"
        /\ t.action = "tp" => v.phase = "SCHEDULED"
        /\ t.action = "none" /\ position > 0
             => t.workflow = v /\ (v.phase = "TIMEOUT" => v.forced)
    <3>1. v.forced => v.phase = "TIMEOUT"
      BY <1>4
    <3>2. TickSound(v, position, t)
      BY <1>3, <3>1, TickEffect
    <3> QED
      BY <3>2 DEF TickSound
  <2>2. t = tick /\ v = w
    OBVIOUS
  <2> QED
    BY <2>1, <2>2
<1>6. position > 0 => lollipop.phase # "IDLE"
  BY <1>2 DEF TradeSound, ExitOwed
<1>7. tick.action = "none" /\ position > 0 => tick.workflow = lollipop
  <2>1. flip => w.phase = "TIMEOUT"
    BY <1>1, <1>3, <1>6 DEF ForceExitNextTick, Workflow
  <2> QED
    BY <1>4, <1>5, <2>1
<1>8. tick.action = "tp" => lollipop.phase = "SCHEDULED"
  BY <1>4, <1>5
<1>9. ActiveOf("exit") # {} => position > 0 /\ lollipop.phase \in {"ACTIVE", "TIMEOUT"}
  BY <1>2, <1>3, ExitNeedsPosition DEF TradeSound, Covered
<1>10. exits => position > 0 /\ ActiveOf("exit") = {}
  BY <1>5, <1>8, <1>9
<1>11. replaces => position > 0 /\ tick.workflow.phase = "TIMEOUT" /\ ~exits
  BY <1>5
<1>12. enters => position = 0 /\ ActiveOf("entry") = {} /\ ~cancelEntry /\ ~exits /\ ~replaces
  <2>1. ASSUME enters PROVE ~(position > 0 /\ tick.workflow.phase # "IDLE")
                            /\ ActiveOf("entry") = {}
    BY <1>1, <2>1 DEF MayEnter
  <2>2. ASSUME enters, position > 0 PROVE FALSE
    BY <1>5, <1>6, <1>7, <2>1, <2>2
  <2> QED
    BY <1>1, <1>3, <1>5, <2>1, <2>2
<1> PICK x \in Slots, e \in Slots :
      /\ x = NextSlot("exit") /\ x \in ExitSlots /\ x # 0 /\ role[x] = "none"
      /\ e = NextSlot("entry") /\ e \in EntrySlots /\ e # 0 /\ role[e] = "none"
  <2>1. \E a, b \in Slots : \A o \in Slots : role[o] = "exit" => o \in {a, b}
    BY <1>2 DEF RoomAt
  <2>2. \A o, p \in Slots : role[o] = "entry" /\ role[p] = "entry" => o = p
    BY <1>2 DEF RoomAt
  <2> QED
    BY <1>2, <2>1, <2>2, ExitSlotFree, EntrySlotFree
<1> PICK Exits \in BOOLEAN, Enters \in BOOLEAN, Replaces \in BOOLEAN :
      (Exits <=> exits) /\ (Enters <=> enters) /\ (Replaces <=> replaces)
  OBVIOUS
<1>13. /\ x \in ExitSlots /\ x \in Slots /\ x # 0 /\ role[x] = "none"
       /\ e \in EntrySlots /\ e \in Slots /\ e # 0 /\ role[e] = "none"
  OBVIOUS
<1>14. PICK p \in Plans :
         p = d /\ p = [exitCancel |-> Replaces, entryCancel |-> cancelEntry,
                       entry |-> IF Enters THEN e ELSE 0, exit |-> IF Exits THEN x ELSE 0]
  <2>1. d = [exitCancel |-> Replaces, entryCancel |-> cancelEntry,
             entry |-> IF Enters THEN e ELSE 0, exit |-> IF Exits THEN x ELSE 0]
    OBVIOUS
  <2>2. [exitCancel |-> Replaces, entryCancel |-> cancelEntry,
         entry |-> IF Enters THEN e ELSE 0, exit |-> IF Exits THEN x ELSE 0] \in Plans
    BY DEF Plans
  <2> HIDE DEF d
  <2> QED
    BY <2>1, <2>2
<1>15. /\ p.exitCancel <=> Replaces
       /\ p.entryCancel <=> cancelEntry
       /\ p.entry = IF Enters THEN e ELSE 0
       /\ p.exit = IF Exits THEN x ELSE 0
       /\ IF Replaces THEN Enter("exitCancel", ActiveOf("exit"), p)
          ELSE Enter(AfterExitCancel(p), {}, p)
  BY <1>1, <1>14
<1>16. /\ lollipop' = tick.workflow /\ (uncovered' <=> uncovered /\ ~exits)
       /\ position' = position /\ UNCHANGED broker /\ UNCHANGED cleanup
       /\ (exits => Track(x, "exit", position))
       /\ (~exits /\ enters => Track(e, "entry", qty))
       /\ (~exits /\ ~enters => orders' = orders /\ role' = role)
  BY <1>1
<1>17. /\ atBroker' = atBroker /\ exec' = exec /\ held' = held /\ stray' = stray /\ drift' = drift
       /\ report' = "none" /\ ~guarded'
       /\ atBroker' \in [Slots -> BrokerStates] /\ exec' \in [Slots -> Nat] /\ held' \in Nat
       /\ position' \in Int /\ uncovered' \in BOOLEAN /\ lollipop' \in Workflow
  BY <1>1, <1>2, <1>3, <1>5 DEF broker, cleanup, TypeOK
<1>18. /\ lollipop'.forced => lollipop'.phase = "TIMEOUT"
       /\ position > 0 => lollipop'.phase # "IDLE"
       /\ ActiveOf("exit") # {} => lollipop'.phase \in {"ACTIVE", "TIMEOUT"}
  <2>1. position > 0 => tick.workflow.phase # "IDLE"
    BY <1>5, <1>6, <1>7
  <2>2. ActiveOf("exit") # {} => tick.workflow.phase \in {"ACTIVE", "TIMEOUT"}
    BY <1>5, <1>7, <1>9
  <2> QED
    BY <1>5, <1>16, <2>1, <2>2
<1>19. \A o \in Active : orders[o].broker = o
  BY <1>2 DEF ControlSound, PlanFits, ToSend, BeforeEntry, BeforeExit, TradingPcs
<1>20. /\ Exits => position > 0 /\ ActiveOf("exit") = {} /\ Track(x, "exit", position)
                   /\ lollipop'.phase \in {"ACTIVE", "TIMEOUT"} /\ ~uncovered'
       /\ Enters => position = 0 /\ ActiveOf("entry") = {} /\ Track(e, "entry", qty)
                    /\ ~cancelEntry /\ ~Exits /\ ~Replaces /\ qty \in Nat \ {0}
       /\ ~Exits /\ ~Enters => orders' = orders /\ role' = role
       /\ Replaces => ~Exits /\ ~Enters /\ position > 0 /\ lollipop'.phase = "TIMEOUT"
                      /\ ActiveOf("exit") # {}
       /\ ~Exits => (uncovered' <=> uncovered)
       /\ ~Exits /\ ~Replaces /\ position > 0 => lollipop' = lollipop
  BY <1>5, <1>7, <1>10, <1>11, <1>12, <1>16
<1>21. /\ p.exitCancel <=> Replaces
       /\ p.entryCancel <=> cancelEntry
       /\ p.entry = IF Enters THEN e ELSE 0
       /\ p.exit = IF Exits THEN x ELSE 0
       /\ Replaces => Enter("exitCancel", ActiveOf("exit"), p)
       /\ ~Replaces => Enter(AfterExitCancel(p), {}, p)
  BY <1>15
<1> HIDE DEF w, tick, replaces, exits, enters, d
<1>22. PICK label \in {"exitCancel", "entryCancel", "entry", "exit", "board"} :
         label = IF Replaces THEN "exitCancel" ELSE AfterExitCancel(p)
  <2>1. AfterExitCancel(p) \in {"entryCancel", "entry", "exit", "board"}
    BY DEF AfterExitCancel, AfterEntryCancel, AfterEntry
  <2> QED
    BY <2>1
<1>23. /\ label = "exitCancel" <=> Replaces
       /\ label = "entryCancel" => p.entry = 0
       /\ label = "entry" => p.entry # 0
       /\ label = "exit" => p.exit # 0
       /\ label = "board" => p.entry = 0 /\ p.exit = 0
       /\ Enter(label, IF Replaces THEN ActiveOf("exit") ELSE {}, p)
  BY <1>13, <1>20, <1>21, <1>22 DEF AfterExitCancel, AfterEntryCancel, AfterEntry
<1>24. ASSUME BooksSound', TradeSound', orders' \in [Slots -> Order],
              role' \in [Slots -> {"entry", "exit", "none"}],
              Enters => Fresh(e, "entry")', Exits => Fresh(x, "exit")',
              \A o \in Active' : orders'[o].broker = o \/ (Enters /\ o = e) \/ (Exits /\ o = x),
              Replaces => ActiveOf("exit")' = ActiveOf("exit"),
              Replaces => role' = role,
              \A o \in Slots : role'[o] = "exit" => role[o] = "exit" \/ o = x
       PROVE  LiveInv'
  <2>1. PlanFits(label, p)'
    <3>1. p.entry # 0 => p.entry = e /\ Enters
      BY <1>21
    <3>2. p.exit # 0 => p.exit = x /\ Exits
      BY <1>21
    <3>3. p.entry # 0 => p.exit = 0 /\ ~p.exitCancel /\ ~p.entryCancel
      BY <1>20, <1>21, <3>1
    <3>4. label \in {"exitCancel", "release"} => p.exitCancel /\ p.exit = 0
      BY <1>20, <1>21, <1>23
    <3>5. \A o \in Active' : orders'[o].broker = o \/ ToSend(label, p, o)'
      <4>1. Enters => p.entry = e /\ label = "entry"
        BY <1>13, <1>20, <1>21, <1>23, <1>22
           DEF AfterExitCancel, AfterEntryCancel
      <4>2. Exits => p.exit = x /\ label \in {"entryCancel", "exit"}
        BY <1>13, <1>20, <1>21, <1>23, <1>22
           DEF AfterExitCancel, AfterEntryCancel, AfterEntry
      <4> QED
        BY <1>24, <4>1, <4>2 DEF ToSend, BeforeEntry, BeforeExit
    <3> QED
      BY <1>23, <1>24, <3>1, <3>2, <3>3, <3>4, <3>5 DEF PlanFits
  <2>2. ControlSound' /\ ControlTypes' /\ Reached(label, p)
    <3>1. label \in Labels
      BY DEF Labels, TradingPcs
    <3> DEFINE ids == IF Replaces THEN ActiveOf("exit") ELSE {}
    <3>2. PICK s \in SUBSET Slots : s = ids
      BY DEF ActiveOf, Active, Used
    <3>3. /\ label = "exitCancel" => s # {} /\ s \subseteq ActiveOf("exit")'
          /\ label = "cancelAll" => s \subseteq Active'
          /\ label \notin {"exitCancel", "cancelAll"} => s = {}
      BY <1>20, <1>23, <1>24, <3>2
    <3>4. Enter(label, s, p)
      BY <1>23, <3>2
    <3>5. report' = "none" /\ (guarded' => label \in FlattenPcs)
      BY <1>17
    <3> HIDE DEF ids
    <3> QED
      BY <2>1, <3>1, <3>3, <3>4, <3>5, EnterFits
  <2>3. /\ At' \in {"exitCancel", "entryCancel", "entry", "exit", "board"}
        /\ At' = "exitCancel" => Replaces
    BY <1>23, <2>2 DEF Reached
  <2>4. TypeOK'
    BY <1>2, <1>16, <1>17, <1>24, <2>2, TypesJoin
  <2>5. Room'
    <3>1. \A o, q \in Slots : role[o] = "exit" /\ role[q] = "exit" => o = q
      BY <1>2 DEF RoomAt
    <3>2. PICK a \in Slots : \A o \in Slots : role[o] = "exit" => o = a
      BY <1>13, <3>1
    <3>3. \A o \in Slots : role'[o] = "exit" => o \in {a, x}
      BY <1>24, <3>2
    <3> QED
      BY <1>13, <1>24, <2>3, <3>1, <3>3 DEF Room, RoomAt
  <2>6. DeferredOwed'
    BY <1>20, <2>3 DEF DeferredOwed, ForceOwed
  <2> QED
    BY <1>24, <2>2, <2>3, <2>4, <2>5, <2>6, LoopSteps DEF TradingPcs
<1>25. CASE Exits
  <2>1. position \in Nat \ {0} /\ ~Enters /\ ~Replaces
    BY <1>3, <1>20, <1>25
  <2>2. /\ BooksSound' /\ Fresh(x, "exit")' /\ Open(x)' = position
        /\ orders' \in [Slots -> Order] /\ role' \in [Slots -> {"entry", "exit", "none"}]
        /\ \A q \in Slots : q # x => orders'[q] = orders[q] /\ role'[q] = role[q]
        /\ role'[x] = "exit" /\ Active' = Active \cup {x}
        /\ ActiveOf("exit")' = {x} /\ ActiveOf("entry")' = ActiveOf("entry")
        /\ Mirrored'
        /\ x \notin Active
    BY <1>2, <1>13, <1>16, <1>20, <1>25, <2>1, TrackKeeps DEF TradeSound
  <2>3. TradeSound'
    <3>1. Single("entry")' /\ Single("exit")'
      BY <1>2, <2>2 DEF TradeSound, Single
    <3>2. \A o \in Slots : Unsettled(o)' => o \in Active'
      BY <1>2, <1>17, <2>2 DEF TradeSound, Unsettled
    <3>3. Covered'
      BY <1>16, <1>20, <1>25, <2>1, <2>2 DEF Covered
    <3>4. ExitOwed'
      BY <1>20, <1>25, <2>2 DEF ExitOwed
    <3> QED
      BY <1>3, <1>16, <1>18, <1>20, <1>25, <2>2, <3>1, <3>2, <3>3, <3>4 DEF TradeSound
  <2>4. \A o \in Active' : orders'[o].broker = o \/ o = x
    BY <1>19, <2>2 DEF Active, Used
  <2> QED
    BY <1>24, <1>25, <2>1, <2>2, <2>3, <2>4
<1>26. CASE Enters
  <2>1. qty \in Nat \ {0} /\ ~Exits /\ ~Replaces /\ position = 0 /\ ActiveOf("entry") = {}
        /\ Track(e, "entry", qty)
    BY <1>20, <1>26
  <2>2. /\ BooksSound' /\ Fresh(e, "entry")'
        /\ orders' \in [Slots -> Order] /\ role' \in [Slots -> {"entry", "exit", "none"}]
        /\ \A q \in Slots : q # e => orders'[q] = orders[q] /\ role'[q] = role[q]
        /\ role'[e] = "entry" /\ Active' = Active \cup {e}
        /\ ActiveOf("entry")' = {e} /\ ActiveOf("exit")' = ActiveOf("exit")
        /\ Mirrored' /\ e \notin Active
    BY <1>2, <1>13, <1>16, <2>1, TrackKeeps DEF TradeSound
  <2>3. TradeSound'
    <3>1. Single("entry")' /\ Single("exit")'
      BY <1>2, <2>2 DEF TradeSound, Single
    <3>2. \A o \in Slots : Unsettled(o)' => o \in Active'
      BY <1>2, <1>17, <2>2 DEF TradeSound, Unsettled
    <3>3. ActiveOf("exit")' = {}
      BY <1>2, <2>1, <2>2, ExitNeedsPosition
    <3>4. ~uncovered'
      BY <1>2, <1>20, <2>1 DEF TradeSound
    <3> QED
      BY <1>3, <1>16, <1>18, <2>1, <2>2, <3>1, <3>2, <3>3, <3>4
         DEF TradeSound, Covered, ExitOwed
  <2>4. \A o \in Active' : orders'[o].broker = o \/ o = e
    BY <1>19, <2>2 DEF Active, Used
  <2>5. \A o \in Slots : role'[o] = "exit" => role[o] = "exit"
    BY <2>2
  <2> QED
    BY <1>24, <1>26, <2>1, <2>2, <2>3, <2>4, <2>5
<1>27. CASE ~Exits /\ ~Enters
  <2>1. orders' = orders /\ role' = role /\ (uncovered' <=> uncovered)
    BY <1>20, <1>27
  <2>2. Active' = Active /\ \A r : ActiveOf(r)' = ActiveOf(r)
    BY <2>1 DEF Active, Used, ActiveOf
  <2>3. BooksSound'
    BY <1>2, <1>17, <2>1 DEF BooksSound, Sound, Absent, Unsettled
  <2>4. TradeSound'
    <3>1. /\ Single("entry")' /\ Single("exit")' /\ Mirrored'
          /\ \A o \in Slots : Unsettled(o)' => o \in Active'
      BY <1>2, <1>16, <1>17, <2>1, <2>2
         DEF TradeSound, Single, Mirrored, Unseen, Unsettled
    <3>2. Covered'
      BY <1>2, <1>16, <1>18, <2>1, <2>2 DEF TradeSound, Covered, Open
    <3>3. ExitOwed'
      BY <1>2, <1>16, <1>18, <1>20, <1>27, <2>1, <2>2 DEF TradeSound, ExitOwed
    <3> QED
      BY <1>2, <1>3, <1>16, <1>18, <2>1, <3>1, <3>2, <3>3 DEF TradeSound
  <2>5. \A o \in Active' : orders'[o].broker = o
    BY <1>19, <2>1, <2>2
  <2> QED
    BY <1>2, <1>24, <1>27, <2>1, <2>2, <2>3, <2>4, <2>5 DEF TypeOK
<1> QED
  BY <1>25, <1>26, <1>27

\* After the exit's cancel: the force exit goes out, or the loop goes on without it.
LEMMA ReleaseInv ==
  ASSUME LiveInv, NEW due \in BOOLEAN, NEW expired \in BOOLEAN, Release(due, expired)
  PROVE  LiveInv'
<1> DEFINE tick == Tick(lollipop, position, due, expired)
           goes == position # 0 /\ ActiveOf("exit") = {}
<1>1. /\ pc = "release"
      /\ lollipop' = IF goes THEN tick.workflow ELSE lollipop
      /\ IF goes /\ tick.action = "force"
         THEN /\ Track(NextSlot("exit"), "exit", position)
              /\ uncovered' = FALSE
              /\ Enter("deferred", {}, [plan EXCEPT !.exit = NextSlot("exit")])
         ELSE /\ UNCHANGED <<orders, role, uncovered>>
              /\ Enter(AfterExitCancel(plan), {}, plan)
      /\ UNCHANGED <<position, broker, cleanup>>
  BY DEF Release
<1>2. /\ TypeOK /\ BooksSound /\ ControlSound /\ At = "release" /\ TradeSound
      /\ report = "none" /\ RoomAt("release") /\ ForceOwed /\ ~guarded
  BY <1>1 DEF LiveInv, ControlSound, At, Trading, Flattening, TradingPcs, FlattenPcs, Room,
       DeferredOwed
<1>3. /\ position \in Nat /\ lollipop \in Workflow /\ uncovered \in BOOLEAN
      /\ (lollipop.forced => lollipop.phase = "TIMEOUT")
  BY <1>2 DEF TypeOK, TradeSound
<1>4. /\ tick.workflow \in Workflow /\ tick.action \in {"none", "tp", "force"}
      /\ tick.workflow.forced => tick.workflow.phase = "TIMEOUT"
      /\ tick.action # "none" => position > 0 /\ tick.workflow.phase \in {"ACTIVE", "TIMEOUT"}
      /\ tick.action = "force" => tick.workflow.phase = "TIMEOUT"
      /\ tick.action = "tp" => lollipop.phase = "SCHEDULED"
      /\ tick.action = "none" /\ position > 0 => tick.workflow = lollipop
  <2>1. TickSound(lollipop, position, tick)
    BY <1>3, TickEffect
  <2> QED
    BY <2>1 DEF TickSound
<1>5. /\ plan \in Plans /\ plan.exitCancel /\ plan.exit = 0 /\ plan.entry = 0
      /\ \A o \in Active : orders[o].broker = o
  <2>1. PlanFits("release", plan) /\ plan \in Plans
    BY <1>2 DEF ControlSound, TypeOK, Plans
  <2>2. \A o \in Active : o # 0
    BY SlotsFinite DEF Active, Used
  <2> QED
    BY <2>1, <2>2 DEF PlanFits, ToSend, TradingPcs
<1> PICK x \in Slots :
      x = NextSlot("exit") /\ x \in ExitSlots /\ x # 0 /\ role[x] = "none"
  BY <1>2, ExitSlotFree DEF RoomAt
<1>6. /\ atBroker' = atBroker /\ exec' = exec /\ held' = held /\ stray' = stray /\ drift' = drift
      /\ report' = "none" /\ ~guarded'
      /\ position' = position /\ UNCHANGED broker /\ UNCHANGED cleanup
      /\ atBroker' \in [Slots -> BrokerStates] /\ exec' \in [Slots -> Nat] /\ held' \in Nat
      /\ position' \in Int
  BY <1>1, <1>2 DEF broker, cleanup, TypeOK
<1>7. /\ lollipop' \in Workflow /\ (lollipop'.forced => lollipop'.phase = "TIMEOUT")
  BY <1>1, <1>3, <1>4
<1>8. ASSUME goes, tick.action = "force" PROVE LiveInv'
  <2>1. PICK p \in Plans : p = [plan EXCEPT !.exit = x]
    BY <1>5 DEF Plans
  <2>2. p.exitCancel /\ p.exit = x /\ p.entry = 0
    BY <1>5, <2>1 DEF Plans
  <2>3. /\ Track(x, "exit", position) /\ ~uncovered' /\ Enter("deferred", {}, p)
        /\ position \in Nat \ {0} /\ lollipop'.phase = "TIMEOUT" /\ ActiveOf("exit") = {}
        /\ uncovered' \in BOOLEAN
    BY <1>1, <1>3, <1>4, <1>8, <2>1
  <2> HIDE DEF goes, tick
  <2>4. /\ BooksSound' /\ Fresh(x, "exit")' /\ Open(x)' = position
        /\ orders' \in [Slots -> Order] /\ role' \in [Slots -> {"entry", "exit", "none"}]
        /\ \A q \in Slots : q # x => orders'[q] = orders[q] /\ role'[q] = role[q]
        /\ Active' = Active \cup {x} /\ x \notin Active
        /\ ActiveOf("exit")' = {x} /\ ActiveOf("entry")' = ActiveOf("entry")
        /\ Mirrored'
    BY <1>2, <1>6, <2>3, TrackKeeps DEF TradeSound
  <2>5. TradeSound'
    <3>1. Single("entry")' /\ Single("exit")'
      BY <1>2, <2>4 DEF TradeSound, Single
    <3>2. \A o \in Slots : Unsettled(o)' => o \in Active'
      BY <1>2, <1>6, <2>4 DEF TradeSound, Unsettled
    <3>3. Covered'
      BY <1>6, <2>3, <2>4 DEF Covered
    <3>4. ExitOwed'
      BY <2>3, <2>4 DEF ExitOwed
    <3> QED
      BY <1>3, <1>6, <1>7, <2>3, <2>4, <3>1, <3>2, <3>3, <3>4 DEF TradeSound
  <2>6. PlanFits("deferred", p)'
    <3>1. \A o \in Active' : orders'[o].broker = o \/ o = x
      BY <1>5, <2>4 DEF Active, Used
    <3> QED
      BY <2>2, <2>4, <3>1 DEF PlanFits, ToSend, BeforeEntry, BeforeExit
  <2>7. ControlSound' /\ ControlTypes' /\ Reached("deferred", p)
    <3>1. "deferred" \in Labels
      BY DEF Labels, TradingPcs
    <3> QED
      BY <1>6, <2>3, <2>6, <3>1, EnterFits DEF FlattenPcs
  <2>8. At' = "deferred"
    BY <2>7 DEF Reached
  <2>9. TypeOK'
    BY <1>2, <1>6, <1>7, <2>3, <2>4, <2>7, TypesJoin
  <2>10. Room' /\ DeferredOwed'
    <3>1. \A o, q \in Slots : role[o] = "exit" /\ role[q] = "exit" => o = q
      BY <1>2 DEF RoomAt
    <3>2. PICK a \in Slots : \A o \in Slots : role[o] = "exit" => o = a
      BY <3>1
    <3>3. \A o \in Slots : role'[o] = "exit" => o \in {a, x}
      BY <2>4, <3>2
    <3> QED
      BY <2>8, <3>3 DEF Room, RoomAt, DeferredOwed
  <2> QED
    BY <2>4, <2>5, <2>7, <2>8, <2>9, <2>10, LoopSteps DEF TradingPcs
<1>9. ASSUME ~(goes /\ tick.action = "force") PROVE LiveInv'
  <2>1. /\ orders' = orders /\ role' = role /\ uncovered' = uncovered
        /\ Enter(AfterExitCancel(plan), {}, plan)
    BY <1>1, <1>9
  <2>2. /\ lollipop' = lollipop
           \/ /\ ActiveOf("exit") = {} /\ position > 0 /\ lollipop.phase = "SCHEDULED"
              /\ lollipop'.phase \in {"ACTIVE", "TIMEOUT"}
    BY <1>1, <1>3, <1>4, <1>9
  <2> HIDE DEF goes, tick
  <2>3. Active' = Active /\ \A r : ActiveOf(r)' = ActiveOf(r)
    BY <2>1 DEF Active, Used, ActiveOf
  <2>4. BooksSound'
    BY <1>2, <1>6, <2>1 DEF BooksSound, Sound, Absent, Unsettled
  <2>5. TradeSound'
    <3>1. /\ Single("entry")' /\ Single("exit")' /\ Mirrored'
          /\ \A o \in Slots : Unsettled(o)' => o \in Active'
      BY <1>2, <1>6, <2>1, <2>3 DEF TradeSound, Single, Mirrored, Unseen, Unsettled
    <3>2. Covered'
      BY <1>2, <1>6, <2>1, <2>2, <2>3 DEF TradeSound, Covered, Open
    <3>3. ExitOwed'
      BY <1>2, <1>6, <2>1, <2>2, <2>3 DEF TradeSound, ExitOwed, ForceOwed
    <3> QED
      BY <1>2, <1>6, <1>7, <2>1, <3>1, <3>2, <3>3 DEF TradeSound
  <2>6. PICK label \in {"entryCancel", "board"}, p \in Plans :
          label = AfterExitCancel(plan) /\ p = plan
    BY <1>5 DEF AfterExitCancel, AfterEntryCancel, AfterEntry
  <2>7. p.entry = 0 /\ p.exit = 0 /\ \A o \in Active' : orders'[o].broker = o
    BY <1>5, <2>1, <2>3, <2>6
  <2>8. PlanFits(label, p)'
    BY <2>7 DEF PlanFits
  <2>9. ControlSound' /\ ControlTypes' /\ Reached(label, p)
    <3>1. label \in Labels
      BY DEF Labels, TradingPcs
    <3> QED
      BY <1>6, <2>1, <2>6, <2>8, <3>1, EnterFits
  <2>10. At' \in {"entryCancel", "exit", "board"}
    BY <2>9 DEF Reached
  <2>11. TypeOK'
    BY <1>2, <1>6, <1>7, <2>1, <2>9, TypesJoin DEF TypeOK
  <2>12. Room' /\ DeferredOwed'
    BY <1>2, <2>1, <2>10 DEF Room, RoomAt, DeferredOwed
  <2> QED
    BY <2>4, <2>5, <2>9, <2>10, <2>11, <2>12, LoopSteps DEF TradingPcs
<1> QED
  BY <1>8, <1>9

-------------------------------------------------------------------------------
(***************************************************************************)
(* The emergency flatten.                                                  *)
(***************************************************************************)

\* What a step that leaves strategy and broker alone keeps.
LEMMA Untouched ==
  ASSUME TypeOK, BooksSound, UNCHANGED <<broker, strategy>>
  PROVE  /\ BooksSound' /\ Active' = Active /\ \A r : ActiveOf(r)' = ActiveOf(r)
         /\ \A o \in Slots, r \in {"entry", "exit"} : Fresh(o, r)' <=> Fresh(o, r)
         /\ orders' = orders /\ role' = role /\ atBroker' = atBroker /\ exec' = exec
         /\ held' = held /\ stray' = stray /\ drift' = drift /\ position' = position /\ lollipop' = lollipop
         /\ uncovered' = uncovered
BY DEF BooksSound, Sound, Absent, Unsettled, Active, Used, ActiveOf, Fresh, broker, strategy

\* A plan that fits fits any stage of the cleanup before the flatten order.
LEMMA PlanIdle ==
  ASSUME NEW at, NEW p, PlanFits(at, p),
         NEW label \in {"cancelAll", "scan", "scanCancel", "verify", "readPosition"}
  PROVE  PlanFits(label, p)'
BY DEF PlanFits, BeforeEntry, BeforeExit, TradingPcs

\* A broken-off cleanup: the books are in order, and there is room for the next one.
LEMMA BreakOffSteps ==
  ASSUME TypeOK, NEW at, at # "halted", RoomAt(at), report = "none", BreakOff,
         atBroker' \in [Slots -> BrokerStates], exec' \in [Slots -> Nat], held' \in Nat,
         stray' = stray, drift' = drift,
         orders' \in [Slots -> Order], role' \in [Slots -> {"entry", "exit", "none"}],
         position' \in Int, lollipop' \in Workflow, uncovered' \in BOOLEAN,
         \A o \in Slots : role'[o] = "exit" => role[o] = "exit", BooksSound'
  PROVE  LiveInv'
<1>1. /\ guarded /\ guarded' = guarded /\ report' = "none" /\ Leave("again") /\ Reset
  BY DEF BreakOff, Reset
<1>2. ControlSound' /\ ControlTypes' /\ At' = "again" /\ pc' = "again"
  <2>1. guarded'
    BY <1>1
  <2> QED
    BY <1>1, <2>1, LeaveFits DEF HandlerPcs
<1>3. TypeOK'
  BY <1>1, <1>2, TypesJoin
<1>4. Room'
  <2>1. PICK a \in Slots, b \in Slots : \A o \in Slots : role[o] = "exit" => o \in {a, b}
    BY <1>1 DEF RoomAt
  <2> QED
    BY <1>2, <2>1 DEF Room, RoomAt
<1> QED
  BY <1>2, <1>3, <1>4, AgainSteps

\* Nothing to clean up, or everything open is to be canceled.
LEMMA CleanupInv ==
  ASSUME LiveInv, Cleanup
  PROVE  LiveInv'
<1>1. pc \in HandlerPcs /\ (pc = "fault" \/ Exposed)
  BY DEF Cleanup, HandlerPcs
<1>2. /\ TypeOK /\ BooksSound /\ ControlSound /\ At = pc /\ report = "none" /\ RoomAt(pc)
      /\ pc = "fault" => TradeSound /\ ~guarded
  BY <1>1 DEF LiveInv, ControlSound, At, Trading, Flattening, FlattenPcs, Room, HandlerPcs
<1>4. CASE Exposed
  <2>1. /\ pc' = "cancelAll" /\ cancels' = Active /\ rounds' = 3 /\ ~unnamed'
        /\ tried' = {o \in Active : orders[o].broker # NoBroker}
        /\ unnamed' \in BOOLEAN /\ guarded' \in BOOLEAN /\ (guarded' => pc = "fault")
        /\ then' = then /\ todo' = todo /\ plan' = plan /\ report' = report
        /\ Forget
    BY <1>4 DEF Cleanup
  <2>2. /\ orders' \in [Slots -> Order] /\ role' \in [Slots -> {"entry", "exit", "none"}]
        /\ atBroker' \in [Slots -> BrokerStates] /\ exec' \in [Slots -> Nat]
        /\ held' = held /\ stray' = stray /\ drift' = drift
        /\ position' = position /\ lollipop' = lollipop /\ uncovered' = uncovered
        /\ BooksSound' /\ Active' = Active
        /\ \A o \in Slots : role'[o] # "none" => role'[o] = role[o] /\ o \in Active
    BY <1>2, <2>1, ForgetKeeps
  <2>3. At' = "cancelAll"
    BY <2>1 DEF At
  <2>4. TypeOK'
    <3>1. cancels' \subseteq Slots /\ tried' \subseteq Slots /\ pc' \in FlattenPcs
      BY <2>1 DEF Active, Used, FlattenPcs
    <3>2. rounds' \in 0 .. 3
      BY <2>1
    <3> QED
      BY <1>2, <2>1, <2>2, <3>1, <3>2 DEF TypeOK
  <2>5. ControlSound'
    <3>1. PICK p : p = plan
      OBVIOUS
    <3>2. PlanFits("cancelAll", p)'
      BY <1>2, <3>1, PlanIdle DEF ControlSound
    <3>3. PlanFits(At, plan)'
      BY <2>1, <2>3, <3>1, <3>2
    <3>4. report' = "none"
      BY <1>2, <2>1
    <3> QED
      BY <2>1, <2>2, <2>3, <3>3, <3>4 DEF ControlSound, CancelsFit, TradingPcs, HandlerPcs
  <2>6. Room'
    <3>1. PICK a \in Slots, b \in Slots : \A o \in Slots : role[o] = "exit" => o \in {a, b}
      BY <1>1, <1>2 DEF RoomAt, HandlerPcs
    <3>2. \A o \in Slots : role'[o] = "exit" => o \in {a, b}
      BY <2>2, <3>1
    <3>3. ASSUME guarded', NEW o \in Slots, NEW p \in Slots, role'[o] = "exit", role'[p] = "exit"
          PROVE  o = p
      <4>1. Single("exit")
        BY <1>2, <2>1, <3>3 DEF TradeSound
      <4> QED
        BY <2>2, <3>3, <4>1 DEF Single, ActiveOf
    <3> QED
      BY <2>3, <3>2, <3>3 DEF Room, RoomAt
  <2>7. CleanupKnows'
    <3>1. \A o \in Slots : atBroker'[o] = "limbo" => o \in Active'
      BY <2>2 DEF BooksSound, Sound, Unsettled, Active, Used
    <3> QED
      BY <2>1, <2>2, <2>3, <3>1 DEF CleanupKnows
  <2> QED
    BY <2>2, <2>3, <2>4, <2>5, <2>6, <2>7, CleanupSteps DEF FlattenPcs
<1>5. CASE ~Exposed
  <2>1. Stop("not_required") /\ position = 0 /\ Active = {} /\ UNCHANGED broker
    BY <1>5 DEF Cleanup, Exposed
  <2>2. held = position + drift /\ \A o \in Slots : ~Unsettled(o)
    BY <1>1, <1>2, <1>5, <2>1, FlatMirror
  <2>3. held = drift /\ \A o \in Slots : atBroker[o] \notin {"live", "limbo"}
    BY <1>2, <2>1, <2>2 DEF Unsettled, TypeOK
  <2>4. /\ atBroker' = atBroker /\ exec' = exec /\ held' = held
        /\ stray' = stray /\ drift' = drift
    BY <2>1 DEF broker
  <2>5. /\ atBroker' \in [Slots -> BrokerStates] /\ exec' \in [Slots -> Nat]
        /\ "not_required" \in Reports
    BY <1>2, <2>4 DEF TypeOK, Reports
  <2> QED
    BY <1>2, <2>1, <2>3, <2>4, <2>5, StopKeeps
<1> QED
  BY <1>4, <1>5

\* One cancel of the cleanup, tried or given up for want of a name.
LEMMA CancelAllInv ==
  ASSUME LiveInv, NEW o \in Slots, CancelAll(o)
  PROVE  LiveInv'
<1>1. /\ pc = "cancelAll" /\ o \in cancels
  BY DEF CancelAll
<1>2. /\ TypeOK /\ BooksSound /\ ControlSound /\ At = "cancelAll"
      /\ report = "none" /\ RoomAt("cancelAll") /\ cancels \subseteq Active
      /\ CleanupKnows
  BY <1>1 DEF LiveInv, ControlSound, CancelsFit, At, Room
<1>3. /\ o \in Active /\ Sound(o) /\ orders[o] \in Order /\ ~IsFinal(orders[o])
  BY <1>1, <1>2 DEF BooksSound, TypeOK, Active
<1>4. ASSUME BooksSound', Touches(o), Active' = Active,
             atBroker' = atBroker, exec' = exec, held' = held, stray' = stray, drift' = drift,
             unnamed' \in BOOLEAN, cancels' = cancels \ {o},
             UNCHANGED <<pc, then, todo, plan, rounds, tried, report, guarded>>,
             ~unnamed' => ~unnamed /\ atBroker[o] # "limbo"
      PROVE  LiveInv'
  <2>1. role' = role /\ At' = "cancelAll"
    BY <1>1, <1>4 DEF Touches, At
  <2>2. TypeOK'
    <3>1. /\ orders' \in [Slots -> Order] /\ role' \in [Slots -> {"entry", "exit", "none"}]
          /\ position' \in Int /\ lollipop' \in Workflow /\ uncovered' \in BOOLEAN
          /\ cancels' \subseteq Slots
      BY <1>1, <1>2, <1>4 DEF Touches, TypeOK
    <3> QED
      BY <1>1, <1>2, <1>4, <2>1, <3>1 DEF TypeOK
  <2>3. ControlSound'
    <3>1. PICK p : p = plan
      OBVIOUS
    <3>2. PlanFits("cancelAll", p)'
      BY <1>2, <3>1, PlanIdle DEF ControlSound
    <3>3. PlanFits(At, plan)'
      BY <1>4, <2>1, <3>1, <3>2
    <3> QED
      BY <1>1, <1>2, <1>4, <2>1, <3>3 DEF ControlSound, CancelsFit, TradingPcs, HandlerPcs
  <2>4. Room'
    BY <1>2, <1>4, <2>1 DEF Room, RoomAt
  <2>5. CleanupKnows'
    BY <1>1, <1>2, <1>4, <2>1 DEF CleanupKnows
  <2> QED
    BY <1>4, <2>1, <2>2, <2>3, <2>4, <2>5, CleanupSteps DEF FlattenPcs
<1>5. ASSUME CancelTimesOut(o)
      PROVE  /\ Touches(o) /\ BooksSound' /\ Active' = Active
             /\ atBroker' = atBroker /\ exec' = exec /\ held' = held
             /\ stray' = stray /\ drift' = drift
             /\ atBroker' \in [Slots -> BrokerStates] /\ exec' \in [Slots -> Nat]
             /\ held' \in Nat
  BY <1>2, <1>3, <1>5, PendingKeeps
<1>6. CASE /\ orders[o].broker = NoBroker /\ CancelTimesOut(o) /\ unnamed' = TRUE
           /\ cancels' = cancels \ {o}
           /\ UNCHANGED <<pc, then, todo, plan, rounds, tried, report, guarded>>
  BY <1>4, <1>5, <1>6
<1>7. CASE /\ orders[o].broker # NoBroker
           /\ CancelAccepted(o) \/ CancelUnknown(o)
           /\ UNCHANGED unnamed /\ cancels' = cancels \ {o}
           /\ UNCHANGED <<pc, then, todo, plan, rounds, tried, report, guarded>>
  <2>2. orders[o].broker = o /\ atBroker[o] \notin {"none", "limbo"}
    BY <1>3, <1>7 DEF Sound
  <2>3. PICK status \in {"cancel_pending", "unknown"} :
          OnOrderEvent(o, Event(o, status, NoCum, TRUE))
    BY <1>7 DEF CancelAccepted, CancelUnknown
  <2>4. /\ atBroker' = atBroker /\ exec' = exec /\ held' = held
        /\ stray' = stray /\ drift' = drift
    BY <1>7 DEF CancelAccepted, CancelUnknown, broker
  <2>5. /\ atBroker[o] = "live" => exec[o] < orders[o].qty
        /\ atBroker[o] = "filled" => exec[o] = orders[o].qty
        /\ atBroker[o] \in {"none", "limbo", "rejected"} => exec[o] = 0
    BY <1>3 DEF Sound
  <2>6. Touches(o) /\ BooksSound' /\ Active' = Active
    BY <1>2, <1>3, <2>2, <2>3, <2>4, <2>5, CallKeeps
  <2>7. unnamed' \in BOOLEAN /\ (~unnamed' => ~unnamed)
    BY <1>2, <1>7 DEF TypeOK
  <2> QED
    BY <1>4, <1>7, <2>2, <2>4, <2>6, <2>7
<1>8. CASE CancelTimesOut(o) /\ BreakOff
  <2>1. /\ orders' \in [Slots -> Order] /\ role' \in [Slots -> {"entry", "exit", "none"}]
        /\ position' \in Int /\ lollipop' \in Workflow /\ uncovered' \in BOOLEAN
        /\ role' = role
    BY <1>5, <1>8 DEF Touches
  <2> QED
    BY <1>2, <1>5, <1>8, <2>1, BreakOffSteps
<1> QED
  BY <1>6, <1>7, <1>8 DEF CancelAll

\* The rounds over the broker's open orders.
LEMMA ScanInv ==
  ASSUME LiveInv, Scan \/ \E o \in Slots : ScanCancel(o)
  PROVE  LiveInv'
<1>1. /\ pc \in {"scan", "cancelAll", "scanCancel"} /\ UNCHANGED <<broker, strategy>>
  BY DEF Scan, ScanCancel
<1>2. /\ TypeOK /\ BooksSound /\ ControlSound /\ At = pc /\ report = "none"
      /\ RoomAt(pc) /\ CleanupKnows /\ guarded \in BOOLEAN
  BY <1>1 DEF LiveInv, ControlSound, At, Room, TypeOK
<1>3. /\ BooksSound' /\ orders' = orders /\ role' = role /\ atBroker' = atBroker /\ exec' = exec
      /\ held' = held /\ stray' = stray /\ drift' = drift /\ position' = position /\ lollipop' = lollipop
      /\ uncovered' = uncovered
  BY <1>1, <1>2, Untouched
<1>4. pc = "scan" \/ (pc = "cancelAll" /\ cancels = {}) \/ pc = "scanCancel"
  BY DEF Scan, ScanCancel
<1>5. ~unnamed => \A o \in Slots : atBroker[o] # "limbo"
  BY <1>2, <1>4 DEF CleanupKnows
<1>6. ASSUME At' \in {"scanCancel", "verify"}, unnamed' = unnamed, guarded' = guarded,
             ControlSound', TypeOK'
      PROVE  LiveInv'
  <2>1. Room'
    BY <1>1, <1>2, <1>3, <1>6 DEF Room, RoomAt
  <2>2. CleanupKnows'
    BY <1>3, <1>5, <1>6 DEF CleanupKnows
  <2> QED
    BY <1>3, <1>6, <2>1, <2>2, CleanupSteps DEF FlattenPcs
<1>7. CASE Scan /\ ~OpenOrders
  <2>1. Leave("verify") /\ Reset /\ unnamed' = unnamed /\ guarded' = guarded
        /\ report' = report
    BY <1>2, <1>7 DEF Scan, EndScans, Reset, TypeOK
  <2>2. report' = "none"
    BY <1>2, <2>1
  <2>3. ControlSound' /\ ControlTypes' /\ At' = "verify"
    BY <2>1, <2>2, LeaveFits DEF HandlerPcs
  <2>4. TypeOK'
    BY <1>2, <1>3, <2>1, <2>3, TypesJoin DEF TypeOK
  <2> QED
    BY <1>6, <2>1, <2>3, <2>4
<1>8. ASSUME pc' = "scanCancel", cancels' \subseteq Slots, tried' \subseteq Slots,
             rounds' \in 0 .. 3, UNCHANGED <<then, todo, plan, report, unnamed, guarded>>
      PROVE  LiveInv'
  <2>1. At' = "scanCancel" /\ pc' \in FlattenPcs
    BY <1>8 DEF At, FlattenPcs
  <2>2. ControlSound'
    <3>1. PICK p : p = plan
      OBVIOUS
    <3>2. PlanFits("scanCancel", p)'
      BY <1>2, <3>1, PlanIdle DEF ControlSound
    <3>3. PlanFits(At, plan)'
      BY <1>8, <2>1, <3>1, <3>2
    <3> QED
      BY <1>2, <1>8, <2>1, <3>3 DEF ControlSound, CancelsFit, TradingPcs, HandlerPcs
  <2>3. TypeOK'
    BY <1>2, <1>3, <1>8, <2>1 DEF TypeOK
  <2> QED
    BY <1>6, <1>8, <2>1, <2>2, <2>3
<1>9. CASE Scan /\ OpenOrders
  <2>1. /\ pc' = "scanCancel" /\ cancels' = Live \ tried /\ tried' = tried \cup Live
        /\ rounds' = rounds - 1 /\ rounds > 0
        /\ UNCHANGED <<then, todo, plan, report, unnamed, guarded>>
    BY <1>9 DEF Scan, RoundsLeft
  <2>2. Live \subseteq Slots /\ tried \subseteq Slots /\ rounds \in 0 .. 3
    BY <1>2 DEF Live, TypeOK
  <2>3. rounds' \in 0 .. 3 /\ cancels' \subseteq Slots /\ tried' \subseteq Slots
    BY <2>1, <2>2
  <2> QED
    BY <1>8, <2>1, <2>3
<1>10. CASE \E o \in Slots : ScanCancel(o)
  <2>1. /\ pc' = "scanCancel" /\ cancels' \subseteq cancels
        /\ UNCHANGED <<then, todo, plan, cleanup>>
    BY <1>10 DEF ScanCancel
  <2>2. /\ cancels \subseteq Slots /\ tried' \subseteq Slots /\ rounds' \in 0 .. 3
        /\ UNCHANGED <<report, unnamed, guarded>>
    BY <1>2, <2>1 DEF TypeOK, cleanup
  <2> QED
    BY <1>8, <2>1, <2>2
<1> QED
  BY <1>7, <1>9, <1>10

\* The poll after a round.
LEMMA ScanPollsInv ==
  ASSUME LiveInv, ScanPolls
  PROVE  LiveInv'
<1>1. /\ pc = "scanCancel" /\ UNCHANGED <<broker, strategy>>
      /\ (StartPoll("scan", {}, NoPlan) /\ UNCHANGED cleanup) \/ BreakOff
  BY DEF ScanPolls, PollOrBreakOff
<1>2. /\ TypeOK /\ BooksSound /\ ControlSound /\ At = "scanCancel" /\ report = "none"
      /\ RoomAt("scanCancel") /\ CleanupKnows
  BY <1>1 DEF LiveInv, ControlSound, At, Room
<1>3. /\ BooksSound' /\ orders' = orders /\ role' = role /\ atBroker' = atBroker /\ exec' = exec
      /\ held' = held /\ stray' = stray /\ drift' = drift /\ position' = position /\ lollipop' = lollipop
      /\ uncovered' = uncovered
  BY <1>1, <1>2, Untouched
<1>9. CASE BreakOff
  <2>1. /\ orders' \in [Slots -> Order] /\ role' \in [Slots -> {"entry", "exit", "none"}]
        /\ atBroker' \in [Slots -> BrokerStates] /\ exec' \in [Slots -> Nat] /\ held' \in Nat
        /\ position' \in Int /\ lollipop' \in Workflow /\ uncovered' \in BOOLEAN
    BY <1>2, <1>3 DEF TypeOK
  <2> QED
    BY <1>2, <1>3, <1>9, <2>1, BreakOffSteps
<1> SUFFICES ASSUME StartPoll("scan", {}, NoPlan), UNCHANGED cleanup PROVE LiveInv'
  BY <1>1, <1>9
<1>4. report' = "none" /\ unnamed' = unnamed /\ guarded' = guarded
  BY <1>2 DEF cleanup
<1>5. ControlSound' /\ ControlTypes' /\ Reached("scan", NoPlan)
  <2>1. PlanFits("scan", NoPlan)'
    BY DEF PlanFits, NoPlan, BeforeEntry, BeforeExit, TradingPcs
  <2>2. NoPlan \in Plans /\ "scan" \in PollLabels
    BY DEF NoPlan, Plans, PollLabels
  <2> QED
    BY <1>4, <2>1, <2>2, PollFits DEF FlattenPcs
<1>6. At' = "scan"
  BY <1>5 DEF Reached
<1>7. TypeOK'
  BY <1>2, <1>3, <1>5, TypesJoin DEF TypeOK
<1>8. Room' /\ CleanupKnows'
  BY <1>2, <1>3, <1>4, <1>6 DEF Room, RoomAt, CleanupKnows
<1> QED
  BY <1>3, <1>5, <1>6, <1>7, <1>8, CleanupSteps DEF FlattenPcs

\* The last look at the open orders.
LEMMA VerifyInv ==
  ASSUME LiveInv, Verify
  PROVE  LiveInv'
<1>1. pc \in {"verify", "scan"} /\ UNCHANGED broker
  BY DEF Verify
<1>2. /\ TypeOK /\ BooksSound /\ ControlSound /\ At = pc /\ report = "none"
      /\ RoomAt(pc) /\ CleanupKnows
  BY <1>1 DEF LiveInv, ControlSound, At, Room
<1>3. atBroker' = atBroker /\ exec' = exec /\ held' = held /\ stray' = stray /\ drift' = drift
  BY <1>1 DEF broker
<1>4. CASE ~OpenOrders
  <2>1. /\ Leave("readPosition") /\ Reset /\ UNCHANGED <<strategy, report, unnamed, guarded>>
    BY <1>2, <1>4 DEF Verify, EndScans, Reset, TypeOK
  <2>2. /\ BooksSound' /\ orders' = orders /\ role' = role
        /\ position' = position /\ lollipop' = lollipop /\ uncovered' = uncovered
    BY <1>1, <1>2, <2>1, Untouched
  <2>3. report' = "none" /\ unnamed' = unnamed /\ guarded' = guarded
    BY <1>2, <2>1
  <2>4. ControlSound' /\ ControlTypes' /\ At' = "readPosition"
    BY <2>1, <2>3, LeaveFits DEF HandlerPcs
  <2>5. TypeOK'
    BY <1>2, <1>3, <2>1, <2>2, <2>4, TypesJoin DEF TypeOK
  <2>6. Room'
    BY <1>1, <1>2, <2>2, <2>3, <2>4 DEF Room, RoomAt
  <2>7. CleanupKnows'
    <3>1. ~unnamed => \A o \in Slots : ~Unsettled(o)
      BY <1>1, <1>2, <1>4 DEF CleanupKnows, Unsettled, Live, OpenOrders
    <3>2. stray.buy = 0 /\ stray.sell = 0
      <4>1. stray.buy \in Nat /\ stray.sell \in Nat
        BY <1>2 DEF TypeOK
      <4> QED
        BY <1>4, <4>1 DEF OpenOrders
    <3> QED
      BY <1>3, <2>3, <2>4, <3>1, <3>2 DEF CleanupKnows, Unsettled
  <2> QED
    BY <2>2, <2>4, <2>5, <2>6, <2>7, CleanupSteps DEF FlattenPcs
<1>5. CASE OpenOrders
  <2>1. Stop("unresolved") /\ "unresolved" \in Reports
    BY <1>5 DEF Verify, Reports
  <2> QED
    BY <1>2, <1>3, <2>1, StopKeeps DEF TypeOK
<1> QED
  BY <1>4, <1>5

\* The account is flat, or one order is to close all of it.
LEMMA ReadPositionInv ==
  ASSUME LiveInv, ReadPosition
  PROVE  LiveInv'
<1>1. pc = "readPosition" /\ UNCHANGED broker
  BY DEF ReadPosition
<1>2. /\ TypeOK /\ BooksSound /\ ControlSound /\ At = "readPosition" /\ report = "none"
      /\ RoomAt("readPosition") /\ CleanupKnows
  BY <1>1 DEF LiveInv, ControlSound, At, Room
<1>3. /\ atBroker' = atBroker /\ exec' = exec /\ held' = held /\ stray' = stray /\ drift' = drift
      /\ atBroker' \in [Slots -> BrokerStates] /\ exec' \in [Slots -> Nat] /\ held' \in Nat
  BY <1>1, <1>2 DEF broker, TypeOK
<1>4. ~unnamed => (\A o \in Slots : ~Unsettled(o)) /\ stray.buy = 0 /\ stray.sell = 0
  BY <1>2 DEF CleanupKnows
<1>5. CASE held = 0
  <2>1. Stop("completed") /\ "completed" \in Reports
    BY <1>5 DEF ReadPosition, Reports
  <2> QED
    BY <1>2, <1>3, <1>4, <1>5, <2>1, StopKeeps DEF Unsettled
<1>6. CASE held # 0
  <2> PICK x \in Slots :
        x = NextSlot("exit") /\ x \in ExitSlots /\ x # 0 /\ role[x] = "none"
    <3>1. \E a, b \in Slots : \A o \in Slots : role[o] = "exit" => o \in {a, b}
      BY <1>2 DEF RoomAt
    <3> QED
      BY <1>2, <3>1, ExitSlotFree
  <2> PICK p \in Plans : p = [NoPlan EXCEPT !.exit = x]
    BY DEF NoPlan, Plans
  <2>1. /\ Track(x, "exit", held) /\ held \in Nat \ {0}
        /\ UNCHANGED <<position, lollipop, uncovered>> /\ UNCHANGED cleanup
        /\ Enter("flatten", {}, p)
    BY <1>2, <1>6 DEF ReadPosition, TypeOK
  <2>2. p.exit = x /\ p.entry = 0
    BY DEF NoPlan
  <2>3. /\ BooksSound' /\ Fresh(x, "exit")'
        /\ orders' \in [Slots -> Order] /\ role' \in [Slots -> {"entry", "exit", "none"}]
    BY <1>1, <1>2, <2>1, TrackKeeps
  <2>4. report' = "none" /\ unnamed' = unnamed /\ guarded' = guarded
    BY <1>2, <2>1 DEF cleanup
  <2>5. PlanFits("flatten", p)'
    BY <2>2, <2>3 DEF PlanFits, BeforeEntry, TradingPcs
  <2>6. ControlSound' /\ ControlTypes' /\ Reached("flatten", p)
    <3>1. "flatten" \in Labels
      BY DEF Labels, FlattenPcs
    <3> QED
      BY <2>1, <2>4, <2>5, <3>1, EnterFits DEF FlattenPcs
  <2>7. At' = "flatten" /\ plan' = p
    BY <2>1, <2>6 DEF Reached, Enter
  <2>8. TypeOK'
    BY <1>2, <1>3, <2>1, <2>3, <2>6, TypesJoin DEF TypeOK
  <2>9. Room'
    <3>1. ASSUME guarded PROVE \E a, b \in Slots : \A o \in Slots : role'[o] = "exit" => o \in {a, b}
      <4>1. \A o, q \in Slots : role[o] = "exit" /\ role[q] = "exit" => o = q
        BY <1>2, <3>1 DEF RoomAt
      <4>2. PICK a \in Slots : \A o \in Slots : role[o] = "exit" => o = a
        BY <4>1
      <4>3. \A o \in Slots : role'[o] = "exit" => o = x \/ role[o] = "exit"
        BY <1>2, <2>1 DEF Track, TypeOK
      <4> QED
        BY <4>2, <4>3
    <3> QED
      BY <2>4, <2>7, <3>1 DEF Room, RoomAt
  <2>10. CleanupKnows'
    <3>1. role'[x] = "exit" /\ held' = Leaves(x)'
      <4>1. orders'[x].qty = held
        BY <1>2, <2>1 DEF Track, NewOrder, TypeOK
      <4>2. exec'[x] = 0
        BY <1>2, <1>3 DEF BooksSound, Sound
      <4>3. role'[x] = "exit"
        BY <2>3 DEF Fresh
      <4> QED
        BY <1>3, <2>1, <4>1, <4>2, <4>3 DEF Leaves
    <3>2. ~unnamed' => /\ \A o \in Slots : ~Unsettled(o)'
                       /\ stray'.buy = 0 /\ stray'.sell = 0
      BY <1>3, <1>4, <2>4 DEF Unsettled
    <3> QED
      BY <2>2, <2>7, <3>1, <3>2 DEF CleanupKnows
  <2> QED
    BY <2>3, <2>6, <2>7, <2>8, <2>9, <2>10, CleanupSteps DEF FlattenPcs
<1> QED
  BY <1>5, <1>6

\* The flatten order goes out, one way or another.
LEMMA FlattenInv ==
  ASSUME LiveInv, Flatten
  PROVE  LiveInv'
<1>1. pc = "flatten"
  BY DEF Flatten
<1>2. /\ TypeOK /\ BooksSound /\ ControlSound /\ At = "flatten" /\ report = "none"
      /\ PlanFits("flatten", plan) /\ plan \in Plans /\ CleanupKnows /\ RoomAt("flatten")
  BY <1>1 DEF LiveInv, ControlSound, At, TypeOK, Plans, Room
<1> PICK o \in Slots : o = plan.exit /\ Fresh(o, "exit")
  BY <1>2 DEF PlanFits, BeforeExit, Plans
<1>12. \/ /\ SubmitAccepted(o) \/ SubmitUnknown(o) \/ SubmitRefused(o)
          /\ (StartPoll("lastPosition", {}, NoPlan) /\ UNCHANGED cleanup) \/ BreakOff
       \/ SubmitLost(o) /\ UNCHANGED strategy /\ BreakOff
  BY DEF Flatten, PollOrBreakOff
<1>3. /\ o \in Active /\ exec[o] = 0 /\ exec[o] < orders[o].qty
      /\ atBroker[o] = "none" /\ orders[o].broker # o
  <2>1. orders[o].status = "new_pending" /\ orders[o].broker = NoBroker /\ role[o] # "none"
        /\ atBroker[o] = "none"
    BY DEF Fresh, NewOrder
  <2>2. o # NoBroker
    BY SlotsFinite, SlotsAssumption
  <2>3. orders[o] \in Order /\ Sound(o)
    BY <1>2 DEF TypeOK, BooksSound
  <2>4. orders[o].qty \in Nat \ {0} /\ exec[o] = 0
    BY <2>1, <2>3 DEF Order, Sound
  <2> QED
    BY <2>1, <2>2, <2>4 DEF Active, Used, IsFinal, FinalStatus
<1>4. /\ exec' = exec /\ held' = held /\ stray' = stray /\ drift' = drift /\ atBroker' \in [Slots -> BrokerStates]
      /\ exec' \in [Slots -> Nat] /\ held' \in Nat
      /\ \A q \in Slots \ {o} : atBroker'[q] = atBroker[q]
  <2>1. exec \in [Slots -> Nat] /\ held \in Nat /\ atBroker \in [Slots -> BrokerStates]
    BY <1>2 DEF TypeOK
  <2> QED
    BY <1>12, <2>1 DEF SubmitAccepted, SubmitUnknown, SubmitLost, SubmitRefused, broker,
         BrokerStates
<1>13. CASE SubmitLost(o) /\ UNCHANGED strategy /\ BreakOff
  <2>1. /\ BooksSound' /\ orders' = orders /\ role' = role /\ position' = position
        /\ lollipop' = lollipop /\ uncovered' = uncovered
    BY <1>2, <1>13, LostKeeps
  <2>2. /\ orders' \in [Slots -> Order] /\ role' \in [Slots -> {"entry", "exit", "none"}]
        /\ position' \in Int /\ lollipop' \in Workflow /\ uncovered' \in BOOLEAN
    BY <1>2, <2>1 DEF TypeOK
  <2> QED
    BY <1>2, <1>4, <1>13, <2>1, <2>2, BreakOffSteps
<1> SUFFICES ASSUME SubmitAccepted(o) \/ SubmitUnknown(o) \/ SubmitRefused(o),
                    (StartPoll("lastPosition", {}, NoPlan) /\ UNCHANGED cleanup) \/ BreakOff
             PROVE  LiveInv'
  BY <1>12, <1>13
<1>5. Touches(o) /\ BooksSound'
  <2>1. CASE SubmitAccepted(o)
    <3>1. atBroker'[o] = "live" /\ OnOrderEvent(o, Event(o, "working", NoCum, TRUE))
      BY <1>2, <2>1 DEF SubmitAccepted, TypeOK
    <3> QED
      BY <1>2, <1>3, <1>4, <3>1, CallKeeps
  <2>2. CASE SubmitUnknown(o)
    <3>1. /\ atBroker'[o] \in {"none", "limbo", "live"}
          /\ OnOrderEvent(o, Event(o, "unknown", NoCum, FALSE))
      BY <1>2, <2>2 DEF SubmitUnknown, SubmitLost, TypeOK
    <3> QED
      BY <1>2, <1>3, <1>4, <3>1, CallKeeps
  <2>3. CASE SubmitRefused(o)
    BY <1>2, <2>3, RefusalKeeps
  <2> QED
    BY <2>1, <2>2, <2>3
<1>14. CASE BreakOff
  BY <1>2, <1>4, <1>5, <1>14, BreakOffSteps DEF Touches
<1> SUFFICES ASSUME StartPoll("lastPosition", {}, NoPlan), UNCHANGED cleanup PROVE LiveInv'
  BY <1>14
<1>6. report' = "none" /\ unnamed' = unnamed /\ guarded' = guarded
  BY <1>2 DEF cleanup
<1>7. ControlSound' /\ ControlTypes' /\ Reached("lastPosition", NoPlan)
  <2>1. PlanFits("lastPosition", NoPlan)'
    BY DEF PlanFits, NoPlan, BeforeEntry, BeforeExit, TradingPcs
  <2>2. NoPlan \in Plans /\ "lastPosition" \in PollLabels
    BY DEF NoPlan, Plans, PollLabels
  <2> QED
    BY <1>6, <2>1, <2>2, PollFits DEF FlattenPcs
<1>8. At' = "lastPosition"
  BY <1>7 DEF Reached
<1>9. TypeOK'
  BY <1>2, <1>4, <1>5, <1>7, TypesJoin DEF Touches
<1>10. Room'
  BY <1>2, <1>5, <1>6, <1>8 DEF Room, RoomAt, Touches
<1>11. CleanupKnows'
  <2> SUFFICES ASSUME ~unnamed
               PROVE  /\ stray'.buy = 0 /\ stray'.sell = 0
                      /\ role'[o] = "exit" /\ held' = Leaves(o)'
                      /\ \A p \in Slots : Unsettled(p)' => p = o
    BY <1>6, <1>8 DEF CleanupKnows
  <2>1. /\ stray.buy = 0 /\ stray.sell = 0
        /\ role[o] = "exit" /\ held = Leaves(o)
        /\ \A p \in Slots : Unsettled(p) => p = o
    BY <1>2 DEF CleanupKnows
  <2> QED
    BY <1>4, <1>5, <2>1 DEF Touches, Leaves, Unsettled
<1> QED
  BY <1>5, <1>7, <1>8, <1>9, <1>10, <1>11, CleanupSteps DEF FlattenPcs

\* The last look at the position.
LEMMA LastPositionInv ==
  ASSUME LiveInv, LastPosition
  PROVE  LiveInv'
<1>1. /\ pc = "lastPosition" /\ UNCHANGED broker
      /\ Stop(IF held > 0 THEN "unresolved" ELSE "completed")
  BY DEF LastPosition
<1>2. /\ TypeOK /\ BooksSound /\ At = "lastPosition" /\ CleanupKnows
  BY <1>1 DEF LiveInv, At
<1>3. /\ atBroker' = atBroker /\ exec' = exec /\ held' = held /\ stray' = stray /\ drift' = drift
      /\ atBroker' \in [Slots -> BrokerStates] /\ exec' \in [Slots -> Nat] /\ held \in Nat
  BY <1>1, <1>2 DEF broker, TypeOK
<1>4. PICK r \in Reports :
        Stop(r) /\ (r = "completed" <=> held = 0) /\ r # "not_required"
  <2>1. CASE held > 0
    BY <1>1, <2>1 DEF Reports
  <2>2. CASE held = 0
    BY <1>1, <2>2 DEF Reports
  <2> QED
    BY <1>3, <2>1, <2>2
<1>5. ASSUME ~unnamed, held = 0
      PROVE  /\ stray.buy = 0 /\ stray.sell = 0
             /\ \A o \in Slots : atBroker[o] \notin {"live", "limbo"}
  <2>1. PICK f \in Slots : held = Leaves(f) /\ \A o \in Slots : Unsettled(o) => o = f
    BY <1>2, <1>5 DEF CleanupKnows
  <2>2. ~Unsettled(f)
    <3>1. orders[f].qty \in Nat \ {0} /\ exec[f] \in Nat /\ Sound(f)
      BY <1>2 DEF TypeOK, BooksSound, Order
    <3>2. exec[f] = orders[f].qty
      BY <1>5, <2>1, <3>1 DEF Leaves
    <3> QED
      BY <3>1, <3>2 DEF Sound, Unsettled
  <2>3. stray.buy = 0 /\ stray.sell = 0
    BY <1>2, <1>5 DEF CleanupKnows
  <2> QED
    BY <2>1, <2>2, <2>3 DEF Unsettled
<1>6. r = "completed" /\ ~unnamed
        => /\ held = 0 /\ stray.buy = 0 /\ stray.sell = 0
           /\ \A o \in Slots : atBroker'[o] \notin {"live", "limbo"}
  BY <1>3, <1>4, <1>5
<1>7. \A o \in Slots : exec'[o] = exec[o] /\ atBroker'[o] = atBroker[o]
  BY <1>3
<1>8. Stop(r) /\ r # "not_required" /\ TypeOK /\ BooksSound
  BY <1>2, <1>4
<1> QED
  BY <1>3, <1>6, <1>7, <1>8, StopKeeps

\* The end of a process in the middle of something: a call may be on its way.
LEMMA EndInv ==
  ASSUME LiveInv, pc # "halted", NEW r \in {"failed", "crashed"}, Stop(r),
         \/ UNCHANGED broker
         \/ pc = "entry" /\ SubmitLost(plan.entry)
         \/ pc \in {"exit", "deferred", "flatten"} /\ SubmitLost(plan.exit)
  PROVE  LiveInv'
<1>1. /\ TypeOK /\ BooksSound /\ ControlSound /\ plan \in Plans /\ r \in Reports
      /\ atBroker \in [Slots -> BrokerStates] /\ exec \in [Slots -> Nat]
  BY DEF LiveInv, TypeOK, Plans, Reports
<1>2. CASE UNCHANGED broker
  <2>1. atBroker' = atBroker /\ exec' = exec /\ held' = held /\ stray' = stray /\ drift' = drift
    BY <1>2 DEF broker
  <2> QED
    BY <1>1, <2>1, StopKeeps
<1>3. ASSUME NEW o \in Slots, SubmitLost(o), role[o] # "none", atBroker[o] = "none"
      PROVE  LiveInv'
  <2>1. PICK s \in {"none", "limbo", "live"} : atBroker' = [atBroker EXCEPT ![o] = s]
    BY <1>3 DEF SubmitLost
  <2>2. exec' = exec /\ held' = held /\ stray' = stray /\ drift' = drift
    BY <1>3 DEF SubmitLost
  <2>3. /\ atBroker' \in [Slots -> BrokerStates]
        /\ \A p \in Slots : \/ atBroker'[p] = atBroker[p]
                            \/ /\ atBroker[p] = "none" /\ role[p] # "none"
                               /\ atBroker'[p] \in {"limbo", "live"}
    BY <1>1, <1>3, <2>1 DEF BrokerStates
  <2> QED
    BY <1>1, <2>2, <2>3, StopKeeps
<1>4. CASE pc = "entry" /\ SubmitLost(plan.entry)
  <2>1. PICK o \in Slots : o = plan.entry /\ Fresh(o, "entry")
    BY <1>1, <1>4 DEF ControlSound, PlanFits, At, BeforeEntry, Plans
  <2> QED
    BY <1>3, <1>4, <2>1 DEF Fresh
<1>5. CASE pc \in {"exit", "deferred", "flatten"} /\ SubmitLost(plan.exit)
  <2>1. PICK o \in Slots : o = plan.exit /\ Fresh(o, "exit")
    BY <1>1, <1>5 DEF ControlSound, PlanFits, At, BeforeEntry, BeforeExit, Plans
  <2> QED
    BY <1>3, <1>5, <2>1 DEF Fresh
<1> QED
  BY <1>2, <1>4, <1>5

\* A look at the broker fails: the cleanup ends, or breaks off.
LEMMA CleanupFailsInv ==
  ASSUME LiveInv, CleanupFails
  PROVE  LiveInv'
<1>1. /\ pc \in FlattenPcs /\ UNCHANGED broker
      /\ Stop("failed") \/ (UNCHANGED strategy /\ BreakOff)
  BY DEF CleanupFails, FlattenPcs
<1>2. pc # "halted"
  BY <1>1 DEF FlattenPcs
<1>3. CASE Stop("failed")
  <2>1. PICK r \in {"failed", "crashed"} : r = "failed"
    OBVIOUS
  <2> QED
    BY <1>1, <1>2, <1>3, <2>1, EndInv
<1>4. CASE UNCHANGED strategy /\ BreakOff
  <2>1. TypeOK /\ BooksSound /\ report = "none" /\ RoomAt(At) /\ At # "halted"
    BY <1>1, <1>2 DEF LiveInv, ControlSound, Room, At, FlattenPcs
  <2>2. /\ BooksSound' /\ orders' = orders /\ role' = role /\ atBroker' = atBroker /\ exec' = exec
        /\ held' = held /\ stray' = stray /\ drift' = drift
        /\ position' = position /\ lollipop' = lollipop /\ uncovered' = uncovered
    BY <1>1, <1>4, <2>1, Untouched
  <2>3. /\ orders' \in [Slots -> Order] /\ role' \in [Slots -> {"entry", "exit", "none"}]
        /\ atBroker' \in [Slots -> BrokerStates] /\ exec' \in [Slots -> Nat] /\ held' \in Nat
        /\ position' \in Int /\ lollipop' \in Workflow /\ uncovered' \in BOOLEAN
    BY <2>1, <2>2 DEF TypeOK
  <2>4. PICK at : at = At
    OBVIOUS
  <2> QED
    BY <1>4, <2>1, <2>2, <2>3, <2>4, BreakOffSteps
<1> QED
  BY <1>1, <1>3, <1>4

\* A new ledger on an account whose open orders no ledger holds: of the first process,
\* of a later one, or of a process that reconnects.
Starting ==
  /\ held \in Nat /\ stray \in [buy : Nat, sell : Nat] /\ drift = 0
  /\ atBroker = [o \in Slots |-> "none"] /\ exec = [o \in Slots |-> 0]
  /\ orders = [o \in Slots |-> Absent] /\ role = [o \in Slots |-> "none"]
  /\ position = held /\ uncovered = FALSE
  /\ lollipop = IF held > 0 THEN OnEntryFill(Idle) ELSE Idle
  /\ pc \in {"board", "caught"}
  /\ then = "board" /\ todo = {} /\ cancels = {} /\ plan = NoPlan
  /\ rounds \in 0 .. 3 /\ tried \subseteq Slots /\ report = "none"
  /\ unnamed \in BOOLEAN /\ guarded = FALSE

\* It starts in order.
LEMMA StartSound == Starting => LiveInv
<1> SUFFICES ASSUME Starting PROVE LiveInv
  OBVIOUS
<1> USE DEF Starting
<1>1. /\ Absent \in Order /\ Absent.cum = 0 /\ Absent.qty = 1 /\ Absent.anchored
      /\ Absent.broker = NoBroker /\ ~IsFinal(Absent)
  BY DEF Absent, NewOrder, Order, Status, OpenStatus, IsFinal, FinalStatus
<1>2. /\ lollipop \in Workflow /\ ~lollipop.forced
      /\ (held > 0 => lollipop.phase = "SCHEDULED")
  <2>1. Idle \in Workflow /\ ~Idle.forced
    BY RetriesAssumption DEF Idle, Workflow, Phases
  <2>2. /\ OnEntryFill(Idle) \in Workflow /\ ~OnEntryFill(Idle).forced
        /\ OnEntryFill(Idle).phase = "SCHEDULED"
    BY RetriesAssumption DEF OnEntryFill, Workflow, Phases
  <2> QED
    BY <2>1, <2>2
<1>3. TypeOK
  <2>1. /\ atBroker \in [Slots -> BrokerStates] /\ exec \in [Slots -> Nat]
        /\ orders \in [Slots -> Order] /\ role \in [Slots -> {"entry", "exit", "none"}]
    BY <1>1 DEF BrokerStates
  <2>2. /\ pc \in TradingPcs \cup HandlerPcs /\ then \in TradingPcs /\ todo \subseteq Slots
        /\ cancels \subseteq Slots /\ plan \in Plans
    BY DEF TradingPcs, HandlerPcs, NoPlan, Plans
  <2>3. /\ tried \subseteq Slots /\ report \in Reports
        /\ unnamed \in BOOLEAN /\ uncovered \in BOOLEAN
    BY DEF Reports
  <2>4. held \in Nat /\ stray \in [buy : Nat, sell : Nat] /\ rounds \in 0 .. 3
    OBVIOUS
  <2>5. position \in Int
    <3>1. position = held /\ held \in Nat
      OBVIOUS
    <3> HIDE DEF Starting
    <3> QED
      BY <3>1
  <2>6. drift \in Int
    <3>1. drift = 0
      OBVIOUS
    <3> HIDE DEF Starting
    <3> QED
      BY <3>1
  <2>7. guarded \in BOOLEAN
    OBVIOUS
  <2> QED
    <3> HIDE DEF Starting
    <3> QED
      BY <1>2, <2>1, <2>2, <2>3, <2>4, <2>5, <2>6, <2>7 DEF TypeOK, Plans
<1>4. BooksSound
  <2> SUFFICES ASSUME NEW o \in Slots PROVE Sound(o)
    BY DEF BooksSound
  <2>1. o # NoBroker
    BY SlotsFinite, SlotsAssumption
  <2>2. /\ orders[o] = Absent /\ role[o] = "none" /\ atBroker[o] = "none" /\ exec[o] = 0
    OBVIOUS
  <2> QED
    BY <1>1, <2>1, <2>2 DEF Sound, Unsettled
<1>5. Active = {} /\ \A r : ActiveOf(r) = {}
  BY DEF Active, Used, ActiveOf
<1>6. TradeSound
  <2>1. Mirrored
    <3> DEFINE f == [o \in Slots |-> Unseen(o)]
    <3>1. \A o \in Slots : f[o] = 0
      BY DEF Unseen
    <3> HIDE DEF f
    <3>2. SumFunctionOnSet(f, Slots) = 0
      BY <3>1, SlotsFinite, SumOfZeros
    <3>3. held = position + drift + SumFunctionOnSet(f, Slots)
      BY <3>2
    <3> QED
      BY <3>3 DEF Mirrored, f
  <2>2. /\ position >= 0 /\ ~uncovered
        /\ position > 0 => lollipop.phase = "SCHEDULED"
    BY <1>2
  <2>3. \A o \in Slots : ~Unsettled(o)
    BY DEF Unsettled
  <2> QED
    BY <1>2, <1>5, <2>1, <2>2, <2>3 DEF TradeSound, Single, Covered, ExitOwed
<1>7. At = pc /\ At \in {"board", "caught"}
  BY DEF At
<1>8. ControlSound
  <2>1. PlanFits(At, plan)
    BY <1>5, <1>7 DEF PlanFits, BeforeEntry, BeforeExit, NoPlan
  <2> QED
    BY <2>1 DEF ControlSound, CancelsFit
<1>9. Room /\ DeferredOwed
  <2>1. 1 \in Slots
    BY BoundsAssumption DEF Slots
  <2> QED
    BY <1>7, <2>1 DEF Room, RoomAt, DeferredOwed
<1>10. CleanupKnows /\ FlattenHonest
  BY <1>7 DEF CleanupKnows, FlattenHonest
<1> QED
  BY <1>3, <1>4, <1>6, <1>8, <1>9, <1>10 DEF LiveInv

\* What taking over makes of the books.
LEMMA TakeOverStarts ==
  ASSUME TypeOK, BooksSound, TakeOver
  PROVE  /\ held' \in Nat /\ stray' \in [buy : Nat, sell : Nat] /\ drift' = 0
         /\ atBroker' = [o \in Slots |-> "none"] /\ exec' = [o \in Slots |-> 0]
         /\ orders' = [o \in Slots |-> Absent]' /\ role' = [o \in Slots |-> "none"]
         /\ position' = held' /\ uncovered' = FALSE
         /\ lollipop' = (IF held > 0 THEN OnEntryFill(Idle) ELSE Idle)'
<1> DEFINE f == [o \in Slots |-> Leaves(o)]
<1>1. ASSUME NEW S, S \subseteq Slots PROVE SumFunctionOnSet(f, S) \in Nat
  <2>1. \A o \in S : f[o] \in Nat
    <3> SUFFICES ASSUME NEW o \in S PROVE Leaves(o) \in Nat
      BY <1>1
    <3>1. orders[o] \in Order /\ exec[o] \in Nat /\ exec[o] <= orders[o].qty
      BY <1>1 DEF TypeOK, BooksSound, Sound
    <3> QED
      BY <3>1 DEF Leaves, Order
  <2>2. IsFiniteSet(S)
    BY <1>1, SlotsFinite, FS_Subset
  <2> HIDE DEF f
  <2> QED
    BY <2>1, <2>2, SumIsNat
<1>2. LotsAtWork("entry") \in Nat /\ LotsAtWork("exit") \in Nat
  <2>1. ASSUME NEW r PROVE LotsAtWork(r) \in Nat
    <3>1. {o \in Live : role[o] = r} \subseteq Slots
      BY DEF Live
    <3> QED
      BY <1>1, <3>1 DEF LotsAtWork
  <2> QED
    BY <2>1
<1>3. stray' \in [buy : Nat, sell : Nat]
  <2>1. stray.buy \in Nat /\ stray.sell \in Nat
    BY DEF TypeOK
  <2>2. /\ stray.buy + LotsAtWork("entry") \in Nat
        /\ stray.sell + LotsAtWork("exit") \in Nat
    BY <1>2, <2>1
  <2>3. stray' = [buy |-> stray.buy + LotsAtWork("entry"),
                  sell |-> stray.sell + LotsAtWork("exit")]
    BY DEF TakeOver
  <2> QED
    BY <2>2, <2>3
<1>4. held' = held /\ held \in Nat
  BY DEF TakeOver, TypeOK
<1> QED
  BY <1>3, <1>4 DEF TakeOver, Absent, NewOrder, OnEntryFill, Idle

\* The next process starts in order, whatever the last one has left at the broker.
LEMMA RestartInv ==
  ASSUME LiveInv, Restart
  PROVE  LiveInv'
<1>1. TypeOK /\ BooksSound
  BY DEF LiveInv
<1>2. Starting'
  <2>1. TakeOver /\ Leave("board") /\ rounds' = 0 /\ tried' = {} /\ report' = "none"
        /\ unnamed' = FALSE /\ guarded' = FALSE
    BY DEF Restart
  <2>2. rounds' \in 0 .. 3 /\ tried' \subseteq Slots /\ unnamed' \in BOOLEAN
    <3>1. 0 \in 0 .. 3
      OBVIOUS
    <3>2. rounds' \in 0 .. 3
      BY <2>1, <3>1
    <3> QED
      BY <2>1, <3>2
  <2>3. /\ held' \in Nat /\ stray' \in [buy : Nat, sell : Nat] /\ drift' = 0
        /\ atBroker' = [o \in Slots |-> "none"] /\ exec' = [o \in Slots |-> 0]
        /\ orders' = [o \in Slots |-> Absent]' /\ role' = [o \in Slots |-> "none"]
        /\ position' = held' /\ uncovered' = FALSE
        /\ lollipop' = (IF held > 0 THEN OnEntryFill(Idle) ELSE Idle)'
    BY <1>1, <2>1, TakeOverStarts
  <2>4. /\ pc' = "board" /\ then' = "board" /\ todo' = {} /\ cancels' = {} /\ plan' = NoPlan'
    BY <2>1 DEF Leave, NoPlan
  <2> QED
    BY <2>1, <2>2, <2>3, <2>4 DEF Starting
<1>3. Starting' => LiveInv'
  BY StartSound, PTL
<1> QED
  BY <1>2, <1>3

\* A process that reconnects starts again, with what the snapshot restores.
LEMMA ReconnectInv ==
  ASSUME LiveInv, Reconnect
  PROVE  LiveInv'
<1>1. TypeOK /\ BooksSound /\ ControlSound
  BY DEF LiveInv
<1>2. Starting'
  <2>1. /\ TakeOver /\ guarded' = FALSE /\ UNCHANGED <<rounds, tried, report, unnamed>>
        /\ \E label \in {"board", "caught"} : Leave(label)
        /\ pc \in {"caught", "again"}
    BY DEF Reconnect, Unexposed
  <2>2. rounds' \in 0 .. 3 /\ tried' \subseteq Slots /\ unnamed' \in BOOLEAN /\ report' = "none"
    BY <1>1, <2>1 DEF TypeOK, ControlSound
  <2> QED
    BY <1>1, <2>1, <2>2, TakeOverStarts DEF Leave, Starting, NoPlan
<1>3. Starting' => LiveInv'
  BY StartSound, PTL
<1> QED
  BY <1>2, <1>3

-------------------------------------------------------------------------------
(***************************************************************************)
(* The theorems.                                                           *)
(***************************************************************************)

\* Every step of the worker, the broker and the operator keeps the invariant.
LEMMA NextInv ==
  ASSUME LiveInv, [Next]_vars
  PROVE  LiveInv'
<1>1. CASE Environment
  BY <1>1, EnvironmentInv
<1>2. CASE ReceiveBoard \/ IgnoreBoard \/ Fault \/ Reconnect \/ GiveUp
  BY <1>2, ReceiveBoardInv, IgnoreBoardInv, FaultInv, ReconnectInv, GiveUpInv
<1>3. CASE Poll
  BY <1>3, PollInv
<1>4. CASE Stage
  <2>1. CASE \E flip, due, expired, cancelEntry \in BOOLEAN, qty \in 0 .. MaxQty :
               Decide(flip, due, expired, cancelEntry, qty)
    BY <2>1, DecideInv
  <2>2. CASE \E o \in Slots : CancelWorking(o)
    BY <2>2, CancelWorkingInv
  <2>3. CASE \E due, expired \in BOOLEAN : Release(due, expired)
    BY <2>3, ReleaseInv
  <2>4. CASE SubmitEntry \/ SubmitExit \/ SubmitDeferred
    BY <2>4, SubmitInv
  <2> QED
    BY <1>4, <2>1, <2>2, <2>3, <2>4 DEF Stage
<1>5. CASE EmergencyFlatten
  <2>1. CASE \E o \in Slots : CancelAll(o)
    BY <2>1, CancelAllInv
  <2>2. CASE Scan \/ \E o \in Slots : ScanCancel(o)
    BY <2>2, ScanInv
  <2>3. CASE Cleanup \/ ScanPolls \/ Verify
    BY <2>3, CleanupInv, ScanPollsInv, VerifyInv
  <2>4. CASE ReadPosition \/ Flatten \/ LastPosition
    BY <2>4, ReadPositionInv, FlattenInv, LastPositionInv
  <2> QED
    BY <1>5, <2>1, <2>2, <2>3, <2>4 DEF EmergencyFlatten
<1>6. CASE CleanupFails \/ Crash
  <2>1. CASE CleanupFails
    BY <2>1, CleanupFailsInv
  <2>2. CASE Crash
    <3>1. PICK r \in {"failed", "crashed"} : r = "crashed"
      OBVIOUS
    <3> QED
      BY <2>2, <3>1, EndInv DEF Crash
  <2> QED
    BY <1>6, <2>1, <2>2
<1>7. CASE Restart
  BY <1>7, RestartInv
<1>8. CASE UNCHANGED vars
  <2>1. UNCHANGED <<broker, strategy>> /\ UNCHANGED cleanup /\ UNCHANGED control
    BY <1>8 DEF vars, runtime
  <2>2. /\ orders' = orders /\ role' = role /\ position' = position /\ lollipop' = lollipop
        /\ uncovered' = uncovered /\ atBroker' = atBroker /\ exec' = exec /\ held' = held /\ stray' = stray /\ drift' = drift
        /\ pc' = pc /\ then' = then /\ todo' = todo /\ cancels' = cancels /\ plan' = plan
        /\ rounds' = rounds /\ tried' = tried /\ report' = report /\ unnamed' = unnamed
        /\ guarded' = guarded
    BY <2>1 DEF broker, strategy, cleanup, control
  <2>3. LiveInv' <=> LiveInv
    BY <2>2 DEF LiveInv, TypeOK, BooksSound, Sound, Absent, Unsettled, Trading, Flattening,
         TradeSound, Single, ActiveOf, Active, Used, Mirrored, Unseen, Covered, Open,
         ExitOwed, DeferredOwed, ForceOwed, At, ControlSound, PlanFits, Fresh, ToSend,
         CancelsFit, Room, RoomAt, CleanupKnows, Leaves, FlattenHonest
  <2> QED
    BY <2>3
<1> QED
  BY <1>1, <1>2, <1>3, <1>4, <1>5, <1>6, <1>7, <1>8 DEF Next

\* The invariant holds in every reachable state, whatever the bounds.
THEOREM Invariance == Spec => []LiveInv
<1>1. Init => LiveInv
  <2> SUFFICES ASSUME Init PROVE LiveInv
    OBVIOUS
  <2>1. 0 \in 0 .. 3 /\ [buy |-> 0, sell |-> 0] \in [buy : Nat, sell : Nat] /\ ~(0 > 0)
    OBVIOUS
  <2>2. /\ rounds \in 0 .. 3 /\ stray \in [buy : Nat, sell : Nat] /\ held \in Nat /\ drift = 0
        /\ position = held /\ lollipop = IF held > 0 THEN OnEntryFill(Idle) ELSE Idle
    BY <2>1 DEF Init
  <2>3. Starting
    BY <2>2 DEF Init, Starting
  <2> QED
    BY <2>3, StartSound
<1>2. LiveInv /\ [Next]_vars => LiveInv'
  BY NextInv
<1> QED
  BY <1>1, <1>2, PTL DEF Spec

\* TypeOK: every variable of the live loop keeps its type.
THEOREM TypeCorrect == Spec => []TypeOK
<1>1. LiveInv => TypeOK
  BY DEF LiveInv
<1> QED
  BY <1>1, Invariance, PTL

\* MirrorExact: while the loop trades, and when an exception reaches it, the strategy's
\* position is the account's, up to the executions no poll has read yet and to those of
\* orders the start left alone.
THEOREM PositionMirrored == Spec => []MirrorExact
<1>1. LiveInv => MirrorExact
  BY DEF LiveInv, TradeSound, Mirrored, MirrorExact
<1> QED
  BY <1>1, Invariance, PTL

\* What a start that sees every open order leaves at the broker: nothing.
NothingStray == StartSeesOrders => stray.buy = 0 /\ stray.sell = 0 /\ drift = 0

\* Only a takeover adds to the orders no ledger holds, and then none is open.
LEMMA NothingStrayInv ==
  ASSUME TypeOK, NothingStray, [Next]_vars
  PROVE  NothingStray'
<1> SUFFICES ASSUME StartSeesOrders PROVE stray'.buy = 0 /\ stray'.sell = 0 /\ drift' = 0
  BY DEF NothingStray
<1>1. stray.buy = 0 /\ stray.sell = 0 /\ drift = 0
  BY DEF NothingStray
<1>2. ~StrayExecutes /\ ~StrayEnds
  BY <1>1 DEF StrayExecutes, StrayEnds
<1>3. CASE TakeOver
  <2>1. ~OpenOrders /\ drift' = 0
    BY <1>3 DEF TakeOver
  <2>2. ASSUME NEW r PROVE LotsAtWork(r) = 0
    <3>1. {o \in Live : role[o] = r} = {}
      BY <2>1 DEF OpenOrders
    <3> QED
      BY <3>1, SumOfNothing DEF LotsAtWork
  <2>3. LotsAtWork("entry") = 0 /\ LotsAtWork("exit") = 0
    BY <2>2
  <2> QED
    BY <1>1, <1>3, <2>1, <2>3 DEF TakeOver
<1>4. CASE stray' = stray /\ drift' = drift
  BY <1>1, <1>4
<1>5. CASE UNCHANGED broker
  BY <1>4, <1>5 DEF broker
<1>6. CASE Environment
  BY <1>2, <1>4, <1>6 DEF Environment, Execute, BrokerCancels, BrokerRejects, LimboEnds
<1>7. CASE ReceiveBoard \/ IgnoreBoard \/ Fault \/ Reconnect \/ GiveUp
  BY <1>3, <1>4, <1>5, <1>7 DEF ReceiveBoard, Forget, IgnoreBoard, Fault, Reconnect, GiveUp
<1>8. CASE Poll
  BY <1>5, <1>8 DEF Poll, PollReads, PollFails, PollMissesId
<1>9. ASSUME NEW o, SubmitAccepted(o) \/ SubmitLost(o) \/ SubmitUnknown(o) \/ SubmitRefused(o)
      PROVE  stray' = stray /\ drift' = drift
  BY <1>9 DEF SubmitAccepted, SubmitLost, SubmitUnknown, SubmitRefused, broker
<1>10. ASSUME NEW o, CancelAccepted(o) \/ CancelUnknown(o) \/ CancelTimesOut(o)
       PROVE  UNCHANGED broker
  BY <1>10 DEF CancelAccepted, CancelUnknown, CancelTimesOut
<1>11. CASE Stage
  <2>1. CASE \E flip, due, expired, cancelEntry \in BOOLEAN, qty \in 0 .. MaxQty :
               Decide(flip, due, expired, cancelEntry, qty)
    BY <1>5, <2>1 DEF Decide
  <2>2. CASE \E o \in Slots : CancelWorking(o)
    BY <1>5, <1>10, <2>2 DEF CancelWorking
  <2>3. CASE \E due, expired \in BOOLEAN : Release(due, expired)
    BY <1>5, <2>3 DEF Release
  <2>4. CASE SubmitEntry \/ SubmitExit \/ SubmitDeferred
    BY <1>4, <1>9, <2>4 DEF SubmitEntry, SubmitExit, SubmitDeferred, Submit
  <2> QED
    BY <1>11, <2>1, <2>2, <2>3, <2>4 DEF Stage
<1>12. CASE EmergencyFlatten
  <2>1. CASE Cleanup
    BY <1>4, <1>5, <2>1 DEF Cleanup, Forget
  <2>2. CASE \E o \in Slots : CancelAll(o) \/ ScanCancel(o)
    BY <1>5, <1>10, <2>2 DEF CancelAll, ScanCancel
  <2>3. CASE Scan \/ ScanPolls \/ Verify \/ ReadPosition \/ LastPosition
    BY <1>5, <2>3 DEF Scan, ScanPolls, Verify, ReadPosition, LastPosition
  <2>4. CASE Flatten
    BY <1>4, <1>9, <2>4 DEF Flatten
  <2> QED
    BY <1>12, <2>1, <2>2, <2>3, <2>4 DEF EmergencyFlatten
<1>13. CASE CleanupFails
  BY <1>5, <1>13 DEF CleanupFails
<1>14. CASE Crash
  BY <1>4, <1>5, <1>9, <1>14 DEF Crash
<1>15. CASE Restart
  BY <1>3, <1>15 DEF Restart
<1>16. CASE UNCHANGED vars
  BY <1>5, <1>16 DEF vars
<1> QED
  BY <1>6, <1>7, <1>8, <1>11, <1>12, <1>13, <1>14, <1>15, <1>16 DEF Next

\* Where the start sees every open order of the symbol ("reject", and orders the broker
\* lists under the configured exchange), the account holds exactly the strategy's position
\* and what polls have still to read, and a cleanup is skipped only with an empty account.
SeenStartExact ==
  StartSeesOrders
    => /\ Trading => held = position + SumFunctionOnSet([o \in Slots |-> Unseen(o)], Slots)
       /\ report = "not_required" /\ ~guarded => held = 0

\* SeenStartExact: MirrorExact and FlattenHonest without the drift.
THEOREM PositionExact == Spec => []SeenStartExact
<1>1. Init => NothingStray
  BY DEF Init, NothingStray
<1>2. TypeOK /\ NothingStray /\ [Next]_vars => NothingStray'
  BY NothingStrayInv
<1>3. LiveInv /\ NothingStray => SeenStartExact
  <2> DEFINE rest == SumFunctionOnSet([o \in Slots |-> Unseen(o)], Slots)
  <2> SUFFICES ASSUME LiveInv, NothingStray, StartSeesOrders
               PROVE  /\ Trading => held = position + rest
                      /\ report = "not_required" /\ ~guarded => held = 0
    BY DEF SeenStartExact
  <2>1. position \in Int /\ drift = 0
    BY DEF LiveInv, NothingStray, TypeOK
  <2>2. Trading => held = position + drift + rest
    BY DEF LiveInv, TradeSound, Mirrored
  <2>3. report = "not_required" /\ ~guarded => held = drift
    BY DEF LiveInv, FlattenHonest
  <2> HIDE DEF rest
  <2> QED
    BY <2>1, <2>2, <2>3
<1>4. LiveInv => TypeOK
  BY DEF LiveInv
<1> QED
  BY <1>1, <1>2, <1>3, <1>4, Invariance, PTL DEF Spec

\* LiveOrdersTracked: the ledger holds every order that this process sent and that may
\* still execute open, after a broken-off cleanup too.
THEOREM NoOrderForgotten == Spec => []LiveOrdersTracked
<1>1. LiveInv => LiveOrdersTracked
  <2> SUFFICES ASSUME LiveInv, NEW o \in Slots, Unsettled(o) PROVE o \in Active
    BY DEF LiveOrdersTracked, Unsettled
  <2>1. Sound(o)
    BY DEF LiveInv, BooksSound
  <2> QED
    BY <2>1 DEF Sound, Unsettled, Active, Used
<1> QED
  BY <1>1, Invariance, PTL

\* SingleEntry: at most one entry works.
THEOREM OneEntryAtATime == Spec => []SingleEntry
<1>1. LiveInv => SingleEntry
  <2> SUFFICES ASSUME LiveInv, Trading PROVE Cardinality(ActiveOf("entry")) <= 1
    BY DEF SingleEntry
  <2>1. Single("entry")
    BY DEF LiveInv, TradeSound
  <2>2. CASE ActiveOf("entry") = {}
    BY <2>2, FS_EmptySet
  <2>3. CASE ActiveOf("entry") # {}
    <3>1. PICK o : ActiveOf("entry") = {o}
      BY <2>1, <2>3 DEF Single
    <3>2. Cardinality(ActiveOf("entry")) = 1
      BY <3>1, FS_Singleton
    <3> QED
      BY <3>2
  <2> QED
    BY <2>2, <2>3
<1> QED
  BY <1>1, Invariance, PTL

\* ExitsCovered: the exits at work never add up to more than the position.
THEOREM NoDoubleExit == Spec => []ExitsCovered
<1>1. LiveInv => ExitsCovered
  <2> DEFINE f == [o \in Slots |-> LeavesQty(orders[o])]
  <2> SUFFICES ASSUME LiveInv, Trading
               PROVE  position >= 0 /\ SumFunctionOnSet(f, ActiveOf("exit")) <= position
    BY DEF ExitsCovered
  <2>1. TypeOK /\ TradeSound
    BY DEF LiveInv
  <2>2. position \in Int /\ position >= 0 /\ Single("exit") /\ Covered
    BY <2>1 DEF TypeOK, TradeSound
  <2>3. CASE ActiveOf("exit") = {}
    BY <2>2, <2>3, SumOfNothing
  <2>4. CASE ActiveOf("exit") # {}
    <3>1. PICK o : ActiveOf("exit") = {o}
      BY <2>2, <2>4 DEF Single
    <3>2. o \in Slots /\ Open(o) <= position
      BY <2>2, <3>1 DEF Covered, ActiveOf, Active, Used
    <3>3. orders[o].qty \in Nat /\ orders[o].cum \in Nat
      BY <2>1, <3>2 DEF TypeOK, Order
    <3>4. f[o] \in Int /\ f[o] <= position
      BY <2>2, <3>2, <3>3 DEF LeavesQty, Open
    <3> HIDE DEF f
    <3> QED
      BY <2>2, <3>1, <3>4, SumOfOne
  <2> QED
    BY <2>3, <2>4
<1> QED
  BY <1>1, Invariance, PTL

\* FlattenHonest: a flat report means a flat account that no open order can change.
THEOREM ReportsHonest == Spec => []FlattenHonest
<1>1. LiveInv => FlattenHonest
  BY DEF LiveInv
<1> QED
  BY <1>1, Invariance, PTL

\* ExitDuty: between boards an open position has an exit at work, or one that is due.
THEOREM ExitAlwaysDue == Spec => []ExitDuty
<1>1. LiveInv => ExitDuty
  <2> SUFFICES ASSUME LiveInv, pc = "board" PROVE ExitOwed
    BY DEF ExitDuty, ExitOwed
  <2>1. Trading
    BY DEF Trading, Flattening, TradingPcs, FlattenPcs
  <2> QED
    BY <2>1 DEF LiveInv, TradeSound
<1> QED
  BY <1>1, Invariance, PTL

===============================================================================
